--------------------------- MODULE LuaWorker_proofs ---------------------------
(***************************************************************************)
(* What holds of the worker for any set of clients, any queue length and   *)
(* any number of calls.  The argument: a job names the frame of the call   *)
(* that built it, and it is in exactly one place (the queue, the worker's  *)
(* hand, or gone into the semaphore) as long as that call waits.           *)
(***************************************************************************)
EXTENDS LuaWorker, SequenceTheorems, TLAPS

USE NobodyAssumption, QueueLenAssumption, MaxCallsAssumption

-----------------------------------------------------------------------------
(* Type correctness. *)

\* The job a call builds is a job.
LEMMA OwnJobType ==
    ASSUME TypeOK, NEW c \in Clients, NEW t \in JobTypes, call[c] < MaxCalls
    PROVE  /\ OwnJob(c, t) \in Jobs
           /\ FreeJob(c, t) \in Jobs
BY DEF TypeOK, OwnJob, FreeJob, Jobs

\* A put with room leaves the queue and the worker's hand well typed.
LEMMA AcceptType ==
    ASSUME TypeOK, NEW m \in Jobs, Accept(m)
    PROVE  /\ queue' \in Seq(Jobs) /\ Len(queue') <= QueueLen
           /\ wpc' \in {"next", "blocked", "got", "run", "ran", "write", "give"}
           /\ job' \in Jobs
<1>1. CASE wpc = "blocked"
  BY <1>1 DEF TypeOK, Accept
<1>2. CASE wpc # "blocked"
  <2>1. queue' = Append(queue, m) /\ Len(queue) < QueueLen /\ UNCHANGED <<wpc, job>>
    BY <1>2 DEF Accept
  <2>2. queue' \in Seq(Jobs) /\ Len(queue') = Len(queue) + 1 /\ Len(queue) \in Nat
    BY <2>1 DEF TypeOK
  <2>3. Len(queue') <= QueueLen
    BY <2>1, <2>2
  <2> QED BY <2>1, <2>2, <2>3 DEF TypeOK
<1> QED BY <1>1, <1>2

\* Entering a frame leaves the client's variables well typed.
LEMMA EnterFrameType ==
    ASSUME TypeOK, NEW c \in Clients, NEW m \in Jobs, EnterFrame(c, m)
    PROVE  /\ call' \in [Clients -> 0 .. MaxCalls]
           /\ msg' \in [Clients -> Jobs]
           /\ sem' \in [Clients -> {0, 1}]
           /\ result' \in [Clients -> Results]
BY DEF TypeOK, EnterFrame, Results

\* No step of the worker or of a client breaks a type.
LEMMA TypeStep == ASSUME TypeOK, [Next]_vars PROVE TypeOK'
<1>1. ASSUME NEW c \in Clients, NEW t \in JobTypes, Request(c, t) PROVE TypeOK'
  <2> DEFINE m == OwnJob(c, t)
  <2>1. m \in Jobs /\ EnterFrame(c, m)
    BY <1>1, OwnJobType DEF Request, EnterFrame
  <2> HIDE DEF m
  <2>2. CASE Accept(m) /\ pc' = [pc EXCEPT ![c] = "waiting"]
    BY <1>1, <2>1, <2>2, AcceptType, EnterFrameType DEF TypeOK, Request
  <2>3. CASE pc' = [pc EXCEPT ![c] = "putting"] /\ UNCHANGED <<queue, wpc, job>>
    BY <1>1, <2>1, <2>3, EnterFrameType DEF TypeOK, Request
  <2> QED BY <1>1, <2>2, <2>3 DEF Request, m
<1>2. ASSUME NEW c \in Clients, NEW t \in Scripts, WebRun(c, t) PROVE TypeOK'
  <2> DEFINE m == OwnJob(c, t)
  <2>1. m \in Jobs /\ EnterFrame(c, m)
    BY <1>2, OwnJobType DEF WebRun, EnterFrame, Scripts, JobTypes
  <2> HIDE DEF m
  <2>2. CASE Accept(m) /\ pc' = [pc EXCEPT ![c] = "waiting"] /\ UNCHANGED ret
    BY <1>2, <2>1, <2>2, AcceptType, EnterFrameType DEF TypeOK, WebRun
  <2>3. CASE /\ ret' = [ret EXCEPT ![c] = "-ENOMSG"]
             /\ UNCHANGED <<queue, wpc, job, pc>>
    BY <1>2, <2>1, <2>3, EnterFrameType DEF TypeOK, WebRun, Refusals
  <2> QED BY <1>2, <2>2, <2>3 DEF WebRun, m
<1>3. ASSUME NEW c \in Clients, NEW t \in Scripts, Background(c, t) PROVE TypeOK'
  <2> DEFINE m == FreeJob(c, t)
  <2>1. m \in Jobs /\ EnterFrame(c, m)
    BY <1>3, OwnJobType DEF Background, EnterFrame, Scripts, JobTypes
  <2> HIDE DEF m
  <2>2. CASE Accept(m) /\ ret' = [ret EXCEPT ![c] = "0"]
    BY <1>3, <2>1, <2>2, AcceptType, EnterFrameType DEF TypeOK, Background, Results
  <2>3. CASE /\ ret' = [ret EXCEPT ![c] = "-ENOMSG"]
             /\ UNCHANGED <<queue, wpc, job>>
    BY <1>3, <2>1, <2>3, EnterFrameType DEF TypeOK, Background, Refusals
  <2> QED BY <1>3, <2>2, <2>3 DEF Background, m
<1>4. ASSUME NEW c \in Clients, PutTimeout(c) PROVE TypeOK'
  BY <1>4 DEF TypeOK, PutTimeout, worker, Refusals
<1>5. ASSUME NEW c \in Clients, TakeDone(c) PROVE TypeOK'
  BY <1>5 DEF TypeOK, TakeDone, worker
<1>6. CASE GetJob
  <2>1. /\ Head(queue) \in Jobs
        /\ Tail(queue) \in Seq(Jobs)
        /\ Len(Tail(queue)) = Len(queue) - 1
        /\ Len(queue) \in Nat
    BY <1>6 DEF GetJob, TypeOK
  <2>2. queue' \in Seq(Jobs) /\ Len(queue') <= QueueLen
    <3>1. CASE queue' = Tail(queue)
      BY <2>1, <3>1 DEF TypeOK
    <3>2. ASSUME NEW m \in Jobs, queue' = Append(Tail(queue), m)
          PROVE  queue' \in Seq(Jobs) /\ Len(queue') <= QueueLen
      BY <2>1, <3>2 DEF TypeOK
    <3> QED BY <1>6, <3>1, <3>2 DEF GetJob, TypeOK
  <2>3. pc' \in [Clients -> {"idle", "putting", "waiting"}]
    BY <1>6 DEF TypeOK, GetJob
  <2> QED BY <1>6, <2>1, <2>2, <2>3 DEF TypeOK, GetJob
<1>7. CASE Run
  BY <1>7 DEF TypeOK, Run, client, Outcome, Results
<1>8. CASE GetBlocks \/ SetBusy \/ ClearBusy \/ WriteResult \/ GiveSem
  <2>1. CASE GetBlocks
    BY <2>1 DEF TypeOK, GetBlocks, client
  <2>2. CASE SetBusy
    BY <2>2 DEF TypeOK, SetBusy, client
  <2>3. CASE ClearBusy
    BY <2>3 DEF TypeOK, ClearBusy, client
  <2>4. CASE WriteResult
    BY <2>4 DEF TypeOK, WriteResult
  <2>5. CASE GiveSem
    BY <2>5 DEF TypeOK, GiveSem
  <2> QED BY <1>8, <2>1, <2>2, <2>3, <2>4, <2>5
<1>9. CASE UNCHANGED vars
  BY <1>9 DEF TypeOK, vars, worker, client
<1> QED BY <1>1, <1>2, <1>3, <1>4, <1>5, <1>6, <1>7, <1>8, <1>9 DEF Next, Worker, Client

\* Every variable keeps to its type, whatever the interleaving.
THEOREM TypeCorrect == Spec => []TypeOK
<1>1. Init => TypeOK
  BY DEF Init, TypeOK, NoJob, Jobs, JobTypes, Results
<1>2. TypeOK /\ [Next]_vars => TypeOK'
  BY TypeStep
<1> QED BY <1>1, <1>2, PTL DEF Spec

-----------------------------------------------------------------------------
(* The inductive invariant: IInv of LuaWorker is kept by every step. *)

\* The two shapes of an accepted put, index by index.
LEMMA AcceptShape ==
    ASSUME IInv, NEW m \in Jobs, Accept(m)
    PROVE  \/ /\ wpc = "blocked" /\ wpc' = "got" /\ job' = m
              /\ queue = <<>> /\ queue' = <<>>
              /\ ~InHand /\ InHand'
           \/ /\ Len(queue) \in Nat /\ Len(queue) < QueueLen
              /\ Len(queue') = Len(queue) + 1
              /\ \A i \in 1 .. Len(queue) : queue'[i] = queue[i]
              /\ queue'[Len(queue) + 1] = m
              /\ job' = job /\ wpc' = wpc /\ wpc # "blocked"
              /\ InHand' <=> InHand
<1>1. CASE wpc = "blocked"
  BY <1>1 DEF Accept, IInv, QueueBlocks, InHand
<1>2. CASE wpc # "blocked"
  <2>1. queue' = Append(queue, m) /\ Len(queue) < QueueLen /\ UNCHANGED <<wpc, job>>
    BY <1>2 DEF Accept
  <2>2. queue \in Seq(Jobs)
    BY DEF IInv, TypeOK
  <2> QED BY <1>2, <2>1, <2>2 DEF InHand
<1> QED BY <1>1, <1>2

\* A call that enters its frame and gets its job accepted keeps the invariant:
\* nothing in the queue, the worker or a semaphore named the new frame.
LEMMA AcceptOwn ==
    ASSUME IInv, TypeOK', NEW c \in Clients, NEW t \in JobTypes,
           NEW m \in Jobs, m = OwnJob(c, t), EnterFrame(c, m), Accept(m),
           pc' = [pc EXCEPT ![c] = "waiting"], UNCHANGED <<res, busy, ret>>
    PROVE  IInv'
<1>1. /\ m.owner = c /\ m.owner # Nobody
      /\ m = msg'[c] /\ m.call = call'[c] /\ pc'[c] = "waiting" /\ sem'[c] = 0
      /\ pc[c] = "idle"
      /\ \A d \in Clients \ {c} : /\ pc'[d] = pc[d] /\ msg'[d] = msg[d]
                                  /\ call'[d] = call[d] /\ sem'[d] = sem[d]
                                  /\ result'[d] = result[d]
  BY DEF EnterFrame, OwnJob, IInv, TypeOK
<1>2. \/ /\ wpc = "blocked" /\ wpc' = "got" /\ job' = m
         /\ queue = <<>> /\ queue' = <<>>
         /\ ~InHand /\ InHand'
      \/ /\ Len(queue) \in Nat /\ Len(queue) < QueueLen
         /\ Len(queue') = Len(queue) + 1
         /\ \A i \in 1 .. Len(queue) : queue'[i] = queue[i]
         /\ queue'[Len(queue) + 1] = m
         /\ job' = job /\ wpc' = wpc /\ wpc # "blocked"
         /\ InHand' <=> InHand
  BY <1>1, AcceptShape
<1>3. /\ InHand => job.owner # c
      /\ \A i \in 1 .. Len(queue) : queue[i].owner # c
      /\ sem[c] # 1
  BY <1>1 DEF IInv, JobsMine, Mine, SemLast
<1>4. FramesBuilt'
  BY <1>1 DEF IInv, FramesBuilt
<1>5. JobsMine'
  <2>1. \A n \in Jobs : Mine(n) /\ n.owner # c => Mine(n)'
    BY <1>1 DEF Mine, Jobs
  <2>2. Mine(m)'
    BY <1>1 DEF Mine
  <2>3. job \in Jobs /\ \A i \in 1 .. Len(queue) : queue[i] \in Jobs
    BY DEF IInv, TypeOK
  <2>4. /\ InHand => Mine(job)
        /\ \A i \in 1 .. Len(queue) : Mine(queue[i])
    BY DEF IInv, JobsMine
  <2>5. InHand' => Mine(job)'
    BY <1>2, <1>3, <2>1, <2>2, <2>3, <2>4 DEF Mine
  <2>6. \A i \in 1 .. Len(queue') : Mine(queue[i])'
    <3> SUFFICES ASSUME NEW i \in 1 .. Len(queue') PROVE Mine(queue[i])'
      OBVIOUS
    <3>1. CASE i \in 1 .. Len(queue) /\ queue'[i] = queue[i]
      BY <1>3, <2>1, <2>3, <2>4, <3>1 DEF Mine
    <3>2. CASE queue'[i] = m
      BY <2>2, <3>2 DEF Mine
    <3> QED BY <1>2, <3>1, <3>2
  <2> QED BY <2>5, <2>6 DEF JobsMine
<1>6. JobsApart'
  BY <1>1, <1>2, <1>3 DEF IInv, JobsApart
<1>7. SemLast'
  BY <1>1, <1>2, <1>3 DEF IInv, SemLast, InHandFor
<1>8. AnswerComing'
  BY <1>1, <1>2, <1>3 DEF IInv, AnswerComing, InHandFor
<1>9. QueueBlocks'
  BY <1>1, <1>2 DEF IInv, QueueBlocks, BlockedOnlyWhenFull
<1>10. ResultsFit'
  <2>1. (wpc \in {"ran", "write", "give"})' => res' \in Outcome(job'.type)
    BY <1>2 DEF IInv, ResultsFit
  <2>2. wpc' = "give" /\ job'.owner # Nobody => result'[job'.owner] = res'
    BY <1>1, <1>2, <1>3 DEF IInv, ResultsFit, InHand, TypeOK, Jobs
  <2>3. \A d \in Clients : sem'[d] = 1 => result'[d] \in Outcome(msg'[d].type)
    BY <1>1 DEF IInv, ResultsFit
  <2>4. AnswerFitsCall'
    BY <1>1 DEF IInv, ResultsFit, AnswerFitsCall
  <2> QED BY <2>1, <2>2, <2>3, <2>4 DEF ResultsFit
<1> QED BY <1>4, <1>5, <1>6, <1>7, <1>8, <1>9, <1>10 DEF IInv

\* An idle client is named by no job and by no semaphore.
LEMMA IdleUnnamed ==
    ASSUME IInv, NEW c \in Clients, pc[c] # "waiting"
    PROVE  /\ ~InHandFor(c)
           /\ \A i \in 1 .. Len(queue) : queue[i].owner # c
           /\ sem[c] # 1
BY DEF IInv, JobsMine, Mine, SemLast, InHandFor

\* A call that enters its frame without getting anything accepted (it blocks in
\* the put, or is refused at once) keeps the invariant.
LEMMA EnterOnly ==
    ASSUME IInv, TypeOK', NEW c \in Clients,
           NEW m \in Jobs, EnterFrame(c, m),
           \/ /\ m.owner = c /\ m.call = call[c] + 1 /\ ~HasRoom
              /\ pc' = [pc EXCEPT ![c] = "putting"] /\ UNCHANGED ret
           \/ /\ UNCHANGED pc
              /\ \E r \in Refusals : ret' = [ret EXCEPT ![c] = r],
           UNCHANGED <<queue, wpc, job, res, busy>>
    PROVE  IInv'
<1>1. /\ pc[c] = "idle" /\ pc'[c] # "waiting" /\ sem'[c] = 0
      /\ \A d \in Clients \ {c} : /\ pc'[d] = pc[d] /\ msg'[d] = msg[d]
                                  /\ call'[d] = call[d] /\ sem'[d] = sem[d]
                                  /\ result'[d] = result[d] /\ ret'[d] = ret[d]
      /\ msg'[c] = m
  BY DEF EnterFrame, IInv, TypeOK
<1>2. /\ ~InHandFor(c)
      /\ \A i \in 1 .. Len(queue) : queue[i].owner # c
      /\ sem[c] # 1
  BY <1>1, IdleUnnamed
<1>3. job \in Jobs /\ \A i \in 1 .. Len(queue) : queue[i] \in Jobs
  BY DEF IInv, TypeOK
<1>4. FramesBuilt'
  <2>1. pc'[c] # "idle" => m.owner = c /\ m.call = call'[c]
    BY <1>1 DEF EnterFrame, IInv, TypeOK
  <2> QED BY <1>1, <2>1 DEF IInv, FramesBuilt
<1>5. JobsMine'
  <2>1. \A n \in Jobs : Mine(n) /\ n.owner # c => Mine(n)'
    BY <1>1 DEF Mine, Jobs
  <2> QED BY <1>2, <1>3, <2>1 DEF IInv, JobsMine, InHand, InHandFor
<1>6. JobsApart' /\ SemLast' /\ AnswerComing'
  BY <1>1 DEF IInv, JobsApart, SemLast, AnswerComing, InHandFor, InHand
<1>7. QueueBlocks'
  BY <1>1 DEF IInv, TypeOK, QueueBlocks, BlockedOnlyWhenFull, HasRoom
<1>8. ResultsFit'
  <2>1. wpc = "give" /\ job.owner # Nobody => job.owner \in Clients \ {c}
    BY <1>2, <1>3 DEF InHandFor, InHand, Jobs
  <2>2. wpc' = "give" /\ job'.owner # Nobody => result'[job'.owner] = res'
    BY <1>1, <2>1 DEF IInv, ResultsFit
  <2>3. \A d \in Clients : sem'[d] = 1 => result'[d] \in Outcome(msg'[d].type)
    BY <1>1 DEF IInv, ResultsFit
  <2>4. AnswerFitsCall'
    BY <1>1 DEF IInv, TypeOK, ResultsFit, AnswerFitsCall
  <2> QED BY <2>2, <2>3, <2>4 DEF IInv, ResultsFit
<1> QED BY <1>4, <1>5, <1>6, <1>7, <1>8 DEF IInv

\* An accepted background job keeps the invariant: it names no frame.
LEMMA AcceptFree ==
    ASSUME IInv, TypeOK', NEW c \in Clients,
           NEW m \in Jobs, m.owner = Nobody, EnterFrame(c, m), Accept(m),
           ret' = [ret EXCEPT ![c] = "0"], UNCHANGED <<res, busy, pc>>
    PROVE  IInv'
<1>1. /\ pc[c] = "idle" /\ pc'[c] = "idle" /\ sem'[c] = 0 /\ msg'[c] = m
      /\ ret'[c] = "0"
      /\ \A d \in Clients \ {c} : /\ pc'[d] = pc[d] /\ msg'[d] = msg[d]
                                  /\ call'[d] = call[d] /\ sem'[d] = sem[d]
                                  /\ result'[d] = result[d] /\ ret'[d] = ret[d]
  BY DEF EnterFrame, IInv, TypeOK
<1>2. \/ /\ wpc = "blocked" /\ wpc' = "got" /\ job' = m
         /\ queue = <<>> /\ queue' = <<>>
         /\ ~InHand /\ InHand'
      \/ /\ Len(queue) \in Nat /\ Len(queue) < QueueLen
         /\ Len(queue') = Len(queue) + 1
         /\ \A i \in 1 .. Len(queue) : queue'[i] = queue[i]
         /\ queue'[Len(queue) + 1] = m
         /\ job' = job /\ wpc' = wpc /\ wpc # "blocked"
         /\ InHand' <=> InHand
  BY AcceptShape
<1>3. /\ ~InHandFor(c)
      /\ \A i \in 1 .. Len(queue) : queue[i].owner # c
      /\ sem[c] # 1
  BY <1>1, IdleUnnamed
<1>4. job \in Jobs /\ \A i \in 1 .. Len(queue) : queue[i] \in Jobs
  BY DEF IInv, TypeOK
<1>5. FramesBuilt'
  BY <1>1 DEF IInv, FramesBuilt
<1>6. JobsMine'
  <2>1. \A n \in Jobs : Mine(n) /\ n.owner # c => Mine(n)'
    BY <1>1 DEF Mine, Jobs
  <2>2. InHand' => Mine(job)'
    BY <1>2, <1>3, <1>4, <2>1 DEF IInv, JobsMine, InHandFor, Mine
  <2>3. \A i \in 1 .. Len(queue') : Mine(queue[i])'
    <3> SUFFICES ASSUME NEW i \in 1 .. Len(queue') PROVE Mine(queue[i])'
      OBVIOUS
    <3>1. CASE i \in 1 .. Len(queue) /\ queue'[i] = queue[i]
      BY <1>3, <1>4, <2>1, <3>1 DEF IInv, JobsMine, Mine
    <3>2. CASE queue'[i] = m
      BY <3>2 DEF Mine
    <3> QED BY <1>2, <3>1, <3>2
  <2> QED BY <2>2, <2>3 DEF JobsMine
<1>7. JobsApart'
  BY <1>2 DEF IInv, JobsApart
<1>8. SemLast'
  BY <1>1, <1>2 DEF IInv, SemLast, InHandFor
<1>9. AnswerComing'
  <2> SUFFICES ASSUME NEW d \in Clients, pc'[d] = "waiting"
               PROVE  \/ \E i \in 1 .. Len(queue') : queue'[i].owner = d
                      \/ InHandFor(d)'
                      \/ sem'[d] = 1
    BY DEF AnswerComing
  <2>1. \/ \E i \in 1 .. Len(queue) : queue[i].owner = d
        \/ InHandFor(d)
        \/ sem[d] = 1
    BY <1>1 DEF IInv, AnswerComing
  <2> QED BY <1>1, <1>2, <2>1 DEF InHandFor
<1>10. QueueBlocks'
  BY <1>1, <1>2 DEF IInv, TypeOK, QueueBlocks, BlockedOnlyWhenFull
<1>11. ResultsFit'
  <2>1. (wpc \in {"ran", "write", "give"})' => res' \in Outcome(job'.type)
    BY <1>2 DEF IInv, ResultsFit
  <2>2. wpc' = "give" /\ job'.owner # Nobody => result'[job'.owner] = res'
    BY <1>1, <1>2, <1>3, <1>4 DEF IInv, ResultsFit, InHand, InHandFor, Jobs
  <2>3. \A d \in Clients : sem'[d] = 1 => result'[d] \in Outcome(msg'[d].type)
    BY <1>1 DEF IInv, ResultsFit
  <2>4. AnswerFitsCall'
    BY <1>1 DEF IInv, ResultsFit, AnswerFitsCall, Outcome
  <2> QED BY <2>1, <2>2, <2>3, <2>4 DEF ResultsFit
<1> QED BY <1>5, <1>6, <1>7, <1>8, <1>9, <1>10, <1>11 DEF IInv

\* The put times out: the call returns, and nothing ever named its frame.
LEMMA PutTimeoutKeeps ==
    ASSUME IInv, TypeOK', NEW c \in Clients, PutTimeout(c)
    PROVE  IInv'
<1>1. /\ pc[c] = "putting" /\ pc'[c] = "idle" /\ ret'[c] \in Refusals
      /\ \A d \in Clients \ {c} : pc'[d] = pc[d] /\ ret'[d] = ret[d]
      /\ UNCHANGED <<queue, wpc, job, res, msg, call, sem, result>>
  BY DEF PutTimeout, worker, IInv, TypeOK, Refusals
<1>2. /\ ~InHandFor(c)
      /\ \A i \in 1 .. Len(queue) : queue[i].owner # c
  BY <1>1, IdleUnnamed
<1>3. job \in Jobs /\ \A i \in 1 .. Len(queue) : queue[i] \in Jobs
  BY DEF IInv, TypeOK
<1>4. JobsMine'
  <2>1. \A n \in Jobs : Mine(n) /\ n.owner # c => Mine(n)'
    BY <1>1 DEF Mine, Jobs
  <2> QED BY <1>1, <1>2, <1>3, <2>1 DEF IInv, JobsMine, InHand, InHandFor
<1>5. FramesBuilt' /\ QueueBlocks'
  BY <1>1 DEF IInv, FramesBuilt, QueueBlocks, BlockedOnlyWhenFull
<1>6. JobsApart' /\ SemLast' /\ AnswerComing'
  BY <1>1 DEF IInv, JobsApart, SemLast, AnswerComing, InHandFor, InHand
<1>7. ResultsFit'
  BY <1>1 DEF IInv, ResultsFit, AnswerFitsCall
<1> QED BY <1>4, <1>5, <1>6, <1>7 DEF IInv

\* The call takes its semaphore and returns: SemLast says that no job names the
\* frame it leaves.
LEMMA TakeDoneKeeps ==
    ASSUME IInv, TypeOK', NEW c \in Clients, TakeDone(c)
    PROVE  IInv'
<1>1. /\ pc[c] = "waiting" /\ pc'[c] = "idle" /\ sem[c] = 1 /\ sem'[c] = 0
      /\ ret'[c] = result[c]
      /\ \A d \in Clients \ {c} : pc'[d] = pc[d] /\ ret'[d] = ret[d] /\ sem'[d] = sem[d]
      /\ UNCHANGED <<queue, wpc, job, res, msg, call, result>>
  BY DEF TakeDone, worker, IInv, TypeOK
<1>2. /\ ~InHandFor(c)
      /\ \A i \in 1 .. Len(queue) : queue[i].owner # c
  BY <1>1 DEF IInv, SemLast
<1>3. job \in Jobs /\ \A i \in 1 .. Len(queue) : queue[i] \in Jobs
  BY DEF IInv, TypeOK
<1>4. JobsMine'
  <2>1. \A n \in Jobs : Mine(n) /\ n.owner # c => Mine(n)'
    BY <1>1 DEF Mine, Jobs
  <2> QED BY <1>1, <1>2, <1>3, <2>1 DEF IInv, JobsMine, InHand, InHandFor
<1>5. FramesBuilt' /\ QueueBlocks'
  BY <1>1 DEF IInv, FramesBuilt, QueueBlocks, BlockedOnlyWhenFull
<1>6. JobsApart' /\ SemLast' /\ AnswerComing'
  BY <1>1 DEF IInv, JobsApart, SemLast, AnswerComing, InHandFor, InHand
<1>7. ResultsFit'
  BY <1>1 DEF IInv, ResultsFit, AnswerFitsCall
<1> QED BY <1>4, <1>5, <1>6, <1>7 DEF IInv

\* The worker takes the head of the queue, and a blocked writer may get the slot.
LEMMA GetJobKeeps ==
    ASSUME IInv, TypeOK', GetJob
    PROVE  IInv'
<1>1. /\ Len(queue) \in Nat /\ Len(queue) >= 1
      /\ wpc = "next" /\ wpc' = "got" /\ job' = queue[1]
      /\ UNCHANGED <<res, busy, msg, call, sem, result, ret>>
      /\ ~InHand /\ InHand'
      /\ job' \in Jobs
      /\ \A i \in 1 .. Len(queue) : queue[i] \in Jobs
  BY DEF GetJob, IInv, TypeOK, InHand
<1>2. CASE (\A c \in Clients : pc[c] # "putting") /\ queue' = Tail(queue) /\ UNCHANGED pc
  <2>1. /\ Len(queue') = Len(queue) - 1
        /\ \A i \in 1 .. Len(queue') : queue'[i] = queue[i + 1]
    BY <1>1, <1>2 DEF IInv, TypeOK
  <2>2. \A n \in Jobs : Mine(n) => Mine(n)'
    BY <1>1, <1>2 DEF Mine
  <2>3. JobsMine'
    BY <1>1, <2>1, <2>2 DEF IInv, JobsMine
  <2>4. JobsApart'
    <3>1. \A i, j \in 1 .. Len(queue') :
             queue'[i].owner # Nobody /\ queue'[i].owner = queue'[j].owner => i = j
      BY <1>1, <2>1 DEF IInv, JobsApart
    <3>2. \A i \in 1 .. Len(queue') :
             queue'[i].owner # Nobody => queue'[i].owner # job'.owner
      BY <1>1, <2>1 DEF IInv, JobsApart
    <3> QED BY <3>1, <3>2 DEF JobsApart
  <2>5. SemLast'
    BY <1>1, <1>2, <2>1 DEF IInv, SemLast, InHandFor
  <2>6. AnswerComing'
    <3> SUFFICES ASSUME NEW d \in Clients, pc'[d] = "waiting"
                 PROVE  \/ \E i \in 1 .. Len(queue') : queue'[i].owner = d
                        \/ InHandFor(d)'
                        \/ sem'[d] = 1
      BY DEF AnswerComing
    <3>1. ASSUME NEW i \in 1 .. Len(queue), queue[i].owner = d
          PROVE  \/ \E k \in 1 .. Len(queue') : queue'[k].owner = d
                 \/ InHandFor(d)'
      <4>1. CASE i = 1
        BY <1>1, <3>1, <4>1 DEF InHandFor
      <4>2. CASE i # 1
        <5>1. i - 1 \in 1 .. Len(queue') /\ queue'[i - 1] = queue[i]
          BY <1>1, <2>1, <4>2
        <5> QED BY <3>1, <5>1
      <4> QED BY <4>1, <4>2
    <3> QED BY <1>1, <1>2, <3>1 DEF IInv, AnswerComing, InHandFor
  <2>7. FramesBuilt' /\ QueueBlocks' /\ ResultsFit'
    BY <1>1, <1>2 DEF IInv, FramesBuilt, QueueBlocks, BlockedOnlyWhenFull, ResultsFit,
                      AnswerFitsCall
  <2> QED BY <2>3, <2>4, <2>5, <2>6, <2>7 DEF IInv
<1>3. ASSUME NEW c \in Clients, pc[c] = "putting",
             queue' = Append(Tail(queue), msg[c]),
             pc' = [pc EXCEPT ![c] = "waiting"]
      PROVE  IInv'
  <2> DEFINE n == Len(queue)
  <2>1. /\ Len(queue') = n
        /\ \A i \in 1 .. n : i # n => queue'[i] = queue[i + 1]
        /\ queue'[n] = msg[c]
        /\ queue' # <<>>
    BY <1>1, <1>3 DEF IInv, TypeOK
  <2>2. /\ msg[c].owner = c /\ c # Nobody /\ msg[c] \in Jobs
        /\ \A i \in 1 .. n : queue[i].owner # c
        /\ sem[c] # 1
        /\ n = QueueLen
    BY <1>3, IdleUnnamed DEF IInv, FramesBuilt, TypeOK, QueueBlocks, BlockedOnlyWhenFull
  <2>3. /\ pc'[c] = "waiting"
        /\ \A d \in Clients \ {c} : pc'[d] = pc[d]
    BY <1>3 DEF IInv, TypeOK
  <2>4. \A m \in Jobs : Mine(m) => Mine(m)'
    BY <1>1, <1>3, <2>3 DEF Mine
  <2>5. JobsMine'
    <3>1. Mine(job)'
      BY <1>1, <2>4 DEF IInv, JobsMine
    <3>2. \A i \in 1 .. n : Mine(queue[i])'
      <4> SUFFICES ASSUME NEW i \in 1 .. n PROVE Mine(queue[i])'
        OBVIOUS
      <4>1. CASE i # n
        BY <1>1, <2>1, <2>4, <4>1 DEF IInv, JobsMine
      <4>2. CASE i = n
        BY <1>1, <2>1, <2>2, <2>3, <4>2 DEF Mine
      <4> QED BY <4>1, <4>2
    <3> QED BY <2>1, <3>1, <3>2 DEF JobsMine
  <2>6. JobsApart'
    <3>1. \A i, j \in 1 .. n :
             queue'[i].owner # Nobody /\ queue'[i].owner = queue'[j].owner => i = j
      <4> SUFFICES ASSUME NEW i \in 1 .. n, NEW j \in 1 .. n,
                          queue'[i].owner # Nobody, queue'[i].owner = queue'[j].owner
                   PROVE  i = j
        OBVIOUS
      <4>1. CASE i # n /\ j # n
        <5>1. queue[i + 1].owner # Nobody /\ queue[i + 1].owner = queue[j + 1].owner
          BY <2>1, <4>1
        <5>2. i + 1 \in 1 .. n /\ j + 1 \in 1 .. n
          BY <1>1, <4>1
        <5> QED BY <5>1, <5>2 DEF IInv, JobsApart
      <4>2. CASE i = n \/ j = n
        BY <1>1, <2>1, <2>2, <4>2
      <4> QED BY <4>1, <4>2
    <3>2. \A i \in 1 .. n :
             queue'[i].owner # Nobody => queue'[i].owner # job'.owner
      <4> SUFFICES ASSUME NEW i \in 1 .. n, queue'[i].owner # Nobody
                   PROVE  queue'[i].owner # job'.owner
        OBVIOUS
      <4>1. CASE i # n
        BY <1>1, <2>1, <4>1 DEF IInv, JobsApart
      <4>2. CASE i = n
        BY <1>1, <2>1, <2>2, <4>2
      <4> QED BY <4>1, <4>2
    <3> QED BY <2>1, <3>1, <3>2 DEF JobsApart
  <2>7. SemLast'
    <3> SUFFICES ASSUME NEW d \in Clients, sem'[d] = 1
                 PROVE  /\ pc'[d] = "waiting"
                        /\ ~InHandFor(d)'
                        /\ \A i \in 1 .. n : queue'[i].owner # d
      BY <2>1 DEF SemLast
    <3>1. d # c /\ pc[d] = "waiting" /\ \A i \in 1 .. n : queue[i].owner # d
      BY <1>1, <2>2 DEF IInv, SemLast
    <3>2. \A i \in 1 .. n : queue'[i].owner # d
      BY <1>1, <2>1, <2>2, <3>1
    <3> QED BY <1>1, <2>3, <3>1, <3>2 DEF InHandFor
  <2>8. AnswerComing'
    <3> SUFFICES ASSUME NEW d \in Clients, pc'[d] = "waiting"
                 PROVE  \/ \E i \in 1 .. n : queue'[i].owner = d
                        \/ InHandFor(d)'
                        \/ sem'[d] = 1
      BY <2>1 DEF AnswerComing
    <3>1. CASE d = c
      BY <1>1, <2>1, <2>2, <3>1
    <3>2. ASSUME NEW i \in 1 .. n, queue[i].owner = d
          PROVE  \/ \E k \in 1 .. n : queue'[k].owner = d
                 \/ InHandFor(d)'
      <4>1. CASE i = 1
        BY <1>1, <3>2, <4>1 DEF InHandFor
      <4>2. CASE i # 1
        <5>1. i - 1 \in 1 .. n /\ i - 1 # n /\ queue'[i - 1] = queue[i]
          BY <1>1, <2>1, <4>2
        <5> QED BY <3>2, <5>1
      <4> QED BY <4>1, <4>2
    <3> QED BY <1>1, <2>3, <3>1, <3>2 DEF IInv, AnswerComing, InHandFor
  <2>9. FramesBuilt'
    BY <1>1, <1>3, <2>3 DEF IInv, FramesBuilt
  <2>10. QueueBlocks' /\ ResultsFit'
    BY <1>1, <1>3, <2>1, <2>2, <2>3 DEF IInv, QueueBlocks, BlockedOnlyWhenFull, ResultsFit,
                      AnswerFitsCall
  <2> QED BY <2>5, <2>6, <2>7, <2>8, <2>9, <2>10 DEF IInv
<1> QED BY <1>2, <1>3 DEF GetJob

\* The other steps of the worker thread.
LEMMA WorkerKeeps ==
    ASSUME IInv, TypeOK',
           GetBlocks \/ SetBusy \/ Run \/ ClearBusy \/ WriteResult \/ GiveSem
    PROVE  IInv'
<1>1. CASE GetBlocks
  <2>1. /\ wpc = "next" /\ wpc' = "blocked" /\ queue = <<>> /\ queue' = <<>>
        /\ ~InHand /\ ~InHand' /\ Len(queue) = 0
        /\ UNCHANGED <<job, res, pc, msg, call, sem, result, ret>>
    BY <1>1 DEF GetBlocks, client, InHand
  <2>2. \A c \in Clients : pc[c] # "putting"
    BY <2>1 DEF IInv, QueueBlocks, BlockedOnlyWhenFull
  <2>3. FramesBuilt' /\ JobsMine' /\ JobsApart' /\ SemLast' /\ AnswerComing'
    BY <2>1 DEF IInv, FramesBuilt, JobsMine, Mine, JobsApart, SemLast, AnswerComing, InHandFor
  <2>4. QueueBlocks' /\ ResultsFit'
    BY <2>1, <2>2 DEF IInv, QueueBlocks, BlockedOnlyWhenFull, ResultsFit, AnswerFitsCall
  <2> QED BY <2>3, <2>4 DEF IInv
<1>2. CASE SetBusy \/ Run \/ ClearBusy
  <2>1. /\ wpc \in {"got", "run", "ran"} /\ wpc' \in {"run", "ran", "write"}
        /\ InHand /\ InHand'
        /\ UNCHANGED <<queue, job, pc, msg, call, sem, result, ret>>
        /\ wpc' \in {"ran", "write"} => res' \in Outcome(job.type)
    BY <1>2 DEF SetBusy, Run, ClearBusy, client, InHand, IInv, ResultsFit
  <2>2. FramesBuilt' /\ JobsMine' /\ JobsApart' /\ SemLast' /\ AnswerComing'
    BY <2>1 DEF IInv, FramesBuilt, JobsMine, Mine, JobsApart, SemLast, AnswerComing, InHandFor
  <2>3. QueueBlocks' /\ ResultsFit'
    BY <2>1 DEF IInv, QueueBlocks, BlockedOnlyWhenFull, ResultsFit, AnswerFitsCall
  <2> QED BY <2>2, <2>3 DEF IInv
<1>3. CASE WriteResult
  <2>1. /\ wpc = "write" /\ wpc' = "give" /\ InHand /\ InHand'
        /\ UNCHANGED <<queue, job, res, pc, msg, call, sem, ret>>
        /\ \A d \in Clients : result'[d] = IF d = job.owner THEN res ELSE result[d]
    BY <1>3 DEF WriteResult, InHand
  <2>2. FramesBuilt' /\ JobsMine' /\ JobsApart' /\ SemLast' /\ AnswerComing' /\ QueueBlocks'
    BY <2>1 DEF IInv, FramesBuilt, JobsMine, Mine, JobsApart, SemLast, AnswerComing,
                InHandFor, QueueBlocks, BlockedOnlyWhenFull
  <2>3. \A d \in Clients : sem'[d] = 1 => result'[d] \in Outcome(msg'[d].type)
    BY <2>1 DEF IInv, SemLast, InHandFor, ResultsFit
  <2>4. job.owner # Nobody => result'[job.owner] = res
    BY <2>1 DEF IInv, TypeOK, Jobs
  <2> QED BY <2>1, <2>2, <2>3, <2>4 DEF IInv, ResultsFit, AnswerFitsCall
<1>4. CASE GiveSem
  <2>1. /\ wpc = "give" /\ wpc' = "next" /\ InHand /\ ~InHand'
        /\ UNCHANGED <<queue, job, res, pc, msg, call, result, ret>>
        /\ \A d \in Clients : sem'[d] = IF d = job.owner THEN 1 ELSE sem[d]
    BY <1>4 DEF GiveSem, InHand
  <2>2. FramesBuilt' /\ JobsMine' /\ JobsApart' /\ QueueBlocks'
    BY <2>1 DEF IInv, FramesBuilt, JobsMine, Mine, JobsApart, QueueBlocks, BlockedOnlyWhenFull
  <2>3. SemLast'
    <3> SUFFICES ASSUME NEW d \in Clients, sem'[d] = 1
                 PROVE  pc[d] = "waiting" /\ \A i \in 1 .. Len(queue) : queue[i].owner # d
      BY <2>1 DEF SemLast, InHandFor
    <3>1. CASE d = job.owner
      BY <2>1, <3>1 DEF IInv, JobsMine, Mine, JobsApart
    <3>2. CASE d # job.owner
      BY <2>1, <3>2 DEF IInv, SemLast
    <3> QED BY <3>1, <3>2
  <2>4. AnswerComing'
    BY <2>1 DEF IInv, AnswerComing, InHandFor
  <2>5. \A d \in Clients : sem'[d] = 1 => result'[d] \in Outcome(msg'[d].type)
    <3> SUFFICES ASSUME NEW d \in Clients, sem'[d] = 1
                 PROVE  result[d] \in Outcome(msg[d].type)
      BY <2>1
    <3>1. CASE d = job.owner
      BY <2>1, <3>1 DEF IInv, JobsMine, Mine, ResultsFit
    <3>2. CASE d # job.owner
      BY <2>1, <3>2 DEF IInv, ResultsFit
    <3> QED BY <3>1, <3>2
  <2> QED BY <2>1, <2>2, <2>3, <2>4, <2>5 DEF IInv, ResultsFit, AnswerFitsCall
<1> QED BY <1>1, <1>2, <1>3, <1>4

\* IInv is an invariant.
THEOREM Inductive == Spec => []IInv
<1>1. Init => IInv
  <2>1. Init => TypeOK
    BY DEF Init, TypeOK, NoJob, Jobs, JobTypes, Results
  <2> QED BY <2>1 DEF Init, IInv, FramesBuilt, JobsMine, Mine, JobsApart, SemLast,
        AnswerComing, QueueBlocks, BlockedOnlyWhenFull, ResultsFit, AnswerFitsCall,
        InHand, InHandFor, NoJob, Outcome
<1>2. IInv /\ [Next]_vars => IInv'
  <2> SUFFICES ASSUME IInv, [Next]_vars PROVE IInv'
    OBVIOUS
  <2>1. TypeOK /\ TypeOK'
    BY TypeStep DEF IInv
  <2>2. ASSUME NEW c \in Clients, NEW t \in JobTypes, Request(c, t) PROVE IInv'
    <3>1. PICK m \in Jobs : m = OwnJob(c, t)
      BY <2>1, <2>2, OwnJobType DEF Request, EnterFrame
    <3>2. EnterFrame(c, m) /\ UNCHANGED <<res, busy, ret>>
      BY <2>2, <3>1 DEF Request
    <3>3. CASE Accept(m) /\ pc' = [pc EXCEPT ![c] = "waiting"]
      BY <2>1, <3>1, <3>2, <3>3, AcceptOwn
    <3>4. CASE ~HasRoom /\ pc' = [pc EXCEPT ![c] = "putting"] /\ UNCHANGED <<queue, wpc, job>>
      <4>1. m.owner = c /\ m.call = call[c] + 1
        BY <3>1 DEF OwnJob
      <4> QED BY <2>1, <3>2, <3>4, <4>1, EnterOnly
    <3> QED BY <2>2, <3>1, <3>3, <3>4 DEF Request
  <2>3. ASSUME NEW c \in Clients, NEW t \in Scripts, WebRun(c, t) PROVE IInv'
    <3>1. PICK m \in Jobs : m = OwnJob(c, t)
      BY <2>1, <2>3, OwnJobType DEF WebRun, EnterFrame, Scripts, JobTypes
    <3>2. EnterFrame(c, m) /\ UNCHANGED <<res, busy>> /\ t \in JobTypes
      BY <2>3, <3>1 DEF WebRun, Scripts, JobTypes
    <3>3. CASE Accept(m) /\ pc' = [pc EXCEPT ![c] = "waiting"] /\ UNCHANGED ret
      BY <2>1, <3>1, <3>2, <3>3, AcceptOwn
    <3>4. CASE ret' = [ret EXCEPT ![c] = "-ENOMSG"] /\ UNCHANGED <<queue, wpc, job, pc>>
      <4>1. \E r \in Refusals : ret' = [ret EXCEPT ![c] = r]
        BY <3>4 DEF Refusals
      <4> QED BY <2>1, <3>2, <3>4, <4>1, EnterOnly
    <3> QED BY <2>3, <3>1, <3>3, <3>4 DEF WebRun
  <2>4. ASSUME NEW c \in Clients, NEW t \in Scripts, Background(c, t) PROVE IInv'
    <3>1. PICK m \in Jobs : m = FreeJob(c, t)
      BY <2>1, <2>4, OwnJobType DEF Background, EnterFrame, Scripts, JobTypes
    <3>2. EnterFrame(c, m) /\ m.owner = Nobody /\ UNCHANGED <<res, busy, pc>>
      BY <2>4, <3>1 DEF Background, FreeJob
    <3>3. CASE Accept(m) /\ ret' = [ret EXCEPT ![c] = "0"]
      BY <2>1, <3>2, <3>3, AcceptFree
    <3>4. CASE ret' = [ret EXCEPT ![c] = "-ENOMSG"] /\ UNCHANGED <<queue, wpc, job>>
      <4>1. \E r \in Refusals : ret' = [ret EXCEPT ![c] = r]
        BY <3>4 DEF Refusals
      <4> QED BY <2>1, <3>2, <3>4, <4>1, EnterOnly
    <3> QED BY <2>4, <3>1, <3>3, <3>4 DEF Background
  <2>5. ASSUME NEW c \in Clients, PutTimeout(c) PROVE IInv'
    BY <2>1, <2>5, PutTimeoutKeeps
  <2>6. ASSUME NEW c \in Clients, TakeDone(c) PROVE IInv'
    BY <2>1, <2>6, TakeDoneKeeps
  <2>7. CASE GetJob
    BY <2>1, <2>7, GetJobKeeps
  <2>8. CASE GetBlocks \/ SetBusy \/ Run \/ ClearBusy \/ WriteResult \/ GiveSem
    BY <2>1, <2>8, WorkerKeeps
  <2>9. CASE UNCHANGED vars
    BY <2>1, <2>9 DEF vars, worker, client, IInv, FramesBuilt, JobsMine, Mine, JobsApart,
       SemLast, AnswerComing, QueueBlocks, BlockedOnlyWhenFull, ResultsFit, AnswerFitsCall,
       InHand, InHandFor
  <2> QED BY <2>2, <2>3, <2>4, <2>5, <2>6, <2>7, <2>8, <2>9 DEF Next, Worker, Client
<1> QED BY <1>1, <1>2, PTL DEF Spec

-----------------------------------------------------------------------------
(* The safety properties. *)

\* No result and no semaphore is ever delivered to a stack frame whose call has
\* returned, however many clients call and however long the queue is.
THEOREM FramesSafe == Spec => []NoDanglingFrame
<1>1. IInv => NoDanglingFrame
  <2> SUFFICES ASSUME IInv PROVE NoDanglingFrame
    OBVIOUS
  <2>1. \A m \in Jobs : Mine(m) /\ m.owner # Nobody => LiveFrame(m)
    BY DEF IInv, FramesBuilt, Mine, LiveFrame, Jobs
  <2>2. job \in Jobs /\ \A i \in 1 .. Len(queue) : queue[i] \in Jobs
    BY DEF IInv, TypeOK
  <2> QED BY <2>1, <2>2 DEF IInv, JobsMine, NoDanglingFrame
<1> QED BY <1>1, Inductive, PTL

\* A waiting call always has exactly one answer coming; a call that does not
\* wait (it has not been accepted, or has returned) has none.
THEOREM AnswersOnce == Spec => []OneAnswerComing
<1>1. IInv => OneAnswerComing
  <2> SUFFICES ASSUME IInv, NEW c \in Clients
               PROVE  /\ pc[c] = "waiting" <=>
                            QueuedFor(c) # {} \/ InHandFor(c) \/ sem[c] = 1
                      /\ InHandFor(c) => QueuedFor(c) = {} /\ sem[c] = 0
                      /\ sem[c] = 1 => QueuedFor(c) = {}
                      /\ \A i, j \in QueuedFor(c) : i = j
    BY DEF OneAnswerComing
  <2>1. pc[c] = "waiting" => QueuedFor(c) # {} \/ InHandFor(c) \/ sem[c] = 1
    BY DEF IInv, AnswerComing, QueuedFor
  <2>2. InHandFor(c) => QueuedFor(c) = {}
    BY DEF IInv, JobsApart, InHandFor, QueuedFor
  <2>3. InHandFor(c) => sem[c] = 0
    BY DEF IInv, TypeOK, SemLast
  <2>4. sem[c] = 1 => QueuedFor(c) = {}
    BY DEF IInv, SemLast, QueuedFor
  <2>5. \A i, j \in QueuedFor(c) : i = j
    BY DEF IInv, JobsApart, QueuedFor
  <2>6. pc[c] # "waiting" => QueuedFor(c) = {} /\ ~InHandFor(c) /\ sem[c] # 1
    BY IdleUnnamed DEF QueuedFor
  <2> QED BY <2>1, <2>2, <2>3, <2>4, <2>5, <2>6
<1> QED BY <1>1, Inductive, PTL

\* A call returns an outcome of the kind of job it asked for.
THEOREM AnswersFit == Spec => []AnswerFitsCall
<1>1. IInv => AnswerFitsCall
  BY DEF IInv, ResultsFit
<1> QED BY <1>1, Inductive, PTL

\* A put that times out has found the queue full and the worker at work.
THEOREM TimeoutsMeanFull == Spec => []BlockedOnlyWhenFull
<1>1. IInv => BlockedOnlyWhenFull
  BY DEF IInv, QueueBlocks
<1> QED BY <1>1, Inductive, PTL

-----------------------------------------------------------------------------
(* The worker implements JobService. *)

\* A sequence with an element put in front of it, seen as a line.
LEMMA FrontOfLine ==
    ASSUME NEW S, NEW q \in Seq(S), NEW j \in S
    PROVE  /\ <<j>> \o q \in Seq(S)
           /\ <<j>> \o q # <<>>
           /\ Len(<<j>> \o q) = Len(q) + 1
           /\ Head(<<j>> \o q) = j
           /\ Tail(<<j>> \o q) = q
           /\ \A m \in S : <<j>> \o Append(q, m) = Append(<<j>> \o q, m)
<1>1. /\ <<j>> \in Seq(S) /\ Len(<<j>>) = 1 /\ <<j>>[1] = j /\ Len(q) \in Nat
  OBVIOUS
<1>2. /\ <<j>> \o q \in Seq(S)
      /\ Len(<<j>> \o q) = Len(q) + 1
      /\ \A i \in 1 .. Len(q) + 1 : (<<j>> \o q)[i] = IF i <= 1 THEN j ELSE q[i - 1]
  BY <1>1, ConcatProperties
<1>3. <<j>> \o q # <<>> /\ Head(<<j>> \o q) = j
  BY <1>1, <1>2
<1>4. Tail(<<j>> \o q) = q
  <2> DEFINE l == <<j>> \o q
  <2>1. l \in Seq(S) /\ l # <<>> /\ Len(l) = Len(q) + 1
        /\ \A i \in 1 .. Len(q) : l[i + 1] = q[i]
    BY <1>1, <1>2, <1>3
  <2> HIDE DEF l
  <2>2. /\ Tail(l) \in Seq(S)
        /\ Len(Tail(l)) = Len(q)
        /\ \A i \in 1 .. Len(q) : Tail(l)[i] = l[i + 1]
    BY <1>1, <2>1, HeadTailProperties
  <2> QED BY <2>1, <2>2, SeqEqual DEF l
<1>5. ASSUME NEW m \in S PROVE <<j>> \o Append(q, m) = Append(<<j>> \o q, m)
  <2>1. /\ Append(q, m) \in Seq(S)
        /\ Len(Append(q, m)) = Len(q) + 1
        /\ \A i \in 1 .. Len(q) : Append(q, m)[i] = q[i]
        /\ Append(q, m)[Len(q) + 1] = m
    OBVIOUS
  <2>2. /\ <<j>> \o Append(q, m) \in Seq(S)
        /\ Len(<<j>> \o Append(q, m)) = Len(q) + 2
        /\ \A i \in 1 .. Len(q) + 2 :
              (<<j>> \o Append(q, m))[i] = IF i <= 1 THEN j ELSE Append(q, m)[i - 1]
    BY <1>1, <2>1, ConcatProperties
  <2> DEFINE l == <<j>> \o q
  <2>3. l \in Seq(S) /\ Len(l) = Len(q) + 1
        /\ \A i \in 1 .. Len(q) + 1 : l[i] = IF i <= 1 THEN j ELSE q[i - 1]
    BY <1>2
  <2> HIDE DEF l
  <2>4. /\ Append(l, m) \in Seq(S)
        /\ Len(Append(l, m)) = Len(q) + 2
        /\ \A i \in 1 .. Len(q) + 1 : Append(l, m)[i] = l[i]
        /\ Append(l, m)[Len(q) + 2] = m
    BY <1>1, <2>3
  <2> DEFINE s == <<j>> \o Append(q, m)
             t == Append(l, m)
  <2>5. \A i \in 1 .. Len(q) + 2 : s[i] = t[i]
    <3> SUFFICES ASSUME NEW i \in 1 .. Len(q) + 2 PROVE s[i] = t[i]
      OBVIOUS
    <3>1. CASE i = Len(q) + 2
      <4>1. i - 1 = Len(q) + 1 /\ ~(i <= 1)
        BY <1>1, <3>1
      <4>2. s[i] = Append(q, m)[Len(q) + 1]
        BY <1>1, <2>2, <3>1, <4>1
      <4> QED BY <2>1, <2>4, <3>1, <4>2
    <3>2. CASE i = 1
      <4>1. i \in 1 .. Len(q) + 1
        BY <1>1, <3>2
      <4>2. s[i] = j
        BY <2>2, <3>2
      <4>3. t[i] = l[i] /\ l[i] = j
        BY <2>3, <2>4, <3>2, <4>1
      <4> QED BY <4>2, <4>3
    <3>3. CASE i \in 2 .. Len(q) + 1
      <4>1. i - 1 \in 1 .. Len(q)
        BY <1>1, <3>3
      <4>2. s[i] = Append(q, m)[i - 1]
        BY <1>1, <2>2, <3>3
      <4>3. t[i] = l[i] /\ l[i] = q[i - 1]
        BY <1>1, <2>3, <2>4, <3>3
      <4> QED BY <2>1, <4>1, <4>2, <4>3
    <3>4. i = Len(q) + 2 \/ i = 1 \/ i \in 2 .. Len(q) + 1
      BY <1>1
    <3> HIDE DEF s, t
    <3> QED BY <3>1, <3>2, <3>3, <3>4
  <2>6. s \in Seq(S) /\ t \in Seq(S) /\ Len(s) = Len(q) + 2 /\ Len(t) = Len(q) + 2
    BY <2>2, <2>4
  <2> HIDE DEF s, t
  <2>7. s = t
    BY <2>5, <2>6, SeqEqual
  <2> QED BY <2>7 DEF s, t, l
<1> QED BY <1>2, <1>3, <1>4, <1>5

\* The line is the queue with the job in hand, if it has not run yet, in front.
LEMMA LineShape ==
    ASSUME IInv
    PROVE  /\ queue \in Seq(Jobs) /\ job \in Jobs /\ Line \in Seq(Jobs)
           /\ Len(queue) \in Nat
           /\ wpc \in {"got", "run"} => /\ Line = <<job>> \o queue
                                        /\ Len(Line) = Len(queue) + 1
           /\ wpc \notin {"got", "run"} => Line = queue
<1>1. queue \in Seq(Jobs) /\ job \in Jobs /\ Len(queue) \in Nat
  BY DEF IInv, TypeOK
<1>2. <<job>> \o queue \in Seq(Jobs) /\ Len(<<job>> \o queue) = Len(queue) + 1
  BY <1>1, FrontOfLine
<1> QED BY <1>1, <1>2 DEF Line

\* An accepted put lengthens the line at its end.
LEMMA LineAccepts ==
    ASSUME IInv, NEW m \in Jobs, Accept(m)
    PROVE  Line' = Append(Line, m) /\ Len(Line) < QueueLen + 1
<1>1. CASE wpc = "blocked"
  <2>1. queue = <<>> /\ queue' = queue /\ wpc' = "got" /\ job' = m
    BY <1>1 DEF Accept, IInv, QueueBlocks
  <2>2. Line = <<>> /\ Line' = <<m>> \o <<>>
    BY <1>1, <2>1 DEF Line
  <2>3. <<m>> \o <<>> = <<m>> /\ Append(<<>>, m) = <<m>> /\ Len(<<>>) = 0
    BY ConcatEmptySeq
  <2> QED BY <2>2, <2>3
<1>2. CASE wpc # "blocked"
  <2>1. queue' = Append(queue, m) /\ Len(queue) < QueueLen /\ UNCHANGED <<wpc, job>>
    BY <1>2 DEF Accept
  <2>2. CASE wpc \in {"got", "run"}
    <3>1. Line = <<job>> \o queue /\ Len(Line) = Len(queue) + 1 /\ Len(queue) \in Nat
      BY <2>2, LineShape
    <3>2. Line' = <<job>> \o Append(queue, m)
      BY <2>1, <2>2 DEF Line
    <3>3. <<job>> \o Append(queue, m) = Append(<<job>> \o queue, m)
      BY LineShape, FrontOfLine
    <3> QED BY <2>1, <3>1, <3>2, <3>3
  <2>3. CASE wpc \notin {"got", "run"}
    <3>1. Line = queue /\ Line' = queue'
      BY <2>1, <2>3 DEF Line
    <3>2. Len(queue) \in Nat
      BY LineShape
    <3> QED BY <2>1, <3>1, <3>2
  <2> QED BY <2>2, <2>3
<1> QED BY <1>1, <1>2

\* What the clients see coming when a call of c is accepted, and when nothing
\* but c's frame or its return value changes.
LEMMA AnswerOnEntry ==
    ASSUME IInv, NEW c \in Clients, pc[c] # "waiting",
           \A d \in Clients \ {c} : /\ pc'[d] = pc[d] /\ sem'[d] = sem[d]
                                    /\ result'[d] = result[d],
           res' = res, (~InHand /\ wpc' = "got") \/ (wpc' = wpc /\ job' = job)
    PROVE  /\ Answer[c] = "none"
           /\ pc'[c] # "waiting" => Answer' = Answer
           /\ pc'[c] = "waiting" /\ sem'[c] = 0 =>
                 Answer' = [Answer EXCEPT ![c] = "pending"]
<1>1. Answer[c] = "none"
  BY DEF Answer
<1>2. \A d \in Clients \ {c} : Answer'[d] = Answer[d]
  BY DEF Answer, InHand
<1>3. pc'[c] # "waiting" => Answer'[c] = "none"
  BY DEF Answer
<1>4. pc'[c] = "waiting" /\ sem'[c] = 0 => Answer'[c] = "pending"
  <2>1. ~InHandFor(c)
    BY IdleUnnamed
  <2> QED BY <2>1 DEF Answer, InHandFor, InHand
<1>5. Answer = [d \in Clients |-> Answer[d]] /\ Answer' = [d \in Clients |-> Answer'[d]]
  BY DEF Answer
<1> QED BY <1>1, <1>2, <1>3, <1>4, <1>5

\* A synchronous call whose job is accepted stands in line from then on.
LEMMA AcceptImplements ==
    ASSUME IInv, TypeOK', NEW c \in Clients, NEW m \in Jobs, m.owner = c,
           EnterFrame(c, m), Accept(m),
           pc' = [pc EXCEPT ![c] = "waiting"], UNCHANGED <<res, ret>>
    PROVE  Service!Accept(c, m)
<1>1. Line' = Append(Line, m) /\ Len(Line) < QueueLen + 1
  BY LineAccepts
<1>2. /\ pc[c] = "idle" /\ pc'[c] = "waiting" /\ sem'[c] = 0
      /\ \A d \in Clients \ {c} : /\ pc'[d] = pc[d] /\ sem'[d] = sem[d]
                                  /\ result'[d] = result[d]
  BY DEF EnterFrame, IInv, TypeOK
<1>3. (~InHand /\ wpc' = "got") \/ (wpc' = wpc /\ job' = job)
  BY AcceptShape
<1>4. Answer[c] = "none" /\ Answer' = [Answer EXCEPT ![c] = "pending"]
  BY <1>2, <1>3, AnswerOnEntry
<1> QED BY <1>1, <1>4 DEF Service!Accept

\* Every step of the worker and its clients is a step of the service or none.
LEMMA StepImplements ==
    ASSUME IInv, IInv', [Next]_vars
    PROVE  [Service!Next]_(Service!vars)
<1> USE DEF Service!vars
<1>0. TypeOK /\ TypeOK'
  BY DEF IInv
<1>1. ASSUME NEW c \in Clients, NEW t \in JobTypes, Request(c, t)
      PROVE  [Service!Next]_(Service!vars)
  <2>1. PICK m \in Jobs : m = OwnJob(c, t)
    BY <1>0, <1>1, OwnJobType DEF Request, EnterFrame
  <2>2. EnterFrame(c, m) /\ UNCHANGED <<res, ret>> /\ m.owner = c
    BY <1>1, <2>1 DEF Request, OwnJob
  <2>3. CASE Accept(m) /\ pc' = [pc EXCEPT ![c] = "waiting"]
    <3>1. Service!Accept(c, m)
      BY <1>0, <2>2, <2>3, AcceptImplements
    <3> QED BY <3>1 DEF Service!Next
  <2>4. CASE pc' = [pc EXCEPT ![c] = "putting"] /\ UNCHANGED <<queue, wpc, job>>
    <3>1. /\ pc[c] = "idle" /\ pc'[c] = "putting"
          /\ \A d \in Clients \ {c} : /\ pc'[d] = pc[d] /\ sem'[d] = sem[d]
                                      /\ result'[d] = result[d]
      BY <2>2, <2>4 DEF EnterFrame, IInv, TypeOK
    <3>2. Answer' = Answer
      BY <2>2, <2>4, <3>1, AnswerOnEntry
    <3>3. Line' = Line
      BY <2>4 DEF Line
    <3> QED BY <2>2, <3>2, <3>3
  <2> QED BY <1>1, <2>1, <2>3, <2>4 DEF Request
<1>2. ASSUME NEW c \in Clients, NEW t \in Scripts, WebRun(c, t)
      PROVE  [Service!Next]_(Service!vars)
  <2>1. PICK m \in Jobs : m = OwnJob(c, t)
    BY <1>0, <1>2, OwnJobType DEF WebRun, EnterFrame, Scripts, JobTypes
  <2>2. EnterFrame(c, m) /\ UNCHANGED res /\ m.owner = c
    BY <1>2, <2>1 DEF WebRun, OwnJob
  <2>3. CASE Accept(m) /\ pc' = [pc EXCEPT ![c] = "waiting"] /\ UNCHANGED ret
    <3>1. Service!Accept(c, m)
      BY <1>0, <2>2, <2>3, AcceptImplements
    <3> QED BY <3>1 DEF Service!Next
  <2>4. CASE /\ ~HasRoom /\ ret' = [ret EXCEPT ![c] = "-ENOMSG"]
             /\ UNCHANGED <<queue, wpc, job, pc>>
    <3>1. /\ pc[c] = "idle" /\ pc'[c] = "idle"
          /\ \A d \in Clients \ {c} : /\ pc'[d] = pc[d] /\ sem'[d] = sem[d]
                                      /\ result'[d] = result[d]
      BY <2>2, <2>4 DEF EnterFrame, IInv, TypeOK
    <3>2. Answer[c] = "none" /\ Answer' = Answer
      BY <2>2, <2>4, <3>1, AnswerOnEntry
    <3>3. Line' = Line
      BY <2>4 DEF Line
    <3>4. Len(Line) >= QueueLen
      BY <2>4, LineShape DEF HasRoom
    <3>5. Service!Refuse(c)
      BY <2>4, <3>2, <3>3, <3>4 DEF Service!Refuse, Service!Refusals
    <3> QED BY <3>5 DEF Service!Next
  <2> QED BY <1>2, <2>1, <2>3, <2>4 DEF WebRun
<1>3. ASSUME NEW c \in Clients, NEW t \in Scripts, Background(c, t)
      PROVE  [Service!Next]_(Service!vars)
  <2>1. PICK m \in Jobs : m = FreeJob(c, t)
    BY <1>0, <1>3, OwnJobType DEF Background, EnterFrame, Scripts, JobTypes
  <2>2. EnterFrame(c, m) /\ UNCHANGED <<res, pc>> /\ m.owner = Nobody
    BY <1>3, <2>1 DEF Background, FreeJob
  <2>3. /\ pc[c] = "idle" /\ pc'[c] = "idle"
        /\ \A d \in Clients \ {c} : /\ pc'[d] = pc[d] /\ sem'[d] = sem[d]
                                    /\ result'[d] = result[d]
    BY <2>2 DEF EnterFrame, IInv, TypeOK
  <2>4. CASE Accept(m) /\ ret' = [ret EXCEPT ![c] = "0"]
    <3>1. Line' = Append(Line, m) /\ Len(Line) < QueueLen + 1
      BY <2>4, LineAccepts
    <3>2. (~InHand /\ wpc' = "got") \/ (wpc' = wpc /\ job' = job)
      BY <2>4, AcceptShape
    <3>3. Answer[c] = "none" /\ Answer' = Answer
      BY <2>2, <2>3, <3>2, AnswerOnEntry
    <3>4. Service!AcceptBackground(c, m)
      BY <2>2, <2>4, <3>1, <3>3 DEF Service!AcceptBackground
    <3> QED BY <3>4 DEF Service!Next
  <2>5. CASE /\ ~HasRoom /\ ret' = [ret EXCEPT ![c] = "-ENOMSG"]
             /\ UNCHANGED <<queue, wpc, job>>
    <3>1. Answer[c] = "none" /\ Answer' = Answer
      BY <2>2, <2>3, <2>5, AnswerOnEntry
    <3>2. Line' = Line
      BY <2>5 DEF Line
    <3>3. Len(Line) >= QueueLen
      BY <2>5, LineShape DEF HasRoom
    <3>4. Service!Refuse(c)
      BY <2>5, <3>1, <3>2, <3>3 DEF Service!Refuse, Service!Refusals
    <3> QED BY <3>4 DEF Service!Next
  <2> QED BY <1>3, <2>1, <2>4, <2>5 DEF Background
<1>4. ASSUME NEW c \in Clients, PutTimeout(c)
      PROVE  [Service!Next]_(Service!vars)
  <2>1. /\ pc[c] = "putting" /\ pc'[c] = "idle"
        /\ \A d \in Clients \ {c} : pc'[d] = pc[d]
        /\ ret' = [ret EXCEPT ![c] = "-EAGAIN"]
        /\ UNCHANGED <<queue, wpc, job, res, sem, result>>
    BY <1>4 DEF PutTimeout, worker, IInv, TypeOK
  <2>2. Answer[c] = "none" /\ Answer' = Answer
    BY <2>1, AnswerOnEntry
  <2>3. Line' = Line /\ Len(Line) >= QueueLen
    <3>1. Len(queue) = QueueLen
      BY <2>1 DEF IInv, QueueBlocks, BlockedOnlyWhenFull
    <3> QED BY <2>1, <3>1, LineShape DEF Line
  <2>4. Service!Refuse(c)
    BY <2>1, <2>2, <2>3 DEF Service!Refuse, Service!Refusals
  <2> QED BY <2>4 DEF Service!Next
<1>5. ASSUME NEW c \in Clients, TakeDone(c)
      PROVE  [Service!Next]_(Service!vars)
  <2>1. /\ pc[c] = "waiting" /\ pc'[c] = "idle" /\ sem[c] = 1
        /\ \A d \in Clients \ {c} : pc'[d] = pc[d] /\ sem'[d] = sem[d]
        /\ ret' = [ret EXCEPT ![c] = result[c]]
        /\ UNCHANGED <<queue, wpc, job, res, result>>
        /\ result[c] \in Results
    BY <1>5 DEF TakeDone, worker, IInv, TypeOK
  <2>2. Answer[c] = result[c]
    BY <2>1 DEF Answer, IInv, SemLast, InHandFor, InHand
  <2>3. Answer' = [Answer EXCEPT ![c] = "none"]
    <3>1. \A d \in Clients : Answer'[d] = IF d = c THEN "none" ELSE Answer[d]
      BY <2>1 DEF Answer
    <3>2. Answer = [d \in Clients |-> Answer[d]] /\ Answer' = [d \in Clients |-> Answer'[d]]
      BY DEF Answer
    <3> QED BY <3>1, <3>2
  <2>4. Line' = Line
    BY <2>1 DEF Line
  <2>5. Answer[c] \notin {"none", "pending"}
    BY <2>1, <2>2 DEF Results
  <2>6. Service!Collect(c)
    BY <2>1, <2>2, <2>3, <2>4, <2>5 DEF Service!Collect
  <2> QED BY <2>6 DEF Service!Next
<1>6. CASE Run
  <2>1. /\ wpc = "run" /\ wpc' = "ran" /\ res' \in Outcome(job.type)
        /\ UNCHANGED <<queue, job, pc, sem, result, ret>>
    BY <1>6 DEF Run, client
  <2>2. Line = <<job>> \o queue /\ Line' = queue
    BY <2>1 DEF Line
  <2>3. Line # <<>> /\ Head(Line) = job /\ Tail(Line) = queue
    BY <2>2, LineShape, FrontOfLine
  <2>4. Answer' = [d \in Clients |-> IF d = job.owner THEN res' ELSE Answer[d]]
    <3> SUFFICES ASSUME NEW d \in Clients
                 PROVE  Answer'[d] = IF d = job.owner THEN res' ELSE Answer[d]
      BY DEF Answer
    <3>1. CASE d = job.owner
      <4>1. pc[d] = "waiting"
        BY <2>1, <3>1 DEF IInv, JobsMine, Mine, InHand
      <4> QED BY <2>1, <3>1, <4>1 DEF Answer
    <3>2. CASE d # job.owner
      BY <2>1, <3>2 DEF Answer
    <3> QED BY <3>1, <3>2
  <2>5. Service!Serve
    BY <2>1, <2>2, <2>3, <2>4 DEF Service!Serve
  <2> QED BY <2>5 DEF Service!Next
<1>7. CASE GetJob
  <2>1. /\ wpc = "next" /\ wpc' = "got" /\ job' = Head(queue)
        /\ UNCHANGED <<res, sem, result, ret>> /\ ~InHand
    BY <1>7 DEF GetJob, InHand
  <2>2. queue \in Seq(Jobs) /\ queue # <<>> /\ Line = queue
    BY <1>7, <2>1, LineShape DEF GetJob
  <2>3. /\ Head(queue) \in Jobs /\ Tail(queue) \in Seq(Jobs)
        /\ queue = <<Head(queue)>> \o Tail(queue)
    <3>1. Head(queue) \in Jobs /\ Tail(queue) \in Seq(Jobs)
          /\ Len(Tail(queue)) = Len(queue) - 1
          /\ Head(queue) = queue[1]
          /\ \A i \in 1 .. Len(Tail(queue)) : Tail(queue)[i] = queue[i + 1]
          /\ Len(queue) \in Nat
      BY <2>2, HeadTailProperties
    <3> DEFINE h == Head(queue)
               l == Tail(queue)
    <3>2. /\ <<h>> \in Seq(Jobs) /\ Len(<<h>>) = 1 /\ <<h>>[1] = h
      BY <3>1
    <3> HIDE DEF h, l
    <3>3. /\ <<h>> \o l \in Seq(Jobs)
          /\ Len(<<h>> \o l) = 1 + Len(l)
          /\ \A i \in 1 .. 1 + Len(l) :
                (<<h>> \o l)[i] = IF i <= 1 THEN <<h>>[i] ELSE l[i - 1]
      BY <3>1, <3>2, ConcatProperties DEF h, l
    <3>4. Len(l) = Len(queue) - 1 /\ h = queue[1]
          /\ \A i \in 1 .. Len(l) : l[i] = queue[i + 1]
      BY <3>1 DEF h, l
    <3> DEFINE t == <<h>> \o l
    <3>5. \A i \in 1 .. Len(queue) : t[i] = queue[i]
      <4> SUFFICES ASSUME NEW i \in 1 .. Len(queue) PROVE t[i] = queue[i]
        OBVIOUS
      <4>1. CASE i = 1
        BY <3>1, <3>2, <3>3, <3>4, <4>1
      <4>2. CASE i # 1
        <5>1. i - 1 \in 1 .. Len(l) /\ (i - 1) + 1 = i /\ i \in 1 .. 1 + Len(l) /\ ~(i <= 1)
          BY <3>1, <3>4, <4>2
        <5>2. t[i] = l[i - 1] /\ l[i - 1] = queue[i]
          BY <3>3, <3>4, <5>1
        <5> QED BY <5>2
      <4> QED BY <4>1, <4>2
    <3>6. t \in Seq(Jobs) /\ Len(t) = Len(queue)
      <4>1. t \in Seq(Jobs) /\ Len(t) = 1 + Len(l)
        BY <3>3
      <4>2. Len(l) = Len(queue) - 1
        BY <3>4
      <4>3. Len(queue) \in Nat
        BY <3>1
      <4> HIDE DEF t
      <4> QED BY <4>1, <4>2, <4>3
    <3> HIDE DEF t
    <3>7. t = queue
      BY <2>2, <3>5, <3>6, SeqEqual
    <3> QED BY <3>1, <3>7 DEF t, h, l
  <2>4. CASE queue' = Tail(queue) /\ UNCHANGED pc
    <3>1. Line' = Line
      BY <2>1, <2>2, <2>3, <2>4 DEF Line
    <3>2. Answer' = Answer
      BY <2>1, <2>4 DEF Answer, InHand
    <3> QED BY <2>1, <3>1, <3>2
  <2>5. ASSUME NEW c \in Clients, pc[c] = "putting",
               queue' = Append(Tail(queue), msg[c]),
               pc' = [pc EXCEPT ![c] = "waiting"]
        PROVE  Service!Next
    <3>1. PICK m \in Jobs : m = msg[c]
      BY <1>0 DEF TypeOK
    <3>2. m.owner = c /\ sem[c] = 0 /\ Len(queue) = QueueLen
      BY <1>0, <2>5, <3>1, IdleUnnamed
         DEF IInv, TypeOK, FramesBuilt, QueueBlocks, BlockedOnlyWhenFull
    <3>3. Line' = Append(Line, m)
      <4>1. Line' = <<Head(queue)>> \o Append(Tail(queue), m)
        BY <2>1, <2>5, <3>1 DEF Line
      <4>2. <<Head(queue)>> \o Append(Tail(queue), m) = Append(<<Head(queue)>> \o Tail(queue), m)
        BY <2>3, FrontOfLine
      <4> QED BY <2>2, <2>3, <4>1, <4>2
    <3>4. /\ pc'[c] = "waiting" /\ sem'[c] = 0
          /\ \A d \in Clients \ {c} : /\ pc'[d] = pc[d] /\ sem'[d] = sem[d]
                                      /\ result'[d] = result[d]
      BY <1>0, <2>1, <2>5, <3>2 DEF TypeOK
    <3>5. Answer[c] = "none" /\ Answer' = [Answer EXCEPT ![c] = "pending"]
      BY <2>1, <2>5, <3>4, AnswerOnEntry
    <3>6. Len(Line) < QueueLen + 1
      BY <2>2, <3>2
    <3>7. Service!Accept(c, m)
      BY <2>1, <3>2, <3>3, <3>5, <3>6 DEF Service!Accept
    <3> QED BY <3>7 DEF Service!Next
  <2> QED BY <1>7, <2>4, <2>5 DEF GetJob
<1>8. CASE GetBlocks \/ SetBusy \/ ClearBusy
  <2>1. Line' = Line
    BY <1>8 DEF GetBlocks, SetBusy, ClearBusy, Line
  <2>2. Answer' = Answer
    BY <1>8 DEF GetBlocks, SetBusy, ClearBusy, client, Answer
  <2> QED BY <1>8, <2>1, <2>2 DEF GetBlocks, SetBusy, ClearBusy, client
<1>9. CASE WriteResult
  <2>1. Line' = Line
    BY <1>9 DEF WriteResult, Line
  <2>2. Answer' = Answer
    <3>1. \A d \in Clients : result'[d] = IF d = job.owner THEN res ELSE result[d]
      BY <1>9 DEF WriteResult
    <3> QED BY <1>9, <3>1 DEF WriteResult, Answer
  <2> QED BY <1>9, <2>1, <2>2 DEF WriteResult
<1>10. CASE GiveSem
  <2>1. Line' = Line
    BY <1>10 DEF GiveSem, Line
  <2>2. Answer' = Answer
    <3> SUFFICES ASSUME NEW d \in Clients PROVE Answer'[d] = Answer[d]
      BY DEF Answer
    <3>1. sem'[d] = IF d = job.owner THEN 1 ELSE sem[d]
      BY <1>10 DEF GiveSem
    <3>2. CASE d = job.owner
      <4>1. result[d] = res
        BY <1>10, <3>2 DEF GiveSem, IInv, ResultsFit
      <4> QED BY <1>10, <3>1, <3>2, <4>1 DEF GiveSem, Answer
    <3>3. CASE d # job.owner
      BY <1>10, <3>1, <3>3 DEF GiveSem, Answer
    <3> QED BY <3>2, <3>3
  <2> QED BY <1>10, <2>1, <2>2 DEF GiveSem
<1>11. CASE UNCHANGED vars
  BY <1>11 DEF vars, worker, client, Line, Answer
<1> QED BY <1>1, <1>2, <1>3, <1>4, <1>5, <1>6, <1>7, <1>8, <1>9, <1>10, <1>11
        DEF Next, Worker, Client

\* The worker thread, its queue and its callers' frames implement the service
\* that lua_worker.h promises.
THEOREM WorkerImplementsService == Spec => ImplementsService
<1>1. Init => Service!Init
  BY DEF Init, Service!Init, Line, Answer
<1>2. IInv /\ IInv' /\ [Next]_vars => [Service!Next]_(Service!vars)
  BY StepImplements
<1> QED BY <1>1, <1>2, Inductive, PTL DEF Spec, Service!Spec, ImplementsService

=============================================================================
