------------------------------ MODULE JobService ------------------------------
(***************************************************************************)
(* What src/src/lua_worker.h promises its callers, without the worker      *)
(* thread, the semaphores or the stack frames: requests stand in one line, *)
(* are served one at a time in the order they were accepted, and each      *)
(* caller is handed the outcome of its own request, once.  A request is    *)
(* refused only when the line is long.                                     *)
(***************************************************************************)
EXTENDS Naturals, Sequences

CONSTANTS
    Clients,     \* the callers
    Nobody,      \* the owner of a background request
    Requests,    \* what can stand in line: records with an owner and a type
    RefuseFrom,  \* the least length of the line at which a request is refused
    Capacity,    \* the length the line never exceeds
    Outcome(_)   \* the outcomes of a request of each kind

VARIABLES
    line,    \* the accepted requests that are not yet served
    answer,  \* of each caller: "none", "pending", or the outcome of its request
    got      \* what each caller was handed last

vars == <<line, answer, got>>

Refusals == {"-EAGAIN", "-ENOMSG"}

Init ==
    /\ line = <<>>
    /\ answer = [c \in Clients |-> "none"]
    /\ got = [c \in Clients |-> "0"]

\* A request is accepted at the end of the line.
Accept(c, m) ==
    /\ m.owner = c /\ answer[c] = "none"
    /\ Len(line) < Capacity
    /\ line' = Append(line, m)
    /\ answer' = [answer EXCEPT ![c] = "pending"]
    /\ UNCHANGED got

\* A background request is accepted; its caller is told so at once.
AcceptBackground(c, m) ==
    /\ m.owner = Nobody /\ answer[c] = "none"
    /\ Len(line) < Capacity
    /\ line' = Append(line, m)
    /\ got' = [got EXCEPT ![c] = "0"]
    /\ UNCHANGED answer

Refuse(c) ==
    /\ answer[c] = "none"
    /\ Len(line) >= RefuseFrom
    /\ \E r \in Refusals : got' = [got EXCEPT ![c] = r]
    /\ UNCHANGED <<line, answer>>

\* The first in line is served: the outcome is its caller's from now on.
Serve ==
    /\ line # <<>>
    /\ line' = Tail(line)
    /\ \E r \in Outcome(Head(line).type) :
          answer' = [c \in Clients |-> IF c = Head(line).owner THEN r ELSE answer[c]]
    /\ UNCHANGED got

Collect(c) ==
    /\ answer[c] \notin {"none", "pending"}
    /\ got' = [got EXCEPT ![c] = answer[c]]
    /\ answer' = [answer EXCEPT ![c] = "none"]
    /\ UNCHANGED line

Next ==
    \/ Serve
    \/ \E c \in Clients :
          \/ \E m \in Requests : Accept(c, m) \/ AcceptBackground(c, m)
          \/ Refuse(c)
          \/ Collect(c)

Spec == Init /\ [][Next]_vars

=============================================================================
