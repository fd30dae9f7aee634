----------------------------- MODULE Pins_proofs -----------------------------
(***************************************************************************)
(* What holds of the pins for any number of threads, pins, channels and    *)
(* timers.  The argument is about one pin whose calls never overlapped: no *)
(* other call is about it, none gives or takes a channel while one of its  *)
(* own does, and so each step of its calls finds what the step before left.*)
(* That calls nest by priority is not needed: the history of overlaps is.  *)
(***************************************************************************)
EXTENDS Pins, WellFoundedInduction, TLAPS

USE UsersAssumption, ChannelsAssumption, CallsAssumption

-----------------------------------------------------------------------------
(* The inductive invariant. *)

Args == Flags \cup Freqs \cup Signals \cup {GPIO, None}
CallType == [op : Ops, pin : Pins \cup {None}, arg : Args, ch : Channels]

\* A call is at a step that calls of its kind have, with the argument they take.
Fits(c, step) ==
    \/ step = "idle"
    \/ /\ c.pin \in Pins
       /\ \/ c.op = "config" /\ c.arg \in Flags /\ step \in {"configure", "remember"}
          \/ /\ c.op = "set" /\ c.arg \in Freqs
             /\ step \in {"search", "timer", "channel", "configure", "remember", "route", "record"}
          \/ c.op = "stop" /\ step \in {"off", "connect", "configure", "remember", "release"}
          \/ c.op = "route" /\ c.arg \in Signals /\ step = "connect"
          \/ c.op = "detach" /\ step = "connect"

CallsTyped == call \in [Users -> CallType] /\ \A u \in Users : Fits(call[u], pc[u])

Busy(u) == pc[u] # "idle"
About(u, p) == Busy(u) /\ call[u].pin = p

\* The pins of two calls that are under way and clash are known to have clashed.
Apart ==
    \A u, v \in Users :
      u # v /\ Busy(u) /\ Busy(v) /\ Clashes(call[u], call[v]) =>
        call[u].pin \in clash /\ call[v].pin \in clash

\* A call has chosen its channel; it has programmed the channel's timer.
Chosen(u) == Busy(u) /\ call[u].op \in Pwm /\ pc[u] \notin {"search", "off"}
Programmed(u) == Chosen(u) /\ call[u].op = "set" /\ pc[u] # "timer"

\* No call has begun to change the pin.
Untouched(u) == pc[u] \in {"search", "off"} \/ (pc[u] = "configure" /\ call[u].op \notin Pwm)
Settled(p) == \A u \in Users : About(u, p) => Untouched(u)

\* The record of the flags follows the driver, one step behind it.
FlagsFollow(p) ==
    /\ (\A u \in Users : About(u, p) => pc[u] # "remember") => flags[p] = drv[p]
    /\ \A u \in Users : About(u, p) /\ pc[u] = "remember" => drv[p] = Wanted(call[u])

\* A pin has one channel at most, and no other pin's call has chosen it.
OneChannel(p) == \A c, d \in Of(p) : c = d
OwnChannel(p) == \A u \in Users : Chosen(u) /\ call[u].pin # p => call[u].ch \notin Of(p)

\* In the middle of hw_pwm_set, and of hw_pwm_stop, on the pin.
InSet(p) ==
    \A u \in Users : About(u, p) /\ Chosen(u) /\ call[u].op = "set" =>
      /\ Of(p) \subseteq {call[u].ch}
      /\ pc[u] # "timer" => tim[call[u].ch % NTimers] = call[u].arg
      /\ pc[u] \notin {"timer", "channel"} => call[u].ch \in led
      /\ pc[u] = "record" => mat[p] = call[u].ch
InStop(p) ==
    \A u \in Users : About(u, p) /\ Chosen(u) /\ call[u].op = "stop" =>
      /\ Of(p) \subseteq {call[u].ch}
      /\ pc[u] # "connect" => mat[p] = GPIO /\ sig[p] = GPIO

\* Before and after the calls on the pin, whatever the calls on others do.
\* Another pin's call has the shared timer from the time it programs it.
AsSet(p) ==
    Settled(p) /\ last[p] = "set" =>
      \E c \in Channels :
        /\ Of(p) = {c} /\ mat[p] = c /\ c \in led
        /\ latest[c % NTimers] = p
           /\ (\A u \in Users : Programmed(u) => call[u].ch % NTimers # c % NTimers)
             => tim[c % NTimers] = chan[c].freq
AsStopped(p) == Settled(p) /\ last[p] = "stop" => Of(p) = {} /\ mat[p] = GPIO
Routed(p) == Settled(p) /\ last[p] \in {"none", "stop", "route", "detach"} => sig[p] = mat[p]

Kept(p) ==
    /\ FlagsFollow(p) /\ OneChannel(p) /\ OwnChannel(p) /\ InSet(p) /\ InStop(p)
    /\ AsSet(p) /\ AsStopped(p) /\ Routed(p)

IInv == TypeOK /\ CallsTyped /\ Apart /\ \A p \in Pins \ clash : Kept(p)

-----------------------------------------------------------------------------
(* Helpers. *)

\* A channel that is chosen is one of those to choose from.
LEMMA LeastOf ==
    ASSUME NEW S \in SUBSET Channels, S # {} PROVE Least(S) \in S
<1> DEFINE Below == OpToRel(<, Nat)
<1>1. S \subseteq Nat
  BY DEF Channels
<1>2. PICK c \in S : \A d \in Nat : <<d, c>> \in Below => d \notin S
  BY <1>1, NatLessThanWellFounded, WFMin, Zenon
<1>3. \A d \in S : <<d, c>> \notin Below
  BY <1>1, <1>2
<1>4. ASSUME NEW d \in S, d < c PROVE FALSE
  <2>1. <<d, c>> \in Nat \X Nat /\ <<d, c>>[1] = d /\ <<d, c>>[2] = c
    BY <1>1
  <2>2. <<d, c>> \in Below
    BY <1>4, <2>1, Zenon DEF OpToRel
  <2> QED BY <1>3, <2>2
<1>5. \A d \in S : c <= d
  BY <1>1, <1>4 DEF Channels
<1> QED BY <1>5 DEF Least

\* The timer of a channel.
LEMMA TimerOf == \A c \in Channels : c % NTimers \in Timers
BY DEF Channels, Timers

\* The flags with a pull are flags.
LEMMA PullIsFlags == \A f \in Flags : WithPull(f) \in Flags
<1> SUFFICES ASSUME NEW f \in Flags PROVE WithPull(f) \in Flags
  OBVIOUS
<1>1. CASE f \in {Disconnected, Input, InputPullUp}
  <2>1. WithPull(f) = InputPullUp
    BY <1>1 DEF WithPull, Disconnected, Input, InputPullUp
  <2> QED BY <2>1 DEF Flags
<1>2. CASE f \in {Output, OutputPullUp} /\ f # Disconnected
  <2>1. WithPull(f) = OutputPullUp
    BY <1>2 DEF WithPull, Output, OutputPullUp
  <2> QED BY <2>1 DEF Flags
<1> QED BY <1>1, <1>2 DEF Flags

\* A call that begins, at a first step of its kind.
Begins(u) ==
    \E op \in Ops, p \in Pins, arg \in Args, step \in {"configure", "connect", "search", "off"} :
      /\ Fits([op |-> op, pin |-> p, arg |-> arg, ch |-> 0], step)
      /\ op \in Pwm => step \in {"search", "off"}
      /\ Begin(u, op, p, arg, step)

\* Whatever the surface, a step begins a call or goes on with one.
LEMMA StepIsOfUser ==
    ASSUME TypeOK, Next PROVE \E u \in Users : Begins(u) \/ Inside(u)
<1>1. \A u : Mode(u) => Begins(u)
  BY DEF Mode, Begins, Ops, Args, Fits, Pwm
<1>2. \A u : Pull(u) => Begins(u)
  <2> SUFFICES ASSUME NEW u, Pull(u) PROVE Begins(u)
    OBVIOUS
  <2>1. PICK p \in Pins : Begin(u, "config", p, WithPull(flags[p]), "configure")
    BY DEF Pull
  <2>2. WithPull(flags[p]) \in Flags
    BY PullIsFlags DEF TypeOK
  <2> QED BY <2>1, <2>2 DEF Begins, Ops, Args, Fits, Pwm
<1>3. \A u : Write(u) \/ Read(u) => Begins(u)
  BY DEF Write, Read, Begins, Ops, Args, Fits, Pwm, Flags
<1>4. \A u : RouteOut(u) \/ Detach(u) => Begins(u)
  BY DEF RouteOut, Detach, Begins, Ops, Args, Fits, Pwm
<1>5. \A u : PwmSet(u) \/ PwmStop(u) => Begins(u)
  BY DEF PwmSet, PwmStop, Begins, Ops, Args, Fits, Pwm
<1> QED
  BY <1>1, <1>2, <1>3, <1>4, <1>5
     DEF Next, Users, GpioShell, GpioScript, GpioWeb, MatrixShell, MatrixScript, PwmShell, PwmScript, PwmWeb

-----------------------------------------------------------------------------
(* Types. *)

Typed == TypeOK /\ CallsTyped

\* What a user that takes a step of its call finds: the call.
LEMMA OwnCall ==
    ASSUME Typed, NEW u \in Users, Inside(u)
    PROVE  /\ pc[u] # "idle" /\ call[u] \in CallType /\ call[u].pin \in Pins
           /\ call[u].op = "config" => call[u].arg \in Flags
           /\ call[u].op = "set" => call[u].arg \in Freqs
           /\ call[u].op = "route" => call[u].arg \in Signals
           /\ Wanted(call[u]) \in Flags \/ call[u].op \in {"route", "detach"}
<1>1. pc[u] # "idle"
  BY DEF Inside, At, Configure, Refused, Remember, Connect, Search, ProgramTimer, ProgramChannel, RouteChannel,
         Record, SwitchOff, Release
<1>2. call[u] \in CallType /\ Fits(call[u], pc[u])
  BY DEF Typed, CallsTyped
<1> QED BY <1>1, <1>2 DEF Fits, Wanted, Flags

\* The step leaves the other users' calls alone, and goes on with its own or ends it.
LEMMA OneCall ==
    ASSUME Typed, NEW u \in Users, Inside(u)
    PROVE  /\ \A v \in Users \ {u} : call'[v] = call[v] /\ pc'[v] = pc[v]
           /\ \/ pc'[u] = "idle"
              \/ call'[u].op = call[u].op /\ call'[u].pin = call[u].pin /\ call'[u].arg = call[u].arg
           /\ call' \in [Users -> CallType] /\ Fits(call'[u], pc'[u])
           /\ pc' \in [Users -> Steps] /\ made' = made /\ clash' = clash
<1> USE OwnCall DEF Typed, CallsTyped, TypeOK, At, Goto, On, hw, rec, hist
<1>0. NoCall \in CallType
  BY DEF NoCall, CallType, Ops, Args, Channels
<1>1. CASE Configure(u)
  BY <1>1 DEF Configure, Steps, Fits
<1>2. CASE Remember(u)
  BY <1>0, <1>2 DEF Remember, Finish, Steps, Fits
<1>3. CASE Connect(u)
  BY <1>0, <1>3 DEF Connect, Finish, Steps, Fits
<1>4. ASSUME Fail(u) PROVE call' = [call EXCEPT ![u] = NoCall] /\ pc' = [pc EXCEPT ![u] = "idle"] /\ made' = made /\ clash' = clash
  BY <1>4 DEF Fail
<1>5. ASSUME NEW c \in Channels, call' = [call EXCEPT ![u].ch = c]
      PROVE  call' \in [Users -> CallType] /\ call'[u].op = call[u].op /\ call'[u].pin = call[u].pin /\ call'[u].arg = call[u].arg
             /\ \A v \in Users \ {u} : call'[v] = call[v]
  BY <1>5 DEF CallType
<1>6. CASE Search(u)
  <2>1. CASE Fail(u)
    BY <1>0, <1>4, <2>1 DEF Steps, Fits
  <2>2. CASE ~Fail(u)
    <3>1. PICK S \in SUBSET Channels : S # {} /\ call' = [call EXCEPT ![u].ch = Least(S)]
      BY <1>6, <2>2 DEF Search, Of, Idle
    <3>2. call' = [call EXCEPT ![u].ch = Least(S)] /\ Least(S) \in Channels
      BY <3>1, LeastOf
    <3>3. pc' = [pc EXCEPT ![u] = "timer"] /\ made' = made /\ clash' = clash /\ pc[u] = "search"
      BY <1>6, <2>2 DEF Search
    <3> HIDE DEF TypeOK
    <3>4. pc \in [Users -> Steps]
      BY DEF TypeOK
    <3> QED BY <1>5, <3>2, <3>3, <3>4 DEF Steps, Fits
  <2> QED BY <2>1, <2>2
<1>7. CASE ProgramTimer(u)
  BY <1>7 DEF ProgramTimer, Steps, Fits
<1>8. CASE ProgramChannel(u)
  BY <1>8 DEF ProgramChannel, Steps, Fits
<1>9. CASE RouteChannel(u)
  BY <1>9 DEF RouteChannel, Steps, Fits
<1>10. CASE Record(u)
  BY <1>0, <1>10 DEF Record, Finish, Steps, Fits
<1>11. CASE SwitchOff(u)
  <2>1. CASE Fail(u)
    BY <1>0, <1>4, <2>1 DEF Steps, Fits
  <2>2. CASE ~Fail(u)
    <3>1. Of(call[u].pin) \in SUBSET Channels /\ Of(call[u].pin) # {}
      BY <1>11, <2>2 DEF SwitchOff, Of
    <3>2. call' = [call EXCEPT ![u].ch = Least(Of(call[u].pin))] /\ Least(Of(call[u].pin)) \in Channels
      BY <1>11, <2>2, <3>1, LeastOf DEF SwitchOff
    <3>3. pc' = [pc EXCEPT ![u] = "connect"] /\ made' = made /\ clash' = clash /\ pc[u] = "off"
      BY <1>11, <2>2 DEF SwitchOff
    <3> HIDE DEF TypeOK
    <3>4. pc \in [Users -> Steps]
      BY DEF TypeOK
    <3> QED BY <1>5, <3>2, <3>3, <3>4 DEF Steps, Fits
  <2> QED BY <2>1, <2>2
<1>12. CASE Release(u)
  BY <1>0, <1>12 DEF Release, Finish, Steps, Fits
<1>13. CASE Refused(u)
  <2>1. CASE Fail(u)
    BY <1>0, <1>4, <2>1 DEF Steps, Fits
  <2>2. CASE ~Fail(u)
    BY <1>13, <2>2 DEF Refused, Steps, Fits, Pwm
  <2> QED BY <2>1, <2>2
<1> QED
  BY <1>1, <1>2, <1>3, <1>6, <1>7, <1>8, <1>9, <1>10, <1>11, <1>12, <1>13 DEF Inside

\* A call that begins changes the calls and nothing else.
LEMMA BeginOnly ==
    ASSUME Typed, NEW u \in Users, Begins(u)
    PROVE  /\ \A v \in Users \ {u} : call'[v] = call[v] /\ pc'[v] = pc[v]
           /\ pc[u] = "idle" /\ pc'[u] \notin {"idle", "remember"} /\ call'[u].pin \in Pins
           /\ call'[u].op \in Pwm => pc'[u] \in {"search", "off"}
           /\ call' \in [Users -> CallType] /\ Fits(call'[u], pc'[u]) /\ pc' \in [Users -> Steps]
           /\ clash \subseteq clash' /\ clash' \subseteq Pins
           /\ \A v \in Users \ {u} :
                pc[v] # "idle" /\ Clashes(call[v], call'[u]) => {call'[u].pin, call[v].pin} \subseteq clash'
           /\ UNCHANGED <<hw, rec, last, latest>>
<1>1. PICK op \in Ops, p \in Pins, arg \in Args, step \in {"configure", "connect", "search", "off"} :
        /\ Fits([op |-> op, pin |-> p, arg |-> arg, ch |-> 0], step)
        /\ op \in Pwm => step \in {"search", "off"}
        /\ Begin(u, op, p, arg, step)
  BY DEF Begins
<1> DEFINE c == [op |-> op, pin |-> p, arg |-> arg, ch |-> 0]
           others == {v \in Users \ {u} : pc[v] # "idle" /\ Clashes(call[v], call'[u])}
<1>2. /\ pc[u] = "idle" /\ pc' = [pc EXCEPT ![u] = step] /\ call' = [call EXCEPT ![u] = c]
      /\ clash' = clash \cup (IF others = {} THEN {} ELSE {p} \cup {call[v].pin : v \in others})
      /\ UNCHANGED <<hw, rec, last, latest>>
  BY <1>1 DEF Begin, At, Goto
<1>3. 0 \in Channels /\ c \in CallType
  BY DEF CallType, Channels
<1>4. pc \in [Users -> Steps] /\ call \in [Users -> CallType] /\ clash \subseteq Pins
  BY DEF Typed, TypeOK, CallsTyped
<1>5. call'[u] = c /\ pc'[u] = step /\ \A v \in Users \ {u} : call'[v] = call[v] /\ pc'[v] = pc[v]
  BY <1>2, <1>4
<1>6. call' \in [Users -> CallType] /\ pc' \in [Users -> Steps]
  BY <1>2, <1>3, <1>4 DEF Steps
<1>7. \A v \in others : call[v].pin \in Pins
  BY DEF Typed, CallsTyped, Fits
<1>8. clash \subseteq clash' /\ clash' \subseteq Pins
  BY <1>2, <1>4, <1>7
<1>9. \A v \in others : {p, call[v].pin} \subseteq clash'
  BY <1>2
<1> QED BY <1>1, <1>2, <1>5, <1>6, <1>8, <1>9

LEMMA TypedInit == Init => Typed
<1> SUFFICES ASSUME Init PROVE Typed
  OBVIOUS
<1>1. 0 \in Channels /\ NoCall \in CallType
  BY DEF Channels, CallType, NoCall, Ops, Args
<1>2. CallsTyped
  BY <1>1 DEF Init, CallsTyped, Fits
<1>3. chan \in [Channels -> [pin : Pins \cup {None}, freq : Freqs \cup {0}, active : BOOLEAN]]
  BY DEF Init, Free
<1>4. \A u \in Users : call[u].op \in Ops /\ call[u].pin \in Pins \cup {None} /\ call[u].ch \in Channels
  BY <1>1 DEF Init, NoCall, Ops
<1> QED BY <1>2, <1>3, <1>4 DEF Typed, TypeOK, Init, Flags, Steps, Ops

\* The hardware, the records and the history after a step of a call.
LEMMA StateTyped ==
    ASSUME Typed, NEW u \in Users, Inside(u)
    PROVE  /\ flags' \in [Pins -> Flags] /\ drv' \in [Pins -> Flags]
           /\ sig' \in [Pins -> Signals \cup {GPIO}]
           /\ mat' \in [Pins -> Signals \cup Channels \cup {GPIO}]
           /\ chan' \in [Channels -> [pin : Pins \cup {None}, freq : Freqs \cup {0}, active : BOOLEAN]]
           /\ tim' \in [Timers -> Freqs \cup {0}] /\ led' \subseteq Channels
           /\ last' \in [Pins -> Ops] /\ latest' \in [Timers -> Pins \cup {None}]
<1>1. call[u] \in CallType /\ Fits(call[u], pc[u]) /\ pc[u] # "idle" /\ TypeOK /\ call[u].pin \in Pins
  BY OwnCall DEF Typed, CallsTyped
<1>2. call[u].ch \in Channels /\ call[u].ch % NTimers \in Timers /\ call[u].op \in Ops
  BY <1>1, TimerOf DEF CallType
<1>3. pc[u] \in {"configure", "remember"} => Wanted(call[u]) \in Flags
  BY <1>1 DEF Fits, Wanted, Flags
<1> USE <1>1, <1>2 DEF TypeOK, At, hw, rec, hist
<1>4. CASE Configure(u)
  BY <1>3, <1>4 DEF Configure
<1>5. ASSUME Finish(u) PROVE last' \in [Pins -> Ops]
  BY <1>5 DEF Finish
<1>6. CASE Remember(u)
  BY <1>3, <1>5, <1>6 DEF Remember
<1>7. CASE Connect(u)
  BY <1>5, <1>7 DEF Connect, Fits
<1>8. CASE Search(u)
  BY <1>8 DEF Search, Fail
<1>9. CASE ProgramTimer(u)
  BY <1>9 DEF ProgramTimer, Fits
<1>10. CASE ProgramChannel(u)
  BY <1>10 DEF ProgramChannel
<1>11. CASE RouteChannel(u)
  BY <1>11 DEF RouteChannel
<1>12. CASE Record(u)
  BY <1>5, <1>12 DEF Record, Fits
<1>13. CASE SwitchOff(u)
  BY <1>13 DEF SwitchOff, Fail
<1>14. CASE Release(u)
  BY <1>5, <1>14 DEF Release, Free
<1>15. CASE Refused(u)
  BY <1>15 DEF Refused, Fail
<1> QED
  BY <1>4, <1>6, <1>7, <1>8, <1>9, <1>10, <1>11, <1>12, <1>13, <1>14, <1>15 DEF Inside

LEMMA TypedNext == Typed /\ [Next]_vars => Typed'
<1> SUFFICES ASSUME Typed, [Next]_vars PROVE Typed'
  OBVIOUS
<1>1. CASE UNCHANGED vars
  BY <1>1 DEF Typed, TypeOK, CallsTyped, vars, hw, rec, hist, Fits
<1>2. ASSUME NEW u \in Users, Begins(u) PROVE Typed'
  <2>1. CallsTyped'
    BY <1>2, BeginOnly DEF Typed, CallsTyped
  <2>2. made' \in 0 .. MaxCalls
    BY <1>2 DEF Begins, Begin, Typed, TypeOK
  <2>3. \A v \in Users : call'[v].op \in Ops /\ call'[v].pin \in Pins \cup {None} /\ call'[v].ch \in Channels
    BY <2>1 DEF CallsTyped, CallType
  <2> QED BY <1>2, <2>1, <2>2, <2>3, BeginOnly DEF Typed, TypeOK, hw, rec
<1>3. ASSUME NEW u \in Users, Inside(u) PROVE Typed'
  <2>1. CallsTyped'
    BY <1>3, OneCall DEF Typed, CallsTyped
  <2>2. \A v \in Users : call'[v].op \in Ops /\ call'[v].pin \in Pins \cup {None} /\ call'[v].ch \in Channels
    BY <2>1 DEF CallsTyped, CallType
  <2> QED BY <1>3, <2>1, <2>2, OneCall, StateTyped DEF Typed, TypeOK
<1> QED BY <1>1, <1>2, <1>3, StepIsOfUser DEF Typed

\* The state of the pins, of the calls and of the history is well typed.
THEOREM TypeCorrect == Spec => []TypeOK
<1>1. Spec => []Typed
  BY TypedInit, TypedNext, PTL DEF Spec
<1> QED BY <1>1, PTL DEF Typed

-----------------------------------------------------------------------------
(* Overlaps are noted. *)

LEMMA ApartNext ==
    ASSUME Typed, Apart, [Next]_vars PROVE Apart' /\ clash \subseteq clash'
<1>1. CASE UNCHANGED vars
  BY <1>1 DEF Apart, vars, hist, Busy, Clashes
<1>2. ASSUME NEW u \in Users, Begins(u) PROVE Apart' /\ clash \subseteq clash'
  <2>1. \A v \in Users \ {u} :
          Busy(v)' /\ Clashes(call[v], call'[u]) => {call'[u].pin, call'[v].pin} \subseteq clash'
    BY <1>2, BeginOnly DEF Busy
  <2>2. \A v \in Users : Clashes(call'[u], call'[v]) <=> Clashes(call'[v], call'[u])
    BY DEF Clashes
  <2>3. \A v, w \in Users \ {u} :
          v # w /\ Busy(v)' /\ Busy(w)' /\ Clashes(call'[v], call'[w]) => {call'[v].pin, call'[w].pin} \subseteq clash'
    BY <1>2, BeginOnly DEF Apart, Busy
  <2>4. \A v \in Users \ {u} : call'[v] = call[v]
    BY <1>2, BeginOnly
  <2> QED BY <1>2, <2>1, <2>2, <2>3, <2>4, BeginOnly DEF Apart
<1>3. ASSUME NEW u \in Users, Inside(u) PROVE Apart' /\ clash \subseteq clash'
  <2>1. \A v \in Users : Busy(v)' => Busy(v) /\ call'[v].op = call[v].op /\ call'[v].pin = call[v].pin
    BY <1>3, OneCall, OwnCall DEF Busy
  <2>2. clash' = clash
    BY <1>3, OneCall
  <2> QED BY <2>1, <2>2 DEF Apart, Clashes
<1> QED BY <1>1, <1>2, <1>3, StepIsOfUser DEF Typed

\* While a call on a pin without overlaps is under way, no other call is about
\* the pin, and none deals with channels if the call does.
LEMMA Alone ==
    ASSUME Typed, Apart, NEW u \in Users, Busy(u), call[u].pin \notin clash, NEW v \in Users \ {u}, Busy(v)
    PROVE  call[v].pin # call[u].pin /\ (call[u].op \in Pwm => call[v].op \notin Pwm)
BY DEF Apart, Clashes

-----------------------------------------------------------------------------
(* A pin that the step is not about. *)

LEMMA BeginKeeps ==
    ASSUME Typed, Apart, NEW u \in Users, Begins(u), NEW p \in Pins \ clash', Kept(p)
    PROVE  Kept(p)'
<1>1. /\ \A v \in Users \ {u} : call'[v] = call[v] /\ pc'[v] = pc[v]
      /\ pc[u] = "idle" /\ pc'[u] # "remember" /\ (call'[u].op \in Pwm => pc'[u] \in {"search", "off"})
      /\ UNCHANGED <<drv, mat, tim, led, flags, sig, chan, last, latest>>
  BY BeginOnly DEF hw, rec
<1>2. Of(p)' = Of(p)
  BY <1>1 DEF Of
<1>3. \A v \in Users : Chosen(v)' => v # u /\ Chosen(v)
  BY <1>1 DEF Chosen, Busy
<1>4. \A v \in Users : Programmed(v) => v # u /\ Programmed(v)'
  BY <1>1 DEF Chosen, Busy, Programmed
<1>5. Settled(p)' => Settled(p)
  BY <1>1 DEF Settled, Untouched, About, Busy
<1>6. FlagsFollow(p)'
  BY <1>1 DEF FlagsFollow, About, Busy, Kept
<1>7. OneChannel(p)' /\ OwnChannel(p)'
  BY <1>1, <1>2, <1>3 DEF OneChannel, OwnChannel, Kept
<1>8. InSet(p)' /\ InStop(p)'
  BY <1>1, <1>2, <1>3 DEF InSet, InStop, Kept, About, Busy
<1>9. AsSet(p)'
  BY <1>1, <1>2, <1>4, <1>5 DEF AsSet, Kept
<1>10. AsStopped(p)' /\ Routed(p)'
  BY <1>1, <1>2, <1>5 DEF AsStopped, Routed, Kept
<1> QED BY <1>6, <1>7, <1>8, <1>9, <1>10 DEF Kept

\* A step of a call on another pin.
LEMMA Elsewhere ==
    ASSUME Typed, NEW u \in Users, Inside(u), NEW p \in Pins, call[u].pin # p, OwnChannel(p)
    PROVE  /\ flags'[p] = flags[p] /\ drv'[p] = drv[p] /\ sig'[p] = sig[p] /\ mat'[p] = mat[p]
           /\ last'[p] = last[p] /\ Of(p)' = Of(p)
           /\ \A c \in Of(p) : chan'[c] = chan[c] /\ (c \in led => c \in led')
           /\ \A t \in Timers : latest'[t] = p => latest[t] = p
           /\ \A t \in Timers : tim'[t] = tim[t] \/ (Programmed(u)' /\ call'[u].ch % NTimers = t)
           /\ Programmed(u) => \/ Programmed(u)' /\ call'[u].ch = call[u].ch
                               \/ latest'[call[u].ch % NTimers] # p
           /\ Chosen(u)' => call'[u].ch \notin Of(p)
           /\ call[u].op \notin Pwm => UNCHANGED <<tim, led, chan>>
<1>1. call[u] \in CallType /\ Fits(call[u], pc[u]) /\ pc[u] # "idle" /\ TypeOK /\ call[u].pin \in Pins
      /\ call \in [Users -> CallType]
  BY OwnCall DEF Typed, CallsTyped
<1>2. call[u].ch \in Channels /\ call[u].ch % NTimers \in Timers
  BY <1>1, TimerOf DEF CallType
<1>3. Chosen(u) => call[u].ch \notin Of(p)
  BY DEF OwnChannel
<1>4. Of(p) \cap Of(call[u].pin) = {} /\ Of(p) \cap Idle = {}
  BY DEF Of, Idle
<1>5. pc \in [Users -> Steps] /\ flags \in [Pins -> Flags] /\ drv \in [Pins -> Flags]
      /\ DOMAIN sig = Pins /\ DOMAIN mat = Pins /\ DOMAIN last = Pins /\ DOMAIN chan = Channels
      /\ DOMAIN tim = Timers /\ DOMAIN latest = Timers /\ led \subseteq Channels
  BY <1>1 DEF TypeOK
<1>f. ASSUME Fail(u)
      PROVE  pc'[u] = "idle" /\ UNCHANGED <<hw, rec, last, latest>>
  BY <1>5, <1>f DEF Fail, On, Goto, hist
<1>n. ASSUME Finish(u) PROVE pc'[u] = "idle" /\ last'[p] = last[p]
  BY <1>1, <1>5, <1>n DEF Finish, On, Goto
<1>10. CASE Configure(u)
  BY <1>1, <1>3, <1>5, <1>10 DEF Configure, At, On, Goto, rec, hist, Of, Chosen, Programmed, Busy
<1>11. CASE Remember(u)
  BY <1>1, <1>3, <1>5, <1>11, <1>n DEF Remember, At, On, Goto, hw, Of, Chosen, Programmed, Busy, Fits, Pwm
<1>12. CASE Connect(u)
  BY <1>1, <1>3, <1>5, <1>12, <1>n DEF Connect, At, On, Goto, Of, Chosen, Programmed, Busy, Fits, Pwm
<1>13. CASE Search(u)
  <2>1. CASE Fail(u)
    BY <1>1, <1>5, <1>13, <1>f, <2>1 DEF Search, At, hw, rec, Of, Chosen, Programmed, Busy
  <2>2. CASE ~Fail(u)
    <3>1. PICK S \in {Of(call[u].pin), Idle} : S # {} /\ call' = [call EXCEPT ![u].ch = Least(S)]
      BY <1>13, <2>2 DEF Search
    <3>2. Least(S) \in S
      BY <3>1, LeastOf DEF Of, Idle
    <3>3. call'[u].ch \notin Of(p)
      BY <1>1, <1>4, <3>1, <3>2 DEF CallType
    <3> QED BY <1>1, <1>5, <1>13, <2>2, <3>3 DEF Search, At, On, Goto, hw, rec, hist, Of, Chosen, Programmed, Busy
  <2> QED BY <2>1, <2>2
<1>14. CASE ProgramTimer(u)
  <2>1. call[u].op = "set"
    BY <1>1, <1>14 DEF ProgramTimer, At, Fits
  <2> QED BY <1>1, <1>2, <1>3, <1>5, <1>14, <2>1
             DEF ProgramTimer, At, On, Goto, rec, hist, Of, Chosen, Programmed, Busy, Pwm
<1>15. CASE ProgramChannel(u)
  BY <1>1, <1>3, <1>5, <1>15 DEF ProgramChannel, At, On, Goto, rec, hist, Of, Chosen, Programmed, Busy, Fits, Pwm
<1>16. CASE RouteChannel(u)
  BY <1>1, <1>3, <1>5, <1>16 DEF RouteChannel, At, On, Goto, rec, hist, Of, Chosen, Programmed, Busy
<1>17. CASE Record(u)
  <2>1. call[u].op = "set" /\ call[u].ch \notin Of(p)
    BY <1>1, <1>3, <1>17 DEF Record, At, Fits, Chosen, Busy, Pwm
  <2>2. \A c \in Channels : c # call[u].ch => chan'[c] = chan[c]
    BY <1>5, <1>17 DEF Record
  <2>3. Of(p)' = Of(p)
    BY <1>2, <1>5, <1>17, <2>1, <2>2 DEF Record, Of
  <2> QED BY <1>1, <1>2, <1>5, <1>17, <1>n, <2>1, <2>2, <2>3
             DEF Record, At, On, Goto, hw, Of, Chosen, Programmed, Busy, Pwm
<1>18. CASE SwitchOff(u)
  <2>1. CASE Fail(u)
    BY <1>1, <1>5, <1>18, <1>f, <2>1 DEF SwitchOff, At, hw, rec, Of, Chosen, Programmed, Busy
  <2>2. CASE ~Fail(u)
    <3>1. Least(Of(call[u].pin)) \in Of(call[u].pin)
      BY <1>18, <2>2, LeastOf DEF SwitchOff, Of
    <3>2. call'[u].ch \notin Of(p) /\ led' = led \ {Least(Of(call[u].pin))} /\ call[u].op = "stop"
      BY <1>1, <1>4, <1>18, <2>2, <3>1 DEF SwitchOff, CallType, At, Fits
    <3> QED BY <1>1, <1>4, <1>5, <1>18, <2>2, <3>1, <3>2
               DEF SwitchOff, At, On, Goto, rec, hist, Of, Chosen, Programmed, Busy, Pwm
  <2> QED BY <2>1, <2>2
<1>19. CASE Release(u)
  <2>1. call[u].op = "stop" /\ call[u].ch \notin Of(p)
    BY <1>1, <1>3, <1>19 DEF Release, At, Fits, Chosen, Busy, Pwm
  <2>2. \A c \in Channels : c # call[u].ch => chan'[c] = chan[c]
    BY <1>5, <1>19 DEF Release
  <2>3. Of(p)' = Of(p)
    BY <1>2, <1>5, <1>19, <2>1, <2>2 DEF Release, Of, Free
  <2> QED BY <1>1, <1>2, <1>5, <1>19, <1>n, <2>1, <2>2, <2>3
             DEF Release, At, On, Goto, hw, Of, Chosen, Programmed, Busy, Pwm
<1>20. CASE Refused(u)
  <2>1. CASE call[u].op \notin Pwm
    <3>1. Fail(u)
      BY <1>20, <2>1 DEF Refused
    <3> QED BY <1>f, <2>1, <3>1 DEF hw, rec, Of, Chosen, Programmed, Busy
  <2>2. CASE call[u].op \in Pwm
    BY <1>1, <1>3, <1>5, <1>20, <2>2
       DEF Refused, At, On, Goto, hw, rec, hist, Of, Chosen, Programmed, Busy
  <2> QED BY <2>1, <2>2
<1> QED
  BY <1>10, <1>11, <1>12, <1>13, <1>14, <1>15, <1>16, <1>17, <1>18, <1>19, <1>20 DEF Inside

LEMMA ElsewhereKeeps ==
    ASSUME Typed, Apart, NEW u \in Users, Inside(u), NEW p \in Pins \ clash, call[u].pin # p, Kept(p)
    PROVE  Kept(p)'
<1>1. /\ flags'[p] = flags[p] /\ drv'[p] = drv[p] /\ sig'[p] = sig[p] /\ mat'[p] = mat[p]
      /\ last'[p] = last[p] /\ Of(p)' = Of(p)
  BY Elsewhere DEF Kept
<1>2. \A c \in Of(p) : chan'[c] = chan[c] /\ (c \in led => c \in led')
  BY Elsewhere DEF Kept
<1>3. /\ \A v \in Users \ {u} : call'[v] = call[v] /\ pc'[v] = pc[v]
      /\ Busy(u) /\ (Busy(u)' => call'[u].pin = call[u].pin)
  BY OneCall, OwnCall DEF Busy
<1>4. \A v \in Users : About(v, p) <=> About(v, p)'
  BY <1>3 DEF About, Busy
<1>5. \A v \in Users : About(v, p) => v # u /\ call'[v] = call[v] /\ pc'[v] = pc[v]
  BY <1>3 DEF About
<1>6. \A v \in Users \ {u} : (Chosen(v)' <=> Chosen(v)) /\ (Programmed(v)' <=> Programmed(v))
  BY <1>3 DEF Chosen, Programmed, Busy
<1>7. Settled(p)' => Settled(p)
  BY <1>4, <1>5 DEF Settled, Untouched
<1>8. FlagsFollow(p)'
  BY <1>1, <1>4, <1>5 DEF FlagsFollow, Kept, Wanted
<1>9. OneChannel(p)'
  BY <1>1 DEF OneChannel, Kept
<1>10. OwnChannel(p)'
  <2>1. Chosen(u)' => call'[u].ch \notin Of(p)
    BY Elsewhere DEF Kept
  <2>2. OwnChannel(p)
    BY DEF Kept
  <2> QED BY <1>1, <1>3, <1>6, <2>1, <2>2 DEF OwnChannel
<1>11. InSet(p)'
  <2>1. \A v \in Users : About(v, p) /\ Chosen(v) => UNCHANGED <<tim, led, chan>>
    <3> SUFFICES ASSUME NEW v \in Users, About(v, p), Chosen(v) PROVE UNCHANGED <<tim, led, chan>>
      OBVIOUS
    <3>1. v # u /\ Busy(v) /\ call[v].pin = p /\ call[v].op \in Pwm
      BY <1>5 DEF About, Chosen
    <3>2. call[u].op \notin Pwm
      BY <1>3, <3>1, Alone
    <3> QED BY <3>2, Elsewhere DEF Kept
  <2> QED BY <1>1, <1>4, <1>5, <1>6, <2>1 DEF InSet, Kept
<1>12. InStop(p)'
  BY <1>1, <1>4, <1>5, <1>6 DEF InStop, Kept
<1>13. AsSet(p)'
  <2> SUFFICES ASSUME Settled(p)', last'[p] = "set" PROVE AsSet(p)'
    BY DEF AsSet
  <2>1. PICK c \in Channels :
          /\ Of(p) = {c} /\ mat[p] = c /\ c \in led
          /\ latest[c % NTimers] = p
             /\ (\A v \in Users : Programmed(v) => call[v].ch % NTimers # c % NTimers)
               => tim[c % NTimers] = chan[c].freq
    BY <1>1, <1>7 DEF AsSet, Kept
  <2> DEFINE k == c % NTimers
  <2>2. k \in Timers
    BY TimerOf
  <2>3. ASSUME latest'[k] = p, \A v \in Users : Programmed(v)' => call'[v].ch % NTimers # k
        PROVE  tim'[k] = chan'[c].freq
    <3>1. latest[k] = p /\ tim'[k] = tim[k]
      BY <2>2, <2>3, Elsewhere DEF Kept
    <3>2. \A v \in Users : Programmed(v) => call[v].ch % NTimers # k
      <4>1. Programmed(u) => call[u].ch % NTimers # k
        BY <2>3, Elsewhere DEF Kept
      <4> QED BY <1>3, <1>6, <2>3, <4>1
    <3> QED BY <1>2, <2>1, <3>1, <3>2
  <2>4. Of(p)' = {c} /\ mat'[p] = c /\ c \in led'
    BY <1>1, <1>2, <2>1
  <2> QED BY <2>3, <2>4 DEF AsSet
<1>14. AsStopped(p)' /\ Routed(p)'
  BY <1>1, <1>7 DEF AsStopped, Routed, Kept
<1> QED BY <1>8, <1>9, <1>10, <1>11, <1>12, <1>13, <1>14 DEF Kept

-----------------------------------------------------------------------------
(* The pin of the call, step by step. *)

LEMMA HereKeeps ==
    ASSUME Typed, Apart, NEW u \in Users, Inside(u), NEW p \in Pins \ clash, call[u].pin = p, Kept(p)
    PROVE  Kept(p)'
<1>1. call[u] \in CallType /\ Fits(call[u], pc[u]) /\ Busy(u) /\ TypeOK
  BY OwnCall DEF Typed, CallsTyped, Busy
<1>2. call[u].ch \in Channels /\ call[u].ch % NTimers \in Timers
  BY <1>1, TimerOf DEF CallType
<1>3. /\ \A v \in Users \ {u} : call'[v] = call[v] /\ pc'[v] = pc[v]
      /\ (Busy(u)' => call'[u].pin = p /\ call'[u].op = call[u].op /\ call'[u].arg = call[u].arg)
  BY OneCall DEF Busy
<1>4. \A v \in Users \ {u} : ~About(v, p) /\ ~About(v, p)'
  BY <1>1, <1>3, Alone DEF About, Busy
<1>5. call[u].op \in Pwm => \A v \in Users \ {u} : ~Chosen(v) /\ ~Chosen(v)'
  BY <1>1, <1>3, Alone DEF Chosen, Busy
<1>6. \A v \in Users \ {u} : Chosen(v)' <=> Chosen(v)
  BY <1>3 DEF Chosen, Busy
<1>7. pc \in [Users -> Steps] /\ call \in [Users -> CallType]
      /\ DOMAIN flags = Pins /\ DOMAIN drv = Pins /\ DOMAIN sig = Pins /\ DOMAIN mat = Pins
      /\ DOMAIN last = Pins /\ DOMAIN chan = Channels /\ DOMAIN tim = Timers /\ DOMAIN latest = Timers
  BY <1>1 DEF TypeOK, Typed, CallsTyped
\* In the middle of the call nothing is claimed of a settled pin; the rest is
\* about this call alone.
<1>8. ASSUME pc'[u] \notin {"idle", "search", "off"}, pc'[u] = "configure" => call[u].op \in Pwm,
             pc'[u] # "remember" => flags'[p] = drv'[p],
             pc'[u] = "remember" => drv'[p] = Wanted(call'[u]),
             OneChannel(p)', OwnChannel(p)',
             call[u].op = "set" =>
               /\ Of(p)' \subseteq {call'[u].ch}
               /\ pc'[u] # "timer" => tim'[call'[u].ch % NTimers] = call'[u].arg
               /\ pc'[u] \notin {"timer", "channel"} => call'[u].ch \in led'
               /\ pc'[u] = "record" => mat'[p] = call'[u].ch,
             call[u].op = "stop" =>
               /\ Of(p)' \subseteq {call'[u].ch}
               /\ pc'[u] # "connect" => mat'[p] = GPIO /\ sig'[p] = GPIO
      PROVE  Kept(p)'
  <2>1. About(u, p)' /\ call'[u].op = call[u].op
    BY <1>3, <1>8 DEF About, Busy
  <2>2. ~Settled(p)'
    BY <1>8, <2>1 DEF Settled, Untouched
  <2>3. FlagsFollow(p)'
    BY <1>4, <1>8, <2>1 DEF FlagsFollow
  <2>4. InSet(p)' /\ InStop(p)'
    BY <1>4, <1>8, <2>1 DEF InSet, InStop
  <2> QED BY <1>8, <2>2, <2>3, <2>4 DEF Kept, AsSet, AsStopped, Routed
\* When the call is over the pin is settled.
<1>9. ASSUME pc'[u] = "idle", flags'[p] = drv'[p], OneChannel(p)', OwnChannel(p)',
             AsSet(p)', AsStopped(p)', Routed(p)'
      PROVE  Kept(p)'
  <2>1. \A v \in Users : ~About(v, p)'
    BY <1>4, <1>9 DEF About, Busy
  <2> QED BY <1>9, <2>1 DEF Kept, FlagsFollow, InSet, InStop
\* What the step finds.
<1>10. /\ pc[u] # "remember" => flags[p] = drv[p]
       /\ pc[u] = "remember" => drv[p] = Wanted(call[u])
       /\ OneChannel(p) /\ OwnChannel(p) /\ AsSet(p) /\ AsStopped(p) /\ Routed(p)
  BY <1>1, <1>4 DEF Kept, FlagsFollow, About
<1>11. pc[u] \notin {"search", "off"} /\ call[u].op = "set" =>
         /\ Of(p) \subseteq {call[u].ch}
         /\ pc[u] # "timer" => tim[call[u].ch % NTimers] = call[u].arg
         /\ pc[u] \notin {"timer", "channel"} => call[u].ch \in led
         /\ pc[u] = "record" => mat[p] = call[u].ch
  BY <1>1 DEF Kept, InSet, About, Chosen, Pwm
<1>12. pc[u] \notin {"search", "off"} /\ call[u].op = "stop" =>
         /\ Of(p) \subseteq {call[u].ch}
         /\ pc[u] # "connect" => mat[p] = GPIO /\ sig[p] = GPIO
  BY <1>1 DEF Kept, InStop, About, Chosen, Pwm
<1>o. ASSUME Of(p)' = Of(p) PROVE OneChannel(p)' /\ OwnChannel(p)'
  <2>1. \A v \in Users : Chosen(v)' /\ call'[v].pin # p => Chosen(v) /\ call'[v] = call[v]
    BY <1>3, <1>6 DEF Chosen
  <2> QED BY <1>10, <1>o, <2>1 DEF OneChannel, OwnChannel
\* An error return leaves the pin as it was.
<1>13. ASSUME Fail(u), Untouched(u) PROVE Kept(p)'
  <2>1. pc'[u] = "idle" /\ UNCHANGED <<drv, mat, tim, led, flags, sig, chan, last, latest>>
    BY <1>7, <1>13 DEF Fail, On, Goto, hw, rec, hist
  <2>2. Of(p)' = Of(p) /\ Settled(p)
    BY <1>4, <1>13, <2>1 DEF Of, Settled
  <2>3. \A v \in Users : Chosen(v)' => v # u /\ Chosen(v) /\ call'[v] = call[v]
    BY <1>3, <1>6, <2>1 DEF Chosen, Busy
  <2>4. \A v \in Users : Programmed(v) => v # u /\ Programmed(v)' /\ call'[v] = call[v]
    BY <1>3, <1>6, <1>13 DEF Programmed, Chosen, Untouched
  <2>5. OneChannel(p)' /\ OwnChannel(p)'
    BY <1>10, <2>2, <2>3 DEF OneChannel, OwnChannel
  <2>6. AsSet(p)'
    <3> SUFFICES ASSUME Settled(p)', last'[p] = "set" PROVE AsSet(p)'
      BY DEF AsSet
    <3>1. PICK c \in Channels :
            /\ Of(p) = {c} /\ mat[p] = c /\ c \in led
            /\ latest[c % NTimers] = p
               /\ (\A v \in Users : Programmed(v) => call[v].ch % NTimers # c % NTimers)
                 => tim[c % NTimers] = chan[c].freq
      BY <1>10, <2>1, <2>2 DEF AsSet
    <3>2. (\A v \in Users : Programmed(v)' => call'[v].ch % NTimers # c % NTimers)
            => \A v \in Users : Programmed(v) => call[v].ch % NTimers # c % NTimers
      BY <2>4
    <3> QED BY <2>1, <2>2, <3>1, <3>2 DEF AsSet
  <2>7. AsStopped(p)' /\ Routed(p)'
    BY <1>10, <2>1, <2>2 DEF AsStopped, Routed
  <2> QED BY <1>9, <1>10, <1>13, <2>1, <2>5, <2>6, <2>7 DEF Untouched
<1>14. ASSUME Finish(u) PROVE pc'[u] = "idle" /\ last' = IF call[u].op \in {"set", "stop", "route", "detach", "config"}
                                                      THEN [last EXCEPT ![p] = call[u].op] ELSE last
  BY <1>7, <1>14 DEF Finish, On, Goto
<1>15. CASE Configure(u)
  <2>1. /\ drv'[p] = Wanted(call[u]) /\ pc[u] = "configure" /\ pc'[u] = "remember"
        /\ UNCHANGED <<tim, led, flags, sig, chan, call>>
        /\ call[u].op = "stop" => mat' = mat \/ mat'[p] = GPIO
    BY <1>7, <1>15 DEF Configure, At, On, Goto, rec
  <2>2. Of(p)' = Of(p) /\ call' = call
    BY <2>1 DEF Of
  <2>3. OneChannel(p)' /\ OwnChannel(p)'
    BY <1>o, <2>2
  <2> QED BY <1>8, <1>11, <1>12, <2>1, <2>2, <2>3
<1>16. CASE Remember(u)
  <2>1. /\ flags'[p] = Wanted(call[u]) /\ pc[u] = "remember"
        /\ UNCHANGED <<drv, mat, tim, led, sig, chan>>
    BY <1>7, <1>16 DEF Remember, At, hw
  <2>2. flags'[p] = drv'[p] /\ Of(p)' = Of(p)
    BY <1>10, <2>1 DEF Of
  <2>3. OneChannel(p)' /\ OwnChannel(p)'
    BY <1>o, <2>2
  <2>4. CASE call[u].op \in Pwm
    <3>1. call' = call /\ pc'[u] = IF call[u].op = "set" THEN "route" ELSE "release"
      BY <1>7, <1>16, <2>4 DEF Remember, On, Goto, Pwm
    <3> QED BY <1>8, <1>11, <1>12, <2>1, <2>2, <2>3, <2>4, <3>1 DEF Pwm
  <2>5. CASE call[u].op \notin Pwm
    <3>1. call[u].op = "config" /\ Finish(u)
      BY <1>1, <1>16, <2>1, <2>5 DEF Remember, Fits, Pwm
    <3>2. last'[p] = "config" /\ pc'[u] = "idle"
      BY <1>7, <1>14, <3>1
    <3> QED BY <1>9, <2>2, <2>3, <3>2 DEF AsSet, AsStopped, Routed
  <2> QED BY <2>4, <2>5
<1>17. CASE Connect(u)
  <2>1. /\ pc[u] = "connect" /\ UNCHANGED <<drv, tim, led, flags, chan>> /\ mat'[p] = sig'[p]
        /\ call[u].op = "stop" => mat'[p] = GPIO
    BY <1>7, <1>17 DEF Connect, At
  <2>2. flags'[p] = drv'[p] /\ Of(p)' = Of(p)
    BY <1>10, <2>1 DEF Of
  <2>3. OneChannel(p)' /\ OwnChannel(p)'
    BY <1>o, <2>2
  <2>4. CASE call[u].op = "stop"
    <3>1. call' = call /\ pc'[u] = "configure"
      BY <1>7, <1>17, <2>4 DEF Connect, On, Goto
    <3> QED BY <1>8, <1>12, <2>1, <2>2, <2>3, <2>4, <3>1 DEF Pwm
  <2>5. CASE call[u].op # "stop"
    <3>1. call[u].op \in {"route", "detach"} /\ Finish(u)
      BY <1>1, <1>17, <2>1, <2>5 DEF Connect, Fits
    <3>2. last'[p] = call[u].op /\ pc'[u] = "idle"
      BY <1>7, <1>14, <3>1
    <3> QED BY <1>9, <2>1, <2>2, <2>3, <3>1, <3>2 DEF AsSet, AsStopped, Routed
  <2> QED BY <2>4, <2>5
<1>18. CASE Search(u)
  <2>1. CASE Fail(u)
    BY <1>13, <1>18, <2>1 DEF Search, At, Untouched
  <2>2. CASE ~Fail(u)
    <3> DEFINE S == IF Of(p) # {} THEN Of(p) ELSE Idle
    <3>1. /\ S # {} /\ call' = [call EXCEPT ![u].ch = Least(S)] /\ pc[u] = "search" /\ pc'[u] = "timer"
          /\ UNCHANGED <<drv, mat, tim, led, flags, sig, chan>>
      BY <1>7, <1>18, <2>2 DEF Search, At, On, Goto, hw, rec
    <3>2. Least(S) \in S /\ call'[u].ch = Least(S)
      BY <1>1, <1>7, <3>1, LeastOf DEF Of, Idle, CallType
    <3>3. Of(p)' = Of(p) /\ Of(p) \subseteq {call'[u].ch}
      BY <1>10, <3>1, <3>2 DEF Of, OneChannel
    <3>4. OneChannel(p)' /\ OwnChannel(p)'
      BY <1>o, <3>3
    <3>5. call[u].op = "set"
      BY <1>1, <3>1 DEF Fits
    <3> QED BY <1>8, <1>10, <3>1, <3>3, <3>4, <3>5
  <2> QED BY <2>1, <2>2
<1>21. CASE ProgramTimer(u)
  <2>1. /\ pc[u] = "timer" /\ pc'[u] = "channel" /\ UNCHANGED <<drv, mat, led, flags, sig, chan, call>>
        /\ tim'[call[u].ch % NTimers] = call[u].arg /\ call[u].op = "set"
    BY <1>1, <1>2, <1>7, <1>21 DEF ProgramTimer, At, On, Goto, rec, Fits
  <2>2. Of(p)' = Of(p) /\ call' = call
    BY <2>1 DEF Of
  <2>3. OneChannel(p)' /\ OwnChannel(p)'
    BY <1>o, <2>2
  <2> QED BY <1>8, <1>10, <1>11, <2>1, <2>2, <2>3
<1>22. CASE ProgramChannel(u)
  <2>1. /\ pc[u] = "channel" /\ pc'[u] = "configure" /\ UNCHANGED <<drv, mat, tim, flags, sig, chan, call>>
        /\ led' = led \cup {call[u].ch} /\ call[u].op = "set"
    BY <1>1, <1>7, <1>22 DEF ProgramChannel, At, On, Goto, rec, Fits
  <2>2. Of(p)' = Of(p) /\ call' = call
    BY <2>1 DEF Of
  <2>3. OneChannel(p)' /\ OwnChannel(p)'
    BY <1>o, <2>2
  <2> QED BY <1>8, <1>10, <1>11, <2>1, <2>2, <2>3 DEF Pwm
<1>23. CASE RouteChannel(u)
  <2>1. /\ pc[u] = "route" /\ pc'[u] = "record" /\ UNCHANGED <<drv, tim, led, flags, sig, chan, call>>
        /\ mat'[p] = call[u].ch /\ call[u].op = "set"
    BY <1>1, <1>7, <1>23 DEF RouteChannel, At, On, Goto, rec, Fits
  <2>2. Of(p)' = Of(p) /\ call' = call
    BY <2>1 DEF Of
  <2>3. OneChannel(p)' /\ OwnChannel(p)'
    BY <1>o, <2>2
  <2> QED BY <1>8, <1>10, <1>11, <2>1, <2>2, <2>3
<1>24. CASE Record(u)
  <2> DEFINE c == call[u].ch
  <2>1. /\ pc[u] = "record" /\ UNCHANGED <<drv, mat, tim, led, flags, sig>> /\ Finish(u) /\ call[u].op = "set"
        /\ chan'[c].active /\ chan'[c].pin = p /\ chan'[c].freq = call[u].arg
        /\ \A d \in Channels \ {c} : chan'[d] = chan[d]
    BY <1>1, <1>2, <1>7, <1>24 DEF Record, At, hw, Fits
  <2>2. Of(p)' = {c} /\ mat'[p] = c /\ c \in led' /\ tim'[c % NTimers] = chan'[c].freq
    BY <1>2, <1>11, <2>1 DEF Of
  <2>3. pc'[u] = "idle" /\ last'[p] = "set" /\ flags'[p] = drv'[p]
    BY <1>7, <1>10, <1>14, <2>1
  <2>4. OneChannel(p)' /\ OwnChannel(p)'
    BY <1>5, <2>1, <2>2, <2>3 DEF OneChannel, OwnChannel, Chosen, Busy, Pwm
  <2>5. AsSet(p)' /\ AsStopped(p)' /\ Routed(p)'
    BY <1>2, <2>2, <2>3 DEF AsSet, AsStopped, Routed
  <2> QED BY <1>9, <2>3, <2>4, <2>5
<1>25. CASE SwitchOff(u)
  <2>1. CASE Fail(u)
    BY <1>13, <1>25, <2>1 DEF SwitchOff, At, Untouched
  <2>2. CASE ~Fail(u)
    <3>1. /\ Of(p) # {} /\ call' = [call EXCEPT ![u].ch = Least(Of(p))] /\ pc[u] = "off" /\ pc'[u] = "connect"
          /\ UNCHANGED <<drv, mat, tim, flags, sig, chan>>
      BY <1>7, <1>25, <2>2 DEF SwitchOff, At, On, Goto, rec
    <3>2. Least(Of(p)) \in Of(p) /\ call'[u].ch = Least(Of(p))
      BY <1>1, <1>7, <3>1, LeastOf DEF Of, CallType
    <3>3. Of(p)' = Of(p) /\ Of(p) \subseteq {call'[u].ch}
      BY <1>10, <3>1, <3>2 DEF Of, OneChannel
    <3>4. OneChannel(p)' /\ OwnChannel(p)'
      BY <1>o, <3>3
    <3>5. call[u].op = "stop"
      BY <1>1, <3>1 DEF Fits
    <3> QED BY <1>8, <1>10, <3>1, <3>3, <3>4, <3>5
  <2> QED BY <2>1, <2>2
<1>26. CASE Release(u)
  <2> DEFINE c == call[u].ch
  <2>1. /\ pc[u] = "release" /\ UNCHANGED <<drv, mat, tim, led, flags, sig>> /\ Finish(u) /\ call[u].op = "stop"
        /\ ~chan'[c].active /\ \A d \in Channels \ {c} : chan'[d] = chan[d]
    BY <1>1, <1>2, <1>7, <1>26 DEF Release, At, hw, Fits, Free
  <2>2. Of(p)' = {} /\ mat'[p] = GPIO /\ sig'[p] = GPIO
    BY <1>12, <2>1 DEF Of
  <2>3. pc'[u] = "idle" /\ last'[p] = "stop" /\ flags'[p] = drv'[p]
    BY <1>7, <1>10, <1>14, <2>1
  <2>4. OneChannel(p)' /\ OwnChannel(p)'
    BY <2>2 DEF OneChannel, OwnChannel
  <2>5. AsSet(p)' /\ AsStopped(p)' /\ Routed(p)'
    BY <2>2, <2>3 DEF AsSet, AsStopped, Routed
  <2> QED BY <1>9, <2>3, <2>4, <2>5
<1>27. CASE Refused(u)
  <2>1. pc[u] = "configure"
    BY <1>27 DEF Refused, At
  <2>2. CASE call[u].op \in Pwm
    <3>1. /\ UNCHANGED <<drv, mat, tim, led, flags, sig, chan, call>>
          /\ pc'[u] = IF call[u].op = "set" THEN "route" ELSE "release"
      BY <1>7, <1>27, <2>2 DEF Refused, On, Goto, hw, rec
    <3>2. Of(p)' = Of(p) /\ call' = call /\ flags'[p] = drv'[p]
      BY <1>10, <2>1, <3>1 DEF Of
    <3>3. OneChannel(p)' /\ OwnChannel(p)'
      BY <1>o, <3>2
    <3> QED BY <1>8, <1>11, <1>12, <2>1, <2>2, <3>1, <3>2, <3>3 DEF Pwm
  <2>3. CASE call[u].op \notin Pwm
    BY <1>13, <1>27, <2>1, <2>3 DEF Refused, Untouched
  <2> QED BY <2>2, <2>3
<1> QED
  BY <1>15, <1>16, <1>17, <1>18, <1>21, <1>22, <1>23, <1>24, <1>25, <1>26, <1>27 DEF Inside

-----------------------------------------------------------------------------
(* The theorems. *)

LEMMA Initially == Init => IInv
<1> SUFFICES ASSUME Init PROVE IInv
  OBVIOUS
<1>1. \A u \in Users : pc[u] = "idle"
  BY DEF Init
<1>2. \A p : Of(p) = {}
  BY DEF Init, Of, Free
<1>3. \A p \in Pins : flags[p] = drv[p] /\ sig[p] = mat[p] /\ last[p] = "none"
  BY DEF Init
<1>4. \A u \in Users : ~Busy(u) /\ ~Chosen(u) /\ \A p : ~About(u, p)
  BY <1>1 DEF Busy, Chosen, About
<1>5. \A p \in Pins : Kept(p)
  BY <1>2, <1>3, <1>4
     DEF Kept, FlagsFollow, OneChannel, OwnChannel, InSet, InStop, AsSet, AsStopped, Routed
<1>6. Apart
  BY <1>4 DEF Apart
<1> QED BY <1>5, <1>6, TypedInit DEF IInv, Typed

LEMMA Preserved == IInv /\ [Next]_vars => IInv'
<1> SUFFICES ASSUME IInv, [Next]_vars PROVE IInv'
  OBVIOUS
<1>1. Typed /\ Apart /\ Typed' /\ Apart' /\ clash \subseteq clash'
  BY TypedNext, ApartNext DEF IInv, Typed
<1>2. ASSUME NEW p \in Pins \ clash' PROVE Kept(p)'
  <2>1. p \notin clash /\ Kept(p)
    BY <1>1, <1>2 DEF IInv
  <2>2. CASE UNCHANGED vars
    BY <2>1, <2>2
       DEF vars, hw, rec, hist, Kept, FlagsFollow, OneChannel, OwnChannel, InSet, InStop, AsSet, AsStopped,
           Routed, Settled, Untouched, About, Busy, Chosen, Programmed, Of, Wanted
  <2>3. ASSUME NEW u \in Users, Begins(u) PROVE Kept(p)'
    BY <1>1, <2>1, <2>3, BeginKeeps
  <2>4. ASSUME NEW u \in Users, Inside(u) PROVE Kept(p)'
    BY <1>1, <2>1, <2>4, ElsewhereKeeps, HereKeeps
  <2> QED BY <1>1, <2>2, <2>3, <2>4, StepIsOfUser DEF Typed
<1> QED BY <1>1, <1>2 DEF IInv, Typed

\* The inductive invariant, of every behaviour of the pins.
THEOREM Inductive == Spec => []IInv
BY Initially, Preserved, PTL DEF Spec

\* For any threads, pins, channels and timers: between calls, the pins whose
\* calls never overlapped are as hw_pwm_set and hw_pwm_stop left them, whatever
\* was done to other pins and in whatever order the calls were cut in two.
THEOREM PwmProved == Spec => []PwmAsOnRecord
<1>1. IInv => PwmAsOnRecord
  <2> SUFFICES ASSUME IInv, Quiet, NEW p \in Pins \ clash
      PROVE  /\ last[p] = "set" =>
                  \E c \in Channels :
                    /\ Of(p) = {c} /\ mat[p] = c /\ c \in led
                    /\ latest[c % NTimers] = p => tim[c % NTimers] = chan[c].freq
             /\ last[p] = "stop" => Of(p) = {} /\ mat[p] = GPIO
    BY DEF PwmAsOnRecord
  <2>1. AsSet(p) /\ AsStopped(p)
    BY DEF IInv, Kept
  <2>2. Settled(p) /\ \A u \in Users : ~Programmed(u)
    BY DEF Quiet, Settled, About, Busy, Programmed, Chosen
  <2> QED BY <2>1, <2>2 DEF AsSet, AsStopped
<1> QED BY <1>1, Inductive, PTL

\* Between calls the flags on record are those of the driver, and the signal on
\* record is the one the matrix connects, on every pin whose calls never overlapped.
THEOREM RecordsProved == Spec => []RecordsTrue
<1>1. IInv => RecordsTrue
  BY DEF IInv, Kept, RecordsTrue, Quiet, FlagsFollow, Routed, Settled, About, Busy
<1> QED BY <1>1, Inductive, PTL

=============================================================================
