-------------------------------- MODULE Pins --------------------------------
(***************************************************************************)
(* The pins as scripts, shell and web server share them: hw_gpio.c (driver *)
(* flags and the record of them, GPIO matrix) and hw_pwm.c (eight LEDC     *)
(* channels on four timers).  None of the functions takes a lock.  A call  *)
(* never blocks, so a thread that preempts another in the middle of a call *)
(* finishes its own call before the other goes on: calls nest by priority. *)
(*                                                                         *)
(* Pins are pins that hw_gpio_check_safety lets through; levels, drive     *)
(* strength and input signals are left out.                                *)
(***************************************************************************)
EXTENDS Integers, FiniteSets

CONSTANTS
    Shells, Scripts, Webs,  \* the threads that call: priorities, larger is more urgent
    Pins,
    NChannels,  \* HW_PWM_MAX_CHANNELS, 8 in the code
    NTimers,    \* 4 in the code
    Freqs,      \* frequencies asked for
    GPIO,       \* SIG_GPIO_OUT_IDX: the pin's own output register
    Signals,    \* other output signals of the matrix
    MaxCalls,   \* bound on the calls made
    None

Users == Shells \cup Scripts \cup Webs

ASSUME UsersAssumption == Users \subseteq Nat
ASSUME ChannelsAssumption == NChannels \in Nat \ {0} /\ NTimers \in Nat \ {0}
ASSUME CallsAssumption == MaxCalls \in Nat

Channels == 0 .. NChannels - 1
Timers == 0 .. NTimers - 1

\* gpio_flags_t, as far as the code tells flags apart.
Disconnected == {}
Input == {"in"}
InputPullUp == {"in", "up"}
Output == {"in", "out"}
OutputPullUp == {"in", "out", "up"}
Flags == {Disconnected, Input, InputPullUp, Output, OutputPullUp}

VARIABLES
    flags,     \* s_pin_flags
    drv,       \* what the GPIO driver has configured
    sig,       \* s_pin_out_sig
    mat,       \* the signal the matrix connects to the pin's output: GPIO,
               \* a signal or an LEDC channel
    chan,      \* s_channels
    tim,       \* LEDC timers: the frequency each is programmed to
    led,       \* LEDC channels whose output is enabled
    pc, call,  \* per user: the next step of its call, and the call
    made,      \* calls made so far
    last,      \* history: the last call that decided on a pin's routing
    latest,    \* history: the pin for which a timer was programmed last
    clash      \* history: pins whose calls overlapped

hw == <<drv, mat, tim, led>>
rec == <<flags, sig, chan>>
hist == <<last, latest, clash>>
vars == <<hw, rec, pc, call, made, hist>>

Free == [pin |-> None, freq |-> 0, active |-> FALSE]
NoCall == [op |-> "none", pin |-> None, arg |-> None, ch |-> 0]

\* (hw_gpio_init fills the records; the pins start disconnected)
Init ==
    /\ flags = [p \in Pins |-> Disconnected] /\ drv = flags
    /\ sig = [p \in Pins |-> GPIO] /\ mat = sig
    /\ chan = [c \in Channels |-> Free]
    /\ tim = [t \in Timers |-> 0] /\ led = {}
    /\ pc = [u \in Users |-> "idle"] /\ call = [u \in Users |-> NoCall]
    /\ made = 0
    /\ last = [p \in Pins |-> "none"] /\ latest = [t \in Timers |-> None]
    /\ clash = {}

Quiet == \A u \in Users : pc[u] = "idle"

\* A user gets the processor when no more urgent one is inside a call.
Scheduled(u) == \A v \in Users : v > u => pc[v] = "idle"

\* Two calls clash when one begins inside the other and both are about one pin,
\* or both look for or give back a channel.
Pwm == {"set", "stop"}
Clashes(a, b) == a.pin = b.pin \/ (a.op \in Pwm /\ b.op \in Pwm)

At(u, step) == Scheduled(u) /\ pc[u] = step
Goto(u, step) == pc' = [pc EXCEPT ![u] = step]
On(u, step) == Goto(u, step) /\ made' = made

\* The call is over; what it decided about the pin's routing is remembered.
Finish(u) ==
    /\ On(u, "idle")
    /\ call' = [call EXCEPT ![u] = NoCall]
    /\ LET c == call[u] IN
       last' = IF c.op \in {"set", "stop", "route", "detach", "config"}
               THEN [last EXCEPT ![c.pin] = c.op] ELSE last

\* An error return that has changed nothing.
Fail(u) ==
    /\ On(u, "idle") /\ call' = [call EXCEPT ![u] = NoCall]
    /\ UNCHANGED <<hw, rec, hist>>

-----------------------------------------------------------------------------
(* hw_gpio.c *)

Begin(u, op, p, arg, step) ==
    /\ At(u, "idle") /\ made < MaxCalls
    /\ made' = made + 1 /\ Goto(u, step)
    /\ call' = [call EXCEPT ![u] = [op |-> op, pin |-> p, arg |-> arg, ch |-> 0]]
    /\ LET others == {v \in Users \ {u} : pc[v] # "idle" /\ Clashes(call[v], call'[u])} IN
       clash' = clash \cup (IF others = {} THEN {} ELSE {p} \cup {call[v].pin : v \in others})
    /\ UNCHANGED <<hw, rec, last, latest>>

\* gpio.mode, gpio.tristate: new flags for the pin.
Mode(u) == \E p \in Pins, f \in Flags : Begin(u, "config", p, f, "configure")

\* gpio.pull: the flags on record, with another pull; a disconnected pin is made an input.
WithPull(f) == (IF f = Disconnected THEN Input ELSE f) \cup {"up"}
Pull(u) ==
    \E p \in Pins : Begin(u, "config", p, WithPull(flags[p]), "configure")

\* gpio.write, high, low, toggle and read make a pin an output (an input) first,
\* when the record says that it is none.
Write(u) ==
    \E p \in Pins : /\ "out" \notin flags[p]
                    /\ Begin(u, "config", p, Output, "configure")
Read(u) ==
    \E p \in Pins : /\ "in" \notin flags[p]
                    /\ Begin(u, "config", p, Input, "configure")

\* The flags a call configures: hw_pwm_set makes its pin an output, hw_pwm_stop
\* disconnects it.
Wanted(c) ==
    CASE c.op = "set" -> Output
      [] c.op = "stop" -> Disconnected
      [] OTHER -> c.arg

\* gpio_pin_configure; the driver may connect a pin made an output to its own
\* output register.
Configure(u) ==
    /\ At(u, "configure")
    /\ LET c == call[u]
       IN /\ drv' = [drv EXCEPT ![c.pin] = Wanted(c)]
          /\ mat' \in {mat} \cup (IF "out" \in Wanted(c) THEN {[mat EXCEPT ![c.pin] = GPIO]} ELSE {})
    /\ On(u, "remember")
    /\ UNCHANGED <<tim, led, rec, call, hist>>

\* The driver refuses the flags before it touches the pin: hw_gpio_mode, pull and
\* tristate return without taking note; hw_pwm_set and hw_pwm_stop go on all the same.
Refused(u) ==
    /\ At(u, "configure")
    /\ LET op == call[u].op IN
       IF op \in Pwm
       THEN /\ On(u, IF op = "set" THEN "route" ELSE "release")
            /\ UNCHANGED <<hw, rec, call, hist>>
       ELSE Fail(u)

\* (mutant of Remember: hw_gpio_tristate does not take note of what it did)
RememberModes(u) ==
    /\ At(u, "remember")
    /\ LET c == call[u] IN
       /\ flags' = IF Wanted(c) = Disconnected THEN flags
                   ELSE [flags EXCEPT ![c.pin] = Wanted(c)]
       /\ CASE c.op = "set" -> On(u, "route") /\ UNCHANGED <<call, last>>
            [] c.op = "stop" -> On(u, "release") /\ UNCHANGED <<call, last>>
            [] OTHER -> Finish(u)
    /\ UNCHANGED <<hw, sig, chan, latest, clash>>

\* s_pin_flags[pin] = flags
Remember(u) ==
    /\ At(u, "remember")
    /\ LET c == call[u] IN
       /\ flags' = [flags EXCEPT ![c.pin] = Wanted(c)]
       /\ CASE c.op = "set" -> On(u, "route") /\ UNCHANGED <<call, last>>
            [] c.op = "stop" -> On(u, "release") /\ UNCHANGED <<call, last>>
            [] OTHER -> Finish(u)
    /\ UNCHANGED <<hw, sig, chan, latest, clash>>

\* matrix.route_out
RouteOut(u) == \E p \in Pins, s \in Signals : Begin(u, "route", p, s, "connect")
\* matrix.detach
Detach(u) == \E p \in Pins : Begin(u, "detach", p, GPIO, "connect")

\* esp_rom_gpio_connect_out_signal, and the record of it
Connect(u) ==
    /\ At(u, "connect")
    /\ LET c == call[u]
           s == IF c.op = "route" THEN c.arg ELSE GPIO
       IN /\ mat' = [mat EXCEPT ![c.pin] = s]
          /\ sig' = [sig EXCEPT ![c.pin] = s]
    /\ IF call[u].op = "stop" THEN On(u, "configure") /\ UNCHANGED <<call, last>>
                              ELSE Finish(u)
    /\ UNCHANGED <<drv, tim, led, flags, chan, latest, clash>>

-----------------------------------------------------------------------------
(* hw_pwm.c *)

Least(S) == CHOOSE c \in S : \A d \in S : c <= d
Of(p) == {c \in Channels : chan[c].active /\ chan[c].pin = p}
Idle == {c \in Channels : ~chan[c].active}

PwmSet(u) == \E p \in Pins, f \in Freqs : Begin(u, "set", p, f, "search")

\* (mutant of Search: a pin is given a new channel even when it has one)
SearchAnew(u) ==
    /\ At(u, "search")
    /\ IF Idle = {} THEN Fail(u)
       ELSE /\ call' = [call EXCEPT ![u].ch = Least(Idle)]
            /\ On(u, "timer")
            /\ UNCHANGED <<hw, rec, hist>>

\* The pin's own channel, or else the first that is not active, or -EBUSY.
Search(u) ==
    /\ At(u, "search")
    /\ LET p == call[u].pin
           choice == IF Of(p) # {} THEN Of(p) ELSE Idle
       IN IF choice = {} THEN Fail(u)
          ELSE /\ call' = [call EXCEPT ![u].ch = Least(choice)]
               /\ On(u, "timer")
               /\ UNCHANGED <<hw, rec, hist>>

ProgramTimer(u) ==
    /\ At(u, "timer")
    /\ tim' = [tim EXCEPT ![call[u].ch % NTimers] = call[u].arg]
    /\ On(u, "channel")
    /\ UNCHANGED <<drv, mat, led, rec, call, hist>>

ProgramChannel(u) ==
    /\ At(u, "channel")
    /\ led' = led \cup {call[u].ch}
    /\ On(u, "configure")
    /\ UNCHANGED <<drv, mat, tim, rec, call, hist>>

\* The channel goes to the pin past hw_matrix_route_out: sig is left alone.
RouteChannel(u) ==
    /\ At(u, "route")
    /\ mat' = [mat EXCEPT ![call[u].pin] = call[u].ch]
    /\ On(u, "record")
    /\ UNCHANGED <<drv, tim, led, rec, call, hist>>

Record(u) ==
    /\ At(u, "record")
    /\ LET c == call[u] IN
       /\ chan' = [chan EXCEPT ![c.ch] = [pin |-> c.pin, freq |-> c.arg, active |-> TRUE]]
       /\ latest' = [latest EXCEPT ![c.ch % NTimers] = c.pin]
    /\ Finish(u)
    /\ UNCHANGED <<hw, flags, sig, clash>>

PwmStop(u) == \E p \in Pins : Begin(u, "stop", p, None, "off")

\* The first active channel with this pin, or -ENOENT.
SwitchOff(u) ==
    /\ At(u, "off")
    /\ LET own == Of(call[u].pin) IN
       IF own = {} THEN Fail(u)
       ELSE /\ call' = [call EXCEPT ![u].ch = Least(own)]
            /\ led' = led \ {Least(own)}
            /\ On(u, "connect")
            /\ UNCHANGED <<drv, mat, tim, rec, hist>>

Release(u) ==
    /\ At(u, "release")
    /\ chan' = [chan EXCEPT ![call[u].ch] = Free]
    /\ Finish(u)
    /\ UNCHANGED <<hw, flags, sig, latest, clash>>

-----------------------------------------------------------------------------

\* What the three surfaces offer: the REST interface has no matrix.
GpioShell(u) == Mode(u) \/ Pull(u) \/ Write(u) \/ Read(u)
GpioScript(u) == Mode(u) \/ Pull(u) \/ Write(u) \/ Read(u)
GpioWeb(u) == Mode(u) \/ Pull(u) \/ Write(u)
MatrixShell(u) == RouteOut(u) \/ Detach(u)
MatrixScript(u) == RouteOut(u) \/ Detach(u)
PwmShell(u) == PwmSet(u) \/ PwmStop(u)
PwmScript(u) == PwmSet(u) \/ PwmStop(u)
PwmWeb(u) == PwmSet(u) \/ PwmStop(u)

Inside(u) ==
    \/ Configure(u) \/ Refused(u) \/ Remember(u) \/ Connect(u)
    \/ Search(u) \/ ProgramTimer(u) \/ ProgramChannel(u) \/ RouteChannel(u) \/ Record(u)
    \/ SwitchOff(u) \/ Release(u)

Next ==
    \/ \E u \in Shells : GpioShell(u) \/ MatrixShell(u) \/ PwmShell(u)
    \/ \E u \in Scripts : GpioScript(u) \/ MatrixScript(u) \/ PwmScript(u)
    \/ \E u \in Webs : GpioWeb(u) \/ PwmWeb(u)
    \/ \E u \in Users : Inside(u)

Spec == Init /\ [][Next]_vars

-----------------------------------------------------------------------------
(* Properties. *)

Ops == {"none", "config", "set", "stop", "route", "detach"}
Steps == {"idle", "configure", "remember", "connect", "search", "timer", "channel", "route", "record", "off", "release"}
TypeOK ==
    /\ flags \in [Pins -> Flags] /\ drv \in [Pins -> Flags]
    /\ sig \in [Pins -> Signals \cup {GPIO}]
    /\ mat \in [Pins -> Signals \cup Channels \cup {GPIO}]
    /\ chan \in [Channels -> [pin : Pins \cup {None}, freq : Freqs \cup {0}, active : BOOLEAN]]
    /\ tim \in [Timers -> Freqs \cup {0}] /\ led \subseteq Channels
    /\ pc \in [Users -> Steps]
    /\ \A u \in Users : call[u].op \in Ops /\ call[u].pin \in Pins \cup {None} /\ call[u].ch \in Channels
    /\ made \in 0 .. MaxCalls
    /\ last \in [Pins -> Ops] /\ latest \in [Timers -> Pins \cup {None}]
    /\ clash \subseteq Pins

\* Between calls, and for the pins whose calls never overlapped: a pin that PWM
\* was last set on has one channel of its own, which is on, connected to it and
\* at the frequency on record as long as no other pin set the shared timer; a
\* pin on which PWM was stopped has none and is back at its own register.
PwmAsOnRecord ==
    Quiet =>
      \A p \in Pins \ clash :
        /\ last[p] = "set" =>
             \E c \in Channels :
                /\ Of(p) = {c} /\ mat[p] = c /\ c \in led
                /\ latest[c % NTimers] = p => tim[c % NTimers] = chan[c].freq
        /\ last[p] = "stop" => Of(p) = {} /\ mat[p] = GPIO

\* Between calls the records say what the hardware does, for the pins whose
\* calls never overlapped: gpio.write skips the configuration of a pin on the
\* strength of the record, and status shows it.
RecordsTrue ==
    Quiet =>
      \A p \in Pins \ clash :
        /\ flags[p] = drv[p]
        /\ last[p] \in {"none", "stop", "route", "detach"} => sig[p] = mat[p]

=============================================================================
