-------------------------------- MODULE I2cBus --------------------------------
(***************************************************************************)
(* The bit-banged I2C master (src/src/hw_i2c.c) and one target on the bus. *)
(*                                                                         *)
(* A call is a plan, a sequence of stages (recover, start, bytes, stop),   *)
(* and a stage is a sequence of operations on the two lines.  Both lines   *)
(* are wired-and: 0 is driven low, 1 is released.  The target is external: *)
(* it follows the I2C specification, reacts to the edges it sees, and may  *)
(* hold the clock (stretching).  The chip may restart in the middle of a   *)
(* call, while the target goes on.                                         *)
(***************************************************************************)
EXTENDS Naturals, Sequences, FiniteSets

CONSTANTS
    Bits,      \* bits of a byte: 8 in the source
    Own,       \* the target's address, Bits - 1 bits
    ScanList,  \* the addresses that a scan probes
    Payloads,  \* the sequences of bytes that are written
    Lengths,   \* the numbers of bytes that are read: hw_i2c_read refuses 0
    Replies,   \* the bytes that the target sends
    Spelled,   \* the decimal digits of a byte, as text
    MaxHolds   \* bound on the clocks that the target holds in a call

Bit == {0, 1}
Byte == [1 .. Bits -> Bit]
Addr == [1 .. Bits - 1 -> Bit]

ASSUME BitsAssumption == Bits \in Nat \ {0, 1}
ASSUME BusAssumption ==
    /\ Own \in Addr /\ ScanList \in Seq(Addr)
    /\ Payloads \subseteq Seq(Byte) /\ Lengths \subseteq Nat \ {0} /\ Replies \subseteq Byte
    /\ Spelled \in [Byte -> Seq(Byte)] /\ MaxHolds \in Nat

VARIABLES
    scl, sda,  \* what the master does with the lines
    dev,       \* the target
    call,      \* the call: operation, address, bytes to write, number to read
    plan,      \* the stages to come
    stage,     \* the stage that runs
    todo,      \* its operations to come
    got,       \* the levels of SDA it has read
    ret,       \* what the call returns
    rx,        \* the bytes read
    found,     \* the addresses that have answered the scan
    was,       \* (history) what the target was doing when the call began
    clean,     \* (history) the target was at rest when the recovery was over
    late       \* (history) a stretch has outlasted the master's patience

lines == <<scl, sda>>
history == <<was, clean, late>>
vars == <<scl, sda, dev, call, plan, stage, todo, got, ret, rx, found, history>>

-----------------------------------------------------------------------------
(* The target.  It looks at the levels of the lines and answers each edge.   *)

\* mode; bits seen or sent of the current byte; that byte; the lines; whether the
\* master has acknowledged; (history) bytes taken and bytes sent in this call.
AtRest(d) == [d EXCEPT !.mode = "rest", !.n = 0, !.byte = <<>>, !.sda = 1, !.acked = FALSE]

\* A byte to send, its first bit on SDA.
Sends(d) ==
    {[d EXCEPT !.mode = "send", !.n = 1, !.byte = b, !.sda = b[1], !.out = Append(@, b)] :
        b \in Replies}

Started(d) == [AtRest(d) EXCEPT !.mode = "addr"]

\* SCL rises: SDA is valid.
Clocked(d, level) ==
    IF d.mode \in {"addr", "recv"} THEN
        [d EXCEPT !.n = @ + 1, !.byte = Append(@, level)]
    ELSE IF d.mode = "getAck" THEN [d EXCEPT !.acked = level = 0]
    ELSE d

\* SCL falls: the target sets SDA for the next clock.
Turned(d) ==
    CASE d.mode = "addr" /\ d.n = Bits ->
            {IF SubSeq(d.byte, 1, Bits - 1) = Own
             THEN [d EXCEPT !.mode = "ackAddr", !.sda = 0] ELSE AtRest(d)}
      [] d.mode = "ackAddr" ->
            IF d.byte[Bits] = 1 THEN Sends(d)
            ELSE {[AtRest(d) EXCEPT !.mode = "recv"]}
      [] d.mode = "recv" /\ d.n = Bits ->
            {AtRest(d), [d EXCEPT !.mode = "ackData", !.sda = 0, !.in = Append(@, d.byte)]}
      [] d.mode = "ackData" -> {[AtRest(d) EXCEPT !.mode = "recv"]}
      [] d.mode = "send" /\ d.n < Bits -> {[d EXCEPT !.n = @ + 1, !.sda = d.byte[d.n + 1]]}
      [] d.mode = "send" /\ d.n = Bits ->
            {[d EXCEPT !.mode = "getAck", !.sda = 1, !.acked = FALSE]}
      [] d.mode = "getAck" -> IF d.acked THEN Sends(d) ELSE {AtRest(d)}
      [] OTHER -> {d}

\* ... and may hold the clock, unless it is at rest.
MayHold(d) == d.mode # "rest" /\ d.holds < MaxHolds
Fallen(d) ==
    Turned(d) \cup {[e EXCEPT !.scl = 0, !.holds = @ + 1] : e \in {t \in Turned(d) : MayHold(t)}}

\* The target after the master's lines have gone from <<c0, d0>> to <<c1, d1>>.
React(d, c0, d0, c1, d1) ==
    LET low == c0 * d.scl      high == c1 * d.scl
        before == d0 * d.sda   after == d1 * d.sda
    IN CASE high > low -> {Clocked(d, after)}
         [] high < low -> Fallen(d)
         [] low = 1 /\ high = 1 /\ after < before -> {Started(d)}
         [] low = 1 /\ high = 1 /\ after > before -> {AtRest(d)}
         [] OTHER -> {d}

Drive(c, d) == scl' = c /\ sda' = d /\ dev' \in React(dev, scl, sda, c, d)

\* The target lets go of the clock.
LetsGo ==
    /\ dev.scl = 0
    /\ LET d == [dev EXCEPT !.scl = 1]
       IN dev' = IF scl = 1 THEN Clocked(d, sda * d.sda) ELSE d
    /\ UNCHANGED <<lines, call, plan, stage, todo, got, ret, rx, found, history>>

-----------------------------------------------------------------------------
(* The operations of each stage, and the plans of the calls. *)

Times(n, ops) == [k \in 1 .. n * Len(ops) |-> ops[((k - 1) % Len(ops)) + 1]]

\* A pulse of the clock for each bit of b.
Shifted(b) ==
    [k \in 1 .. 3 * Bits |->
        CASE k % 3 = 1 -> IF b[(k + 2) \div 3] = 1 THEN "sda1" ELSE "sda0"
          [] k % 3 = 2 -> "scl1"
          [] k % 3 = 0 -> "scl0"]

\* (mutant of Start: the clock is low before SDA falls)
StartLate == [kind |-> "start", ops |-> <<"sda1", "scl0", "sda0">>]

Start == [kind |-> "start", ops |-> <<"sda1", "scl1", "sda0", "scl0">>]

Stop == [kind |-> "stop", ops |-> <<"sda0", "scl1", "sda1">>]

\* (mutant of Recover: one clock too few)
RecoverShort == [kind |-> "recover",
                 ops |-> <<"sda1">> \o Times(Bits, <<"scl0", "scl1">>) \o Stop.ops]

Recover == [kind |-> "recover",
            ops |-> <<"sda1">> \o Times(Bits + 1, <<"scl0", "scl1">>) \o Stop.ops]

\* A byte, then the acknowledgement: error is the call's result without one.
Send(b, error) == [kind |-> "send", error |-> error,
                   ops |-> Shifted(b) \o <<"sda1", "scl1", "read", "scl0">>]

\* (mutant of Receive: every byte is acknowledged)
ReceiveAcked(ack) ==
    [kind |-> "receive",
     ops |-> <<"sda1">> \o Times(Bits, <<"scl1", "read", "scl0">>)
             \o <<"sda0", "scl1", "scl0", "sda1">>]

\* (mutant of Receive: one bit too few)
ReceiveShort(ack) ==
    [kind |-> "receive",
     ops |-> <<"sda1">> \o Times(Bits - 1, <<"scl1", "read", "scl0">>)
             \o <<IF ack THEN "sda0" ELSE "sda1", "scl1", "scl0", "sda1">>]

\* A byte from the target, acknowledged unless it is the last.
Receive(ack) ==
    [kind |-> "receive",
     ops |-> <<"sda1">> \o Times(Bits, <<"scl1", "read", "scl0">>)
             \o <<IF ack THEN "sda0" ELSE "sda1", "scl1", "scl0", "sda1">>]

Addressed(a, rw) == Append(a, rw)

\* The address byte of a scan: no acknowledgement, no error.
Probe(a) == [kind |-> "probe", addr |-> a, ops |-> Send(Addressed(a, 0), "").ops]

Written(bytes) == [i \in DOMAIN bytes |-> Send(bytes[i], "-EIO")]
Received(len) == [i \in 1 .. len |-> Receive(i < len)]

\* (mutant of WriteReadPlan: the repeated start is forgotten)
WriteReadPlanNoRestart(a, tx, len) ==
    <<Recover, Start, Send(Addressed(a, 0), "-ENODEV")>> \o Written(tx)
    \o <<Send(Addressed(a, 1), "-ENODEV")>> \o Received(len) \o <<Stop>>

WritePlan(a, tx) ==
    <<Recover, Start, Send(Addressed(a, 0), "-ENODEV")>> \o Written(tx) \o <<Stop>>
ReadPlan(a, len) ==
    <<Recover, Start, Send(Addressed(a, 1), "-ENODEV")>> \o Received(len) \o <<Stop>>
WriteReadPlan(a, tx, len) ==
    <<Recover, Start, Send(Addressed(a, 0), "-ENODEV")>> \o Written(tx)
    \o <<Start, Send(Addressed(a, 1), "-ENODEV")>> \o Received(len) \o <<Stop>>
ScanPlan ==
    <<Recover>> \o [k \in 1 .. 3 * Len(ScanList) |->
        CASE k % 3 = 1 -> Start
          [] k % 3 = 2 -> Probe(ScanList[(k + 1) \div 3])
          [] k % 3 = 0 -> Stop]

Idle == [kind |-> "idle", ops |-> <<>>]
Between == [kind |-> "between", ops |-> <<>>]
Done == [kind |-> "done", ops |-> <<>>]

-----------------------------------------------------------------------------
(* The calls.  hw_i2c_init_bus, with the recovery, is the start of each.     *)

Begin(c, stages) ==
    /\ stage.kind \in {"idle", "done"}
    /\ call' = c /\ plan' = stages
    /\ stage' = Between /\ todo' = <<>> /\ got' = <<>>
    /\ ret' = "0" /\ rx' = <<>> /\ found' = <<>>
    /\ was' = dev.mode /\ clean' = FALSE /\ late' = FALSE
    /\ dev' = [dev EXCEPT !.holds = 0, !.in = <<>>, !.out = <<>>]
    /\ UNCHANGED lines

\* parse_lua_bytes: a table or a string is taken as it is; of numbers given one
\* by one, lua_isstring takes the first for a string.
Parsed(form, bytes) ==
    IF form = "numbers" /\ bytes # <<>> THEN Spelled[Head(bytes)] ELSE bytes

\* said: the bytes the script means; tx: those that hw_i2c_write is given.
Write == \E a \in Addr, form \in {"bytes", "numbers"}, said \in Payloads :
    LET tx == Parsed(form, said)
    IN Begin([op |-> "write", addr |-> a, said |-> said, tx |-> tx, len |-> 0], WritePlan(a, tx))
Read == \E a \in Addr, len \in Lengths :
    Begin([op |-> "read", addr |-> a, said |-> <<>>, tx |-> <<>>, len |-> len], ReadPlan(a, len))
WriteRead == \E a \in Addr, tx \in Payloads, len \in Lengths :
    Begin([op |-> "write_read", addr |-> a, said |-> tx, tx |-> tx, len |-> len],
          WriteReadPlan(a, tx, len))
Scan == Begin([op |-> "scan", addr |-> Own, said |-> <<>>, tx |-> <<>>, len |-> 0], ScanPlan)

\* One operation on a line: a delay follows, in which the target can react.
Pending(op) == todo # <<>> /\ Head(todo) = op
Go == todo' = Tail(todo)
same_call == <<call, plan, stage, ret, rx, found>>

SdaLow == Pending("sda0") /\ Drive(scl, 0) /\ Go /\ UNCHANGED <<same_call, got, history>>
SdaRelease == Pending("sda1") /\ Drive(scl, 1) /\ Go /\ UNCHANGED <<same_call, got, history>>
SclLow == Pending("scl0") /\ Drive(0, sda) /\ Go /\ UNCHANGED <<same_call, got, history>>

\* i2c_scl_release: the line is let go, and looked at until it is high.
SclRelease ==
    /\ Pending("scl1") /\ (scl = 0 \/ dev.scl = 1)
    /\ Drive(1, sda)
    /\ IF dev.scl = 1 THEN Go ELSE UNCHANGED todo
    /\ UNCHANGED <<same_call, got, history>>

\* (mutant of StretchTimeout: the start of the wait is taken anew in each round)
StretchTimeoutNever == Pending("scl1") /\ scl = 1 /\ dev.scl = 0 /\ UNCHANGED vars

\* ... for 10 ms; -ETIMEDOUT, which no caller looks at.
StretchTimeout ==
    /\ Pending("scl1") /\ scl = 1 /\ dev.scl = 0
    /\ Go /\ late' = TRUE
    /\ UNCHANGED <<same_call, lines, dev, got, was, clean>>

ReadSda ==
    /\ Pending("read")
    /\ got' = Append(got, sda * dev.sda) /\ Go
    /\ UNCHANGED <<same_call, lines, dev, history>>

\* A stage is over.  Without an acknowledgement only the stop is left.
StageEnds ==
    /\ stage.kind \notin {"idle", "between", "done"} /\ todo = <<>>
    /\ stage' = Between /\ got' = <<>>
    /\ IF stage.kind = "recover"
       THEN clean' = (dev.mode = "rest") /\ dev' = [dev EXCEPT !.in = <<>>, !.out = <<>>]
       ELSE UNCHANGED <<clean, dev>>
    /\ rx' = IF stage.kind = "receive" THEN Append(rx, got) ELSE rx
    /\ found' = IF stage.kind = "probe" /\ got[1] = 0 THEN Append(found, stage.addr) ELSE found
    /\ IF stage.kind = "send" /\ got[1] = 1
       THEN plan' = <<Stop>> /\ ret' = stage.error
       ELSE UNCHANGED <<plan, ret>>
    /\ UNCHANGED <<lines, call, todo, was, late>>

StageBegins ==
    /\ stage.kind = "between" /\ plan # <<>>
    /\ stage' = Head(plan) /\ todo' = Head(plan).ops /\ plan' = Tail(plan)
    /\ UNCHANGED <<lines, dev, call, got, ret, rx, found, history>>

Return ==
    /\ stage.kind = "between" /\ plan = <<>>
    /\ stage' = Done
    /\ UNCHANGED <<lines, dev, call, plan, todo, got, ret, rx, found, history>>

Master == \/ SdaLow \/ SdaRelease \/ SclLow \/ SclRelease \/ StretchTimeout
          \/ ReadSda \/ StageEnds \/ StageBegins \/ Return

\* The chip restarts: the call is gone and the lines are let go, one before the
\* other.
NoCall == [op |-> "none", addr |-> Own, said |-> <<>>, tx |-> <<>>, len |-> 0]

Restart ==
    /\ stage.kind \notin {"idle", "done"}
    /\ scl' = 1 /\ sda' = 1
    /\ \/ \E d \in React(dev, scl, sda, 1, sda) : dev' \in React(d, 1, sda, 1, 1)
       \/ \E d \in React(dev, scl, sda, scl, 1) : dev' \in React(d, scl, 1, 1, 1)
    /\ call' = NoCall /\ plan' = <<>> /\ stage' = Idle /\ todo' = <<>> /\ got' = <<>>
    /\ ret' = "0" /\ rx' = <<>> /\ found' = <<>>
    /\ UNCHANGED history

Init ==
    /\ scl = 1 /\ sda = 1
    /\ dev = [mode |-> "rest", n |-> 0, byte |-> <<>>, scl |-> 1, sda |-> 1,
              acked |-> FALSE, holds |-> 0, in |-> <<>>, out |-> <<>>]
    /\ call = NoCall /\ plan = <<>> /\ stage = Idle /\ todo = <<>> /\ got = <<>>
    /\ ret = "0" /\ rx = <<>> /\ found = <<>>
    /\ was = "rest" /\ clean = FALSE /\ late = FALSE

Next == Write \/ Read \/ WriteRead \/ Scan \/ Master \/ LetsGo \/ Restart

Spec == Init /\ [][Next]_vars
FairSpec == Spec /\ WF_vars(Master)

-----------------------------------------------------------------------------
(* Properties. *)

TypeOK ==
    /\ scl \in Bit /\ sda \in Bit
    /\ dev.mode \in {"rest", "addr", "ackAddr", "recv", "ackData", "send", "getAck"}
    /\ dev.n \in 0 .. Bits /\ dev.scl \in Bit /\ dev.sda \in Bit /\ Len(dev.byte) <= Bits
    /\ ret \in {"0", "-ENODEV", "-EIO"}
    /\ rx \in Seq(Byte) /\ found \in Seq(Addr) /\ Len(got) <= Bits
    /\ clean \in BOOLEAN /\ late \in BOOLEAN

\* The call had a fair start and a target within the master's patience.
Fair == stage.kind = "done" /\ clean /\ ~late

\* What a call that returns 0 has written is what the target has taken, and the
\* bytes it has read are the ones the target has sent, no more and no fewer.
BytesCarried ==
    Fair /\ ret = "0" /\ call.op # "scan" =>
        /\ dev.in = call.tx /\ rx = dev.out /\ Len(rx) = call.len
        /\ call.addr = Own

\* A target that is there is found whenever it is probed and nothing else is; one
\* that is not there is reported missing.
PresenceKnown ==
    Fair => /\ call.op = "scan" =>
                  /\ found \in Seq({Own})
                  /\ Len(found) = Cardinality({i \in DOMAIN ScanList : ScanList[i] = Own})
            /\ call.op # "scan" => (ret = "-ENODEV") = (call.addr # Own)

\* A call does what it reports: bytes carried, targets found and missed.
CallsDeliver == BytesCarried /\ PresenceKnown

\* doc/howto.md: i2c.write accepts "varargs, array table, or string", each for the
\* same bytes.
ScriptsWriteBytes ==
    Fair /\ ret = "0" /\ call.op = "write" => dev.in = call.said

\* After a call, failed or not, the lines are let go and the target is at rest.
BusLeftFree ==
    Fair =>
        scl = 1 /\ sda = 1 /\ dev.scl = 1 /\ dev.sda = 1 /\ dev.mode = "rest"

\* A target that was left in the middle of a read, SDA in its hand, is freed by
\* the recovery before the next transfer starts.
RecoveryFreesReader ==
    stage.kind = "done" /\ ~late /\ was \in {"send", "getAck"} => clean

\* A call returns even if the target holds the clock for ever.
CallReturns == (stage.kind \notin {"idle", "done"}) ~> (stage.kind \in {"idle", "done"})

=============================================================================
