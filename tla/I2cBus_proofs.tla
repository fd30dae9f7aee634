---------------------------- MODULE I2cBus_proofs ----------------------------
(***************************************************************************)
(* Proofs about I2cBus: what a call reports is what the target has seen,   *)
(* and the recovery frees a target that holds the data line, for any width *)
(* of a byte, any payloads and lengths and any stretching of the clock.    *)
(*                                                                         *)
(* The invariant says, for every operation of every stage, where the       *)
(* target is; the plans say what a stage may follow.  An edge of a line is *)
(* looked at once for each kind of operation; what the target makes of it  *)
(* is the same in every call.                                              *)
(***************************************************************************)
EXTENDS I2cBus, SequenceTheorems, FiniteSetTheorems, TLAPS

-----------------------------------------------------------------------------
(* The inductive invariant: types, and where a call is in its plan. *)

\* The clock, with the master's level c and the target d on the line.
High(c, d) == c = 1 /\ d.scl = 1

Device == [mode : {"rest", "addr", "ackAddr", "recv", "ackData", "send", "getAck"},
           n : 0 .. Bits, byte : {b \in Seq(Bit) : Len(b) <= Bits}, scl : Bit, sda : Bit, acked : BOOLEAN,
           holds : Nat, in : Seq(Byte), out : Seq(Byte)]

\* The target d is in order while the master has the clock at level c.
Orderly(d, c) ==
    /\ d \in Device
    /\ d.mode \in {"addr", "recv"} => Len(d.byte) = d.n /\ (c = 0 \/ d.scl = 0 => d.n < Bits)
    /\ d.mode \in {"ackAddr", "ackData"} => d.sda = 0
    /\ d.mode \in {"rest", "addr", "recv", "getAck"} => d.sda = 1
    /\ d.mode \in {"ackAddr", "ackData", "send"} => Len(d.byte) = Bits
    /\ d.mode = "rest" => d.scl = 1
    /\ d.mode = "send" => d.n >= 1
    /\ d.mode = "getAck" /\ d.acked => c = 1 /\ d.scl = 1

Request == [op : {"write", "read", "write_read", "scan"}, addr : Addr, said : Seq(Byte),
            tx : Seq(Byte), len : Nat]
Proper(c) ==
    /\ c \in Request
    /\ c.op \in {"read", "write_read"} => c.len > 0
    /\ c.op \in {"write", "scan"} => c.len = 0
    /\ c.op = "read" => c.tx = <<>>

PlanOf(c) ==
    CASE c.op = "write" -> WritePlan(c.addr, c.tx)
      [] c.op = "read" -> ReadPlan(c.addr, c.len)
      [] c.op = "write_read" -> WriteReadPlan(c.addr, c.tx, c.len)
      [] c.op = "scan" -> ScanPlan

Rest(s, k) == SubSeq(s, k, Len(s))

\* The stages begun, and the operations done in the one that runs.
Begun == Len(PlanOf(call)) - Len(plan)
At == Len(stage.ops) - Len(todo)

Running == stage.kind \notin {"idle", "between", "done"}

\* A call follows its plan until it fails, and then only stops.
InPlan ==
    /\ stage.kind = "idle" => stage = Idle /\ plan = <<>> /\ ret = "0"
    /\ stage.kind = "done" => stage = Done /\ plan = <<>>
    /\ stage.kind = "between" => stage = Between
    /\ stage.kind # "idle" => Proper(call)
    /\ stage.kind # "idle" /\ ret = "0" =>
          /\ Begun \in 0 .. Len(PlanOf(call)) /\ plan = Rest(PlanOf(call), Begun + 1)
          /\ Running => Begun > 0 /\ stage = PlanOf(call)[Begun]
    /\ ret # "0" =>
          /\ ret \in {"-ENODEV", "-EIO"} /\ stage.kind # "idle" /\ call.op # "scan"
          /\ \/ plan = <<Stop>> /\ stage = Between
             \/ plan = <<>> /\ stage \in {Stop, Between, Done}
    /\ ~Running => todo = <<>> /\ got = <<>>
    /\ Running => At \in 0 .. Len(stage.ops) /\ todo = Rest(stage.ops, At + 1)

\* The levels that the stage s has read at p.
Due(s, p) ==
    IF s.kind = "receive" THEN IF p <= 3 * Bits THEN p \div 3 ELSE Bits
    ELSE IF s.kind \in {"send", "probe"} /\ p > 3 * Bits + 2 THEN 1 ELSE 0
Sampled == got \in Seq(Bit) /\ (Running => Len(got) = Due(stage, At))

Typed ==
    /\ scl \in Bit /\ sda \in Bit /\ Orderly(dev, scl)
    /\ InPlan /\ Sampled
    /\ rx \in Seq(Byte) /\ found \in Seq(Addr)
    /\ was \in {"rest", "addr", "ackAddr", "recv", "ackData", "send", "getAck"}
    /\ clean \in BOOLEAN /\ late \in BOOLEAN

-----------------------------------------------------------------------------
(* The recovery frees a target that was sending. *)

Sending == {"send", "getAck"}

\* Falls of the clock until the target has let SDA go.
Left(d) ==
    CASE d.mode = "send" -> Bits + 1 - d.n
      [] d.mode = "getAck" /\ d.acked -> Bits + 1
      [] OTHER -> 0

Recovering == stage.kind = "recover" \/ (stage.kind = "between" /\ ret = "0" /\ Begun = 0)

\* The j-th clock of the recovery.
Clocks(j, p, c, d) ==
    /\ p = 2 * j \/ p = 2 * j + 1 => Left(d) <= Bits + 1 - j
    /\ p = 2 * j + 1 => High(c, d)

\* At p, with the clock c and the data line x let go or driven, the target d.
Freeing(p, c, x, d) ==
    /\ p <= 2 * Bits + 3 => d.mode \in {"send", "getAck", "rest"} /\ (p > 0 => x = 1)
    /\ p <= 1 => Left(d) <= Bits + 1 /\ (~High(c, d) => Left(d) <= Bits)
    /\ \A j \in 1 .. Bits + 1 : Clocks(j, p, c, d)
    /\ p \in {2 * Bits + 4, 2 * Bits + 5} => x = 0 /\ High(c, d) /\ d.mode = "addr"
    /\ p = 2 * Bits + 6 => d.mode = "rest"

Freed ==
    stage.kind # "idle" /\ ~late /\ was \in Sending =>
        IF Recovering
        THEN Freeing(IF stage.kind = "recover" THEN At ELSE 0, scl, sda, dev)
        ELSE clean

-----------------------------------------------------------------------------
(* What a call that began well has done. *)

Free(c, x, d) == c = 1 /\ x = 1 /\ d.mode = "rest"

\* The stage's byte is an address, in the plan of a call.
IsAddress(s) == s.kind = "probe" \/ (s.kind = "send" /\ s.error = "-ENODEV")

\* The byte that the stage i of the plan of the call r sends.
ByteAt(r, i) ==
    CASE r.op = "scan" -> Addressed(ScanList[i \div 3], 0)
      [] r.op # "scan" /\ i = 3 -> Addressed(r.addr, IF r.op = "read" THEN 1 ELSE 0)
      [] r.op = "write_read" /\ i = 5 + Len(r.tx) -> Addressed(r.addr, 1)
      [] OTHER -> r.tx[i - 3]

\* What the first i stages of the plan send of tx, receive, and probe.
Clamped(k, n) == IF k < 0 THEN 0 ELSE IF k > n THEN n ELSE k
Sent(r, i) ==
    IF r.op \in {"write", "write_read"} THEN SubSeq(r.tx, 1, Clamped(i - 3, Len(r.tx))) ELSE <<>>
Came(r, i) ==
    CASE r.op = "read" -> Clamped(i - 3, r.len)
      [] r.op = "write_read" -> Clamped(i - 5 - Len(r.tx), r.len)
      [] OTHER -> 0
Probed(r, i) == IF r.op = "scan" THEN i \div 3 ELSE 0
Answering(k) == {j \in 1 .. k : ScanList[j] = Own}

Quiet == {"rest", "recv"}
Speaks(d) == d.mode = "send" /\ d.n = 1 /\ d.sda = d.byte[1]
Listens(d, address) == d.n = 0 /\ d.mode = IF address THEN "addr" ELSE "recv"

\* What the stage s finds when it begins.
Ready(s, c, x, d) ==
    CASE s.kind = "start" -> x = 1 /\ d.mode \in Quiet
      [] s.kind = "stop" -> c = 0 /\ d.mode \in Quiet
      [] s.kind \in {"send", "probe"} -> c = 0 /\ Listens(d, IsAddress(s))
      [] s.kind = "receive" -> c = 0 /\ Speaks(d)
      [] OTHER -> FALSE

InStart(p, c, x, d) ==
    /\ p \in {0, 1, 2} => x = 1 /\ d.mode \in Quiet
    /\ p \in {2, 3} => High(c, d)
    /\ p \in {3, 4} => Listens(d, TRUE)
    /\ p = 4 => c = 0

InStop(p, c, x, d) ==
    /\ p \in {0, 1, 2} => d.mode \in Quiet
    /\ p = 0 => c = 0
    /\ p \in {1, 2} => x = 0
    /\ p = 2 => High(c, d)
    /\ p = 3 => Free(c, x, d)

\* The target has taken k bits of b, an address or not.
Taking(b, k, address, d) ==
    d.mode = (IF address THEN "addr" ELSE "recv") /\ d.n = k /\ d.byte = SubSeq(b, 1, k)

ForOwn(b) == SubSeq(b, 1, Bits - 1) = Own

\* The target answers b, or is not there or not willing.
Answer(b, address, d) ==
    \/ d.mode = "rest" /\ (address => ~ForOwn(b))
    \/ d.mode = "ackAddr" /\ address /\ ForOwn(b) /\ d.byte = b
    \/ d.mode = "ackData" /\ ~address

\* The level read, one, tells of the answer, and the target waits for what follows.
Answered(b, address, d, one) ==
    IF one THEN d.mode = "rest" /\ (address => ~ForOwn(b))
    ELSE /\ address => ForOwn(b)
         /\ IF address /\ b[Bits] = 1 THEN Speaks(d) ELSE Listens(d, FALSE)

\* The k-th bit of b is put on the line, and clocked.
SendsBit(k, b, address, p, c, x, d) ==
    /\ p = 3 * k - 3 => c = 0 /\ Taking(b, k - 1, address, d)
    /\ p = 3 * k - 2 => x = b[k] /\ Taking(b, IF High(c, d) THEN k ELSE k - 1, address, d)
    /\ p = 3 * k - 1 => x = b[k] /\ Taking(b, k, address, d) /\ High(c, d)

\* g is what the stage has read.
InSend(b, address, p, c, x, d, g) ==
    /\ \A k \in 1 .. Bits : SendsBit(k, b, address, p, c, x, d)
    /\ p >= 3 * Bits /\ p < 3 * Bits + 4 => Answer(b, address, d)
    /\ p \in {3 * Bits, 3 * Bits + 4} => c = 0
    /\ p > 3 * Bits => x = 1
    /\ p \in {3 * Bits + 2, 3 * Bits + 3} => High(c, d)
    /\ p = 3 * Bits + 3 => g = <<d.sda>>
    /\ p = 3 * Bits + 4 => Answered(b, address, d, g[1] = 1)

\* Whether the byte has been taken, once the target has its bits.
Taken(p, d, g) ==
    IF p = 3 * Bits + 4 THEN g[1] = 0 ELSE p >= 3 * Bits /\ d.mode = "ackData"

\* The k-th bit of the target's byte is on the line, and read.
ReceivesBit(k, p, c, d, g) ==
    /\ p = 3 * k - 2 \/ p = 3 * k - 1 \/ p = 3 * k =>
          /\ d.mode = "send" /\ d.n = k /\ d.sda = d.byte[k]
          /\ g = SubSeq(d.byte, 1, IF p = 3 * k THEN k ELSE k - 1)
    /\ p = 3 * k - 1 \/ p = 3 * k => High(c, d)

\* The receive stage with its acknowledgement.
InReceive(ack, p, c, x, d, g) ==
    /\ p = 0 => c = 0 /\ Speaks(d) /\ g = <<>>
    /\ p > 0 /\ p <= 3 * Bits + 1 => x = 1
    /\ \A k \in 1 .. Bits : ReceivesBit(k, p, c, d, g)
    /\ p \in {3 * Bits + 1, 3 * Bits + 2, 3 * Bits + 3} => d.mode = "getAck"
    /\ p = 3 * Bits + 1 => c = 0 /\ ~d.acked
    /\ p \in {3 * Bits + 2, 3 * Bits + 3, 3 * Bits + 4} => x = IF ack THEN 0 ELSE 1
    /\ p = 3 * Bits + 2 => d.acked = (ack /\ High(c, d))
    /\ p = 3 * Bits + 3 => d.acked = ack /\ High(c, d)
    /\ p >= 3 * Bits + 4 => c = 0 /\ IF ack THEN Speaks(d) ELSE d.mode = "rest"
    /\ p = 3 * Bits + 5 => x = 1

\* The bytes rx, and the one that the target has in its hand.
Spoken(d, heard) == d.out = IF d.mode = "send" THEN Append(heard, d.byte) ELSE heard

\* What the first i stages have brought: bytes, and the addresses there.
Kept(r, i, bytes, there) ==
    /\ Len(bytes) = Came(r, i)
    /\ there \in Seq({Own}) /\ Len(there) = Cardinality(Answering(Probed(r, i)))
    /\ r.op # "scan" /\ i >= 3 => r.addr = Own

\* What is left of a call's stages starts from where it is.
Onward(stages, c, x, d) ==
    IF stages = <<>> THEN Free(c, x, d) ELSE Ready(Head(stages), c, x, d)

\* The stage s, the i-th of the call r, that has come to p; bytes are those it began with.
InStage(s, r, i, bytes, p, c, x, d, g) ==
    CASE s.kind = "start" -> InStart(p, c, x, d) /\ d.in = Sent(r, i) /\ Spoken(d, bytes)
      [] s.kind = "stop" -> InStop(p, c, x, d) /\ d.in = Sent(r, i) /\ Spoken(d, bytes)
      [] s.kind \in {"send", "probe"} ->
            /\ InSend(ByteAt(r, i), IsAddress(s), p, c, x, d, g)
            /\ d.in = Sent(r, IF Taken(p, d, g) THEN i ELSE i - 1) /\ Spoken(d, bytes)
      [] s.kind = "receive" ->
            /\ InReceive(s = Receive(TRUE), p, c, x, d, g)
            /\ d.in = Sent(r, i)
            /\ Spoken(d, IF p > 3 * Bits THEN Append(bytes, g) ELSE bytes)
      [] OTHER -> FALSE

\* A call under way, or over, that has not failed; one that has.
Well ==
    IF Running THEN InStage(stage, call, Begun, rx, At, scl, sda, dev, got) /\ Kept(call, Begun - 1, rx, found)
    ELSE /\ Onward(plan, scl, sda, dev)
         /\ dev.in = Sent(call, Begun) /\ Spoken(dev, rx) /\ Kept(call, Begun, rx, found)
Failed ==
    /\ ret = "-ENODEV" <=> call.addr # Own
    /\ IF Running THEN InStop(At, scl, sda, dev) ELSE Onward(plan, scl, sda, dev)

\* The recovery ends with both lines let go.
Raised ==
    stage.kind = "recover" =>
        /\ At >= 2 * Bits + 5 => scl = 1
        /\ At = 2 * Bits + 6 => sda = 1

\* A call whose recovery left the target at rest.
Delivering ==
    /\ Raised
    /\ Recovering => ~clean /\ rx = <<>> /\ found = <<>>
    /\ stage.kind # "idle" /\ clean /\ ~late => IF ret = "0" THEN Well ELSE Failed

IInv == Typed /\ Freed /\ Delivering

-----------------------------------------------------------------------------
(* The target. *)

LEMMA BitsPositive == Bits \in Nat /\ Bits >= 2
BY BitsAssumption

\* A byte is a sequence of Bits bits.
LEMMA BytesAre == \A b : b \in Byte <=> b \in Seq(Bit) /\ Len(b) = Bits
<1>1. ASSUME NEW b \in Byte PROVE b \in Seq(Bit) /\ Len(b) = Bits
  BY BitsPositive DEF Byte
<1>2. ASSUME NEW b \in Seq(Bit), Len(b) = Bits PROVE b \in Byte
  BY <1>2 DEF Byte
<1> QED BY <1>1, <1>2

\* A line is high when nobody drives it low.
LEMMA WiredAnd ==
    ASSUME NEW x \in Bit, NEW y \in Bit
    PROVE  x * y \in Bit /\ (x * y = 1 <=> x = 1 /\ y = 1) /\ (x * y = 0 <=> x = 0 \/ y = 0)
BY DEF Bit

\* What both edges leave alone.
SameButClock(e, d) ==
    /\ e \in Device /\ e.mode = d.mode /\ e.n = d.n /\ e.byte = d.byte /\ e.sda = d.sda
    /\ e.acked = d.acked /\ e.in = d.in /\ e.out = d.out

\* The target at a rise of the clock.
LEMMA ClockedIs ==
    ASSUME NEW d \in Device, NEW level \in Bit, d.mode \in {"addr", "recv"} => d.n < Bits /\ Len(d.byte) = d.n
    PROVE  LET e == Clocked(d, level)
           IN /\ e \in Device /\ e.mode = d.mode /\ e.sda = d.sda /\ e.scl = d.scl
              /\ e.in = d.in /\ e.out = d.out
              /\ d.mode \in {"addr", "recv"} => e.n = d.n + 1 /\ e.byte = Append(d.byte, level)
              /\ d.mode \notin {"addr", "recv"} => e.n = d.n /\ e.byte = d.byte
              /\ e.acked = IF d.mode = "getAck" THEN level = 0 ELSE d.acked
<1>1. CASE d.mode \in {"addr", "recv"}
  <2>1. Clocked(d, level) = [d EXCEPT !.n = @ + 1, !.byte = Append(@, level)]
    BY <1>1 DEF Clocked
  <2>2. d.n + 1 \in 0 .. Bits /\ Append(d.byte, level) \in {b \in Seq(Bit) : Len(b) <= Bits}
    BY <1>1, BitsPositive DEF Device
  <2> QED BY <1>1, <2>1, <2>2 DEF Device
<1>2. CASE d.mode = "getAck"
  <2>1. Clocked(d, level) = [d EXCEPT !.acked = level = 0]
    BY <1>2 DEF Clocked
  <2> QED BY <1>2, <2>1 DEF Device
<1>3. CASE d.mode \notin {"addr", "recv", "getAck"}
  BY <1>3 DEF Clocked
<1> QED BY <1>1, <1>2, <1>3

\* The target that has let go, that has seen a start, that has a byte to send.
LEMMA AtRestIs ==
    ASSUME NEW d \in Device
    PROVE  LET e == AtRest(d)
           IN /\ e \in Device /\ e.mode = "rest" /\ e.n = 0 /\ e.byte = <<>> /\ e.sda = 1 /\ e.acked = FALSE
              /\ e.scl = d.scl /\ e.in = d.in /\ e.out = d.out
<1>1. <<>> \in {b \in Seq(Bit) : Len(b) <= Bits} /\ 0 \in 0 .. Bits /\ 1 \in Bit
  BY BitsPositive DEF Bit
<1>2. AtRest(d) = [d EXCEPT !.mode = "rest", !.n = 0, !.byte = <<>>, !.sda = 1, !.acked = FALSE]
  BY DEF AtRest
<1> QED BY <1>1, <1>2 DEF Device

LEMMA StartedIs ==
    ASSUME NEW d \in Device
    PROVE  LET e == Started(d)
           IN /\ e \in Device /\ e.mode = "addr" /\ e.n = 0 /\ e.byte = <<>> /\ e.sda = 1 /\ e.acked = FALSE
              /\ e.scl = d.scl /\ e.in = d.in /\ e.out = d.out
BY AtRestIs DEF Started, Device

LEMMA SendsIs ==
    ASSUME NEW d \in Device, NEW e \in Sends(d)
    PROVE  /\ e \in Device /\ e.mode = "send" /\ e.n = 1 /\ Len(e.byte) = Bits /\ e.sda = e.byte[1]
           /\ e.scl = d.scl /\ e.in = d.in /\ e.out = Append(d.out, e.byte)
<1>1. PICK b \in Replies :
        e = [d EXCEPT !.mode = "send", !.n = 1, !.byte = b, !.sda = b[1], !.out = Append(@, b)]
  BY DEF Sends
<1>2. b \in Byte /\ b \in Seq(Bit) /\ Len(b) = Bits /\ b[1] \in Bit
  BY BytesAre, BusAssumption, BitsPositive
<1>3. 1 \in 0 .. Bits /\ Append(d.out, b) \in Seq(Byte) /\ b \in {s \in Seq(Bit) : Len(s) <= Bits}
  BY <1>2, BitsPositive DEF Device
<1>4. /\ e.mode = "send" /\ e.n = 1 /\ e.byte = b /\ e.sda = b[1] /\ e.scl = d.scl /\ e.in = d.in
      /\ e.out = Append(d.out, b)
  BY <1>1 DEF Device
<1>5. e \in Device
  BY <1>1, <1>2, <1>3 DEF Device
<1> QED BY <1>2, <1>4, <1>5

\* The target after a fall, but for the clock that it may hold.
Falls(e, d) ==
    /\ e \in Device
    /\ d.mode \in {"addr", "recv"} /\ d.n < Bits => SameButClock(e, d)
    /\ d.mode = "rest" => SameButClock(e, d)
    /\ d.mode = "addr" /\ d.n = Bits =>
         /\ e.in = d.in /\ e.out = d.out
         /\ IF SubSeq(d.byte, 1, Bits - 1) = Own
            THEN e.mode = "ackAddr" /\ e.byte = d.byte /\ e.sda = 0
            ELSE e.mode = "rest" /\ e.sda = 1
    /\ d.mode = "recv" /\ d.n = Bits =>
         /\ e.out = d.out
         /\ \/ e.mode = "rest" /\ e.in = d.in /\ e.sda = 1
            \/ e.mode = "ackData" /\ e.in = Append(d.in, d.byte) /\ e.sda = 0 /\ e.byte = d.byte
    /\ d.mode \in {"ackAddr", "ackData", "send", "getAck"} => e.in = d.in
    /\ d.mode = "ackData" \/ (d.mode = "ackAddr" /\ d.byte[Bits] # 1) =>
         e.mode = "recv" /\ e.n = 0 /\ e.byte = <<>> /\ e.sda = 1 /\ e.out = d.out
    /\ (d.mode = "ackAddr" /\ d.byte[Bits] = 1) \/ (d.mode = "getAck" /\ d.acked) =>
         /\ e.mode = "send" /\ e.n = 1 /\ Len(e.byte) = Bits /\ e.sda = e.byte[1]
         /\ e.out = Append(d.out, e.byte)
    /\ d.mode = "getAck" /\ ~d.acked => e.mode = "rest" /\ e.out = d.out /\ e.sda = 1
    /\ d.mode = "send" => e.out = d.out
    /\ d.mode = "send" /\ d.n < Bits =>
         e.mode = "send" /\ e.n = d.n + 1 /\ e.byte = d.byte /\ e.sda = d.byte[d.n + 1]
    /\ d.mode = "send" /\ d.n = Bits => e.mode = "getAck" /\ e.sda = 1 /\ ~e.acked

\* The target at a fall of the clock, and the clock it may then hold.
LEMMA TurnedIs ==
    ASSUME NEW d, NEW c, Orderly(d, c), NEW e \in Turned(d)
    PROVE  Falls(e, d) /\ e.scl = d.scl
<1> USE BitsPositive
<1>0. d \in Device /\ d.n \in 0 .. Bits
  BY DEF Orderly, Device
<1>1. CASE d.mode = "addr" /\ d.n = Bits
  <2>1. e = IF SubSeq(d.byte, 1, Bits - 1) = Own THEN [d EXCEPT !.mode = "ackAddr", !.sda = 0] ELSE AtRest(d)
    BY <1>1 DEF Turned
  <2>2. CASE SubSeq(d.byte, 1, Bits - 1) = Own
    <3>1. e = [d EXCEPT !.mode = "ackAddr", !.sda = 0]
      BY <2>1, <2>2
    <3>2. /\ e \in Device /\ e.mode = "ackAddr" /\ e.byte = d.byte /\ e.sda = 0
          /\ e.in = d.in /\ e.out = d.out /\ e.scl = d.scl
      BY <1>0, <3>1 DEF Device, Bit
    <3> QED BY <1>1, <2>2, <3>2 DEF Falls
  <2>3. CASE SubSeq(d.byte, 1, Bits - 1) # Own
    <3>1. e = AtRest(d)
      BY <2>1, <2>3
    <3>2. e \in Device /\ e.mode = "rest" /\ e.sda = 1 /\ e.in = d.in /\ e.out = d.out /\ e.scl = d.scl
      BY <1>0, <3>1, AtRestIs
    <3> QED BY <1>1, <2>3, <3>2 DEF Falls
  <2> QED BY <2>2, <2>3
<1>2. CASE d.mode = "ackAddr" /\ d.byte[Bits] = 1
  <2>1. e \in Sends(d)
    BY <1>2 DEF Turned
  <2> QED BY <1>0, <1>2, <2>1, SendsIs DEF Falls
<1>3. CASE d.mode = "ackData" \/ (d.mode = "ackAddr" /\ d.byte[Bits] # 1)
  <2>1. e = [AtRest(d) EXCEPT !.mode = "recv"]
    BY <1>3 DEF Turned
  <2>2. /\ e \in Device /\ e.mode = "recv" /\ e.n = 0 /\ e.byte = <<>> /\ e.sda = 1
        /\ e.scl = d.scl /\ e.in = d.in /\ e.out = d.out
    BY <1>0, <2>1, AtRestIs DEF Device
  <2> QED BY <1>0, <1>3, <2>2 DEF Falls
<1>4. CASE d.mode = "recv" /\ d.n = Bits
  <2>1. e \in {AtRest(d), [d EXCEPT !.mode = "ackData", !.sda = 0, !.in = Append(@, d.byte)]}
    BY <1>4 DEF Turned
  <2>2. d.byte \in Byte /\ Append(d.in, d.byte) \in Seq(Byte)
    BY <1>0, <1>4, BytesAre DEF Orderly, Device
  <2>3. CASE e = AtRest(d)
    <3>1. e \in Device /\ e.mode = "rest" /\ e.sda = 1 /\ e.in = d.in /\ e.out = d.out /\ e.scl = d.scl
      BY <1>0, <2>3, AtRestIs
    <3> QED BY <1>4, <3>1 DEF Falls
  <2>4. CASE e = [d EXCEPT !.mode = "ackData", !.sda = 0, !.in = Append(@, d.byte)]
    <3>1. /\ e \in Device /\ e.mode = "ackData" /\ e.sda = 0 /\ e.byte = d.byte
          /\ e.in = Append(d.in, d.byte) /\ e.out = d.out /\ e.scl = d.scl
      BY <1>0, <2>2, <2>4 DEF Device, Bit
    <3> QED BY <1>4, <3>1 DEF Falls
  <2> QED BY <2>1, <2>3, <2>4
<1>5. CASE d.mode = "send" /\ d.n < Bits
  <2>1. e = [d EXCEPT !.n = @ + 1, !.sda = d.byte[d.n + 1]]
    BY <1>5 DEF Turned
  <2>2. d.n + 1 \in 0 .. Bits /\ d.byte[d.n + 1] \in Bit
    BY <1>0, <1>5 DEF Orderly, Device
  <2>3. /\ e \in Device /\ e.mode = "send" /\ e.n = d.n + 1 /\ e.byte = d.byte /\ e.sda = d.byte[d.n + 1]
        /\ e.in = d.in /\ e.out = d.out /\ e.scl = d.scl
    BY <1>0, <1>5, <2>1, <2>2 DEF Device
  <2> QED BY <1>0, <1>5, <2>3 DEF Falls
<1>6. CASE d.mode = "send" /\ d.n = Bits
  <2>1. e = [d EXCEPT !.mode = "getAck", !.sda = 1, !.acked = FALSE]
    BY <1>6 DEF Turned
  <2>2. /\ e \in Device /\ e.mode = "getAck" /\ e.sda = 1 /\ e.acked = FALSE
        /\ e.in = d.in /\ e.out = d.out /\ e.scl = d.scl
    BY <1>0, <2>1 DEF Device, Bit
  <2> QED BY <1>0, <1>6, <2>2 DEF Falls
<1>7. CASE d.mode = "getAck" /\ d.acked
  <2>1. e \in Sends(d)
    BY <1>7 DEF Turned
  <2> QED BY <1>0, <1>7, <2>1, SendsIs DEF Falls
<1>8. CASE d.mode = "getAck" /\ ~d.acked
  <2>1. e = AtRest(d)
    BY <1>8 DEF Turned
  <2> QED BY <1>0, <1>8, <2>1, AtRestIs DEF Falls
<1>9. CASE d.mode = "rest" \/ (d.mode \in {"addr", "recv"} /\ d.n < Bits)
  <2>1. e = d
    BY <1>9 DEF Turned
  <2> QED BY <1>0, <1>9, <2>1 DEF Falls, SameButClock
<1> QED BY <1>0, <1>1, <1>2, <1>3, <1>4, <1>5, <1>6, <1>7, <1>8, <1>9 DEF Device

LEMMA FallenIs ==
    ASSUME NEW d, NEW c, Orderly(d, c), d.scl = 1, NEW e \in Fallen(d)
    PROVE  Falls(e, d) /\ (e.mode = "rest" => e.scl = 1)
<1>1. CASE e \in Turned(d)
  BY <1>1, TurnedIs
<1>2. CASE e \notin Turned(d)
  <2>1. PICK t \in Turned(d) : MayHold(t) /\ e = [t EXCEPT !.scl = 0, !.holds = @ + 1]
    BY <1>2 DEF Fallen
  <2>2. Falls(t, d)
    BY TurnedIs
  <2>3. t \in Device
    BY <2>2 DEF Falls
  <2>4. SameButClock(e, t)
    <3>1. t.holds + 1 \in Nat /\ 0 \in Bit
      BY <2>3 DEF Device, Bit
    <3> QED BY <2>1, <2>3, <3>1 DEF SameButClock, Device
  <2>5. e.mode # "rest"
    BY <2>1, <2>3 DEF MayHold, Device
  <2> QED BY <2>2, <2>4, <2>5 DEF Falls, SameButClock
<1> QED BY <1>1, <1>2

\* A fall leaves the target in order; so does any edge.
LEMMA FallenOrderly ==
    ASSUME NEW d, NEW c, Orderly(d, c), d.scl = 1, NEW e \in Fallen(d), NEW k \in Bit
    PROVE  Orderly(e, k)
<1>1. Falls(e, d) /\ (e.mode = "rest" => e.scl = 1) /\ e \in Device /\ d \in Device
  BY FallenIs DEF Falls, Orderly
<1>2. CASE d.mode = "rest" \/ (d.mode \in {"addr", "recv"} /\ d.n < Bits)
  BY <1>1, <1>2 DEF Falls, SameButClock, Orderly
<1>3. CASE d.mode \in {"addr", "recv"} /\ d.n = Bits
  BY <1>1, <1>3 DEF Falls, Orderly
<1>4. CASE d.mode \in {"ackAddr", "ackData"}
  BY <1>1, <1>4, BitsPositive DEF Falls, Orderly
<1>5. CASE d.mode \in {"send", "getAck"}
  <2>1. d.n \in 0 .. Bits
    BY <1>1 DEF Device
  <2> QED BY <1>1, <1>5, <2>1, BitsPositive DEF Falls, Orderly
<1> QED BY <1>1, <1>2, <1>3, <1>4, <1>5, BitsPositive DEF Device

\* One way for the lines to go, and what the target makes of it.
Edge(d, c0, d0, c1, d1, e) ==
    /\ c0 = 1 /\ d.scl = 1 /\ c1 = 0 => e \in Fallen(d)
    /\ c0 = 0 /\ d.scl = 1 /\ c1 = 1 => e = Clocked(d, IF d1 = 1 /\ d.sda = 1 THEN 1 ELSE 0)
    /\ d.scl = 0 \/ (c0 = 0 /\ c1 = 0) => e = d
    /\ c0 = 1 /\ c1 = 1 /\ d.scl = 1 =>
         e = IF d.sda = 0 \/ d0 = d1 THEN d ELSE IF d1 = 0 THEN Started(d) ELSE AtRest(d)

\* The target's reaction is an edge, and leaves it in order.
LEMMA ReactIs ==
    ASSUME NEW d \in Device, NEW c0 \in Bit, NEW d0 \in Bit, NEW c1 \in Bit, NEW d1 \in Bit,
           NEW e \in React(d, c0, d0, c1, d1)
    PROVE  Edge(d, c0, d0, c1, d1, e)
<1> DEFINE low == c0 * d.scl     high == c1 * d.scl
           before == d0 * d.sda  after == d1 * d.sda
<1>1. d.scl \in Bit /\ d.sda \in Bit
  BY DEF Device
<1>2. /\ low \in Bit /\ high \in Bit /\ before \in Bit /\ after \in Bit
      /\ low = 1 <=> c0 = 1 /\ d.scl = 1
      /\ high = 1 <=> c1 = 1 /\ d.scl = 1
      /\ before = 1 <=> d0 = 1 /\ d.sda = 1
      /\ after = 1 <=> d1 = 1 /\ d.sda = 1
  BY <1>1, WiredAnd
<1>3. e \in CASE high > low -> {Clocked(d, after)}
              [] high < low -> Fallen(d)
              [] low = 1 /\ high = 1 /\ after < before -> {Started(d)}
              [] low = 1 /\ high = 1 /\ after > before -> {AtRest(d)}
              [] OTHER -> {d}
  BY DEF React
<1> HIDE DEF low, high, before, after
<1>4. CASE high = 1 /\ low = 0
  <2>1. e = Clocked(d, after)
    BY <1>3, <1>4
  <2>2. after = IF d1 = 1 /\ d.sda = 1 THEN 1 ELSE 0
    BY <1>2 DEF Bit
  <2>3. c0 = 0 /\ d.scl = 1 /\ c1 = 1
    BY <1>1, <1>2, <1>4 DEF Bit
  <2> QED BY <2>1, <2>2, <2>3 DEF Edge
<1>5. CASE high = 0 /\ low = 1
  <2>1. e \in Fallen(d)
    BY <1>3, <1>5
  <2>2. c0 = 1 /\ d.scl = 1 /\ c1 = 0
    BY <1>1, <1>2, <1>5 DEF Bit
  <2> QED BY <2>1, <2>2 DEF Edge
<1>6. CASE high = 0 /\ low = 0
  <2>1. e = d
    BY <1>3, <1>6
  <2>2. d.scl = 0 \/ (c0 = 0 /\ c1 = 0)
    BY <1>1, <1>2, <1>6 DEF Bit
  <2> QED BY <1>1, <2>1, <2>2 DEF Edge, Bit
<1>7. CASE high = 1 /\ low = 1
  <2>1. c0 = 1 /\ c1 = 1 /\ d.scl = 1
    BY <1>2, <1>7
  <2>2. e = IF after < before THEN Started(d) ELSE IF after > before THEN AtRest(d) ELSE d
    BY <1>2, <1>3, <1>7 DEF Bit
  <2>3. e = IF d.sda = 0 \/ d0 = d1 THEN d ELSE IF d1 = 0 THEN Started(d) ELSE AtRest(d)
    BY <1>1, <1>2, <2>2 DEF Bit
  <2> QED BY <2>1, <2>3 DEF Edge
<1> QED BY <1>2, <1>4, <1>5, <1>6, <1>7 DEF Bit

LEMMA EdgeOrderly ==
    ASSUME NEW d, NEW c0 \in Bit, NEW d0 \in Bit, NEW c1 \in Bit, NEW d1 \in Bit, NEW e,
           Orderly(d, c0), Edge(d, c0, d0, c1, d1, e)
    PROVE  Orderly(e, c1)
<1>0. d \in Device /\ d.scl \in Bit /\ d.sda \in Bit
  BY DEF Orderly, Device
<1>1. CASE c0 = 1 /\ d.scl = 1 /\ c1 = 0
  BY <1>1, FallenOrderly DEF Edge
<1>2. CASE c0 = 0 /\ d.scl = 1 /\ c1 = 1
  <2>1. PICK level \in Bit : e = Clocked(d, level)
    BY <1>2 DEF Edge, Bit
  <2>2. d.mode \in {"addr", "recv"} => d.n < Bits /\ Len(d.byte) = d.n /\ d.byte \in Seq(Bit)
    BY <1>2 DEF Orderly, Device
  <2>3. /\ e \in Device /\ e.mode = d.mode /\ e.sda = d.sda /\ e.scl = d.scl
        /\ d.mode \in {"addr", "recv"} => e.n = d.n + 1 /\ e.byte = Append(d.byte, level)
        /\ d.mode \notin {"addr", "recv"} => e.n = d.n /\ e.byte = d.byte
    BY <1>0, <2>1, <2>2, ClockedIs
  <2>4. e.mode \in {"addr", "recv"} => Len(e.byte) = e.n
    BY <2>2, <2>3
  <2>5. /\ d.mode \in {"ackAddr", "ackData"} => d.sda = 0
        /\ d.mode \in {"rest", "addr", "recv", "getAck"} => d.sda = 1
        /\ d.mode \in {"ackAddr", "ackData", "send"} => Len(d.byte) = Bits
        /\ d.mode = "send" => d.n >= 1
    BY DEF Orderly
  <2> QED BY <1>2, <2>3, <2>4, <2>5 DEF Orderly
<1>3. CASE d.scl = 0 \/ (c0 = 0 /\ c1 = 0)
  <2>1. e = d
    BY <1>3 DEF Edge
  <2> QED BY <1>3, <2>1 DEF Orderly
<1>4. CASE c0 = 1 /\ c1 = 1 /\ d.scl = 1
  <2>1. e = d \/ e = Started(d) \/ e = AtRest(d)
    BY <1>4 DEF Edge
  <2>2. CASE e = d
    BY <1>4, <2>2 DEF Orderly
  <2>3. CASE e = Started(d)
    <3>1. e \in Device /\ e.mode = "addr" /\ e.n = 0 /\ e.byte = <<>> /\ e.sda = 1 /\ e.scl = d.scl
      BY <1>0, <2>3, StartedIs
    <3>2. Len(e.byte) = 0
      BY <3>1
    <3> QED BY <1>4, <3>1, <3>2 DEF Orderly
  <2>4. CASE e = AtRest(d)
    BY <1>0, <1>4, <2>4, AtRestIs DEF Orderly
  <2> QED BY <2>1, <2>2, <2>3, <2>4
<1> QED BY <1>0, <1>1, <1>2, <1>3, <1>4 DEF Bit

\* A line is driven or let go.
LEMMA DriveIs ==
    ASSUME scl \in Bit, sda \in Bit, Orderly(dev, scl), NEW c \in Bit, NEW d \in Bit, Drive(c, d)
    PROVE  /\ scl' = c /\ sda' = d /\ Orderly(dev', c) /\ Edge(dev, scl, sda, c, d, dev')
           /\ dev' \in Device
<1>1. scl' = c /\ sda' = d /\ dev' \in React(dev, scl, sda, c, d)
  BY DEF Drive
<1>2. Edge(dev, scl, sda, c, d, dev')
  BY <1>1, ReactIs DEF Orderly
<1>3. Orderly(dev', c)
  BY <1>2, EdgeOrderly
<1> QED BY <1>1, <1>2, <1>3 DEF Orderly

\* The target lets go of the clock.
LEMMA LetsGoIs ==
    ASSUME scl \in Bit, sda \in Bit, Orderly(dev, scl), LetsGo
    PROVE  /\ Orderly(dev', scl) /\ dev' \in Device /\ dev.scl = 0 /\ dev'.scl = 1
           /\ dev'.mode = dev.mode /\ dev'.sda = dev.sda /\ dev'.in = dev.in /\ dev'.out = dev.out
           /\ IF scl = 1 /\ dev.mode \in {"addr", "recv"}
              THEN /\ dev.n < Bits /\ dev'.n = dev.n + 1
                   /\ dev'.byte = Append(dev.byte, IF sda = 1 /\ dev.sda = 1 THEN 1 ELSE 0)
              ELSE dev'.n = dev.n /\ dev'.byte = dev.byte
           /\ dev'.acked = IF scl = 1 /\ dev.mode = "getAck" THEN ~(sda = 1 /\ dev.sda = 1) ELSE dev.acked
<1> DEFINE d == [dev EXCEPT !.scl = 1]
           level == IF sda = 1 /\ dev.sda = 1 THEN 1 ELSE 0
<1>1. dev \in Device /\ dev.sda \in Bit /\ dev.byte \in Seq(Bit) /\ dev.mode # "rest"
  BY DEF LetsGo, Orderly, Device
<1>2. dev.scl = 0 /\ sda * dev.sda = level /\ level \in Bit
  BY <1>1, WiredAnd DEF LetsGo, Bit
<1>3. /\ d \in Device /\ d.scl = 1 /\ d.mode = dev.mode /\ d.n = dev.n /\ d.byte = dev.byte /\ d.sda = dev.sda
      /\ d.acked = dev.acked /\ d.in = dev.in /\ d.out = dev.out
  BY <1>1 DEF Device, Bit
<1>4. dev' = IF scl = 1 THEN Clocked(d, level) ELSE d
  BY <1>2 DEF LetsGo
<1>5. d.mode \in {"addr", "recv"} => d.n < Bits /\ Len(d.byte) = d.n
  BY <1>2, <1>3 DEF Orderly
<1>6. d.mode = "getAck" => ~d.acked
  BY <1>2, <1>3 DEF Orderly
<1> HIDE DEF d, level
<1>7. CASE scl = 1
  <2>1. /\ dev' \in Device /\ dev'.mode = d.mode /\ dev'.sda = d.sda /\ dev'.scl = d.scl
        /\ dev'.in = d.in /\ dev'.out = d.out
        /\ d.mode \in {"addr", "recv"} => dev'.n = d.n + 1 /\ dev'.byte = Append(d.byte, level)
        /\ d.mode \notin {"addr", "recv"} => dev'.n = d.n /\ dev'.byte = d.byte
        /\ dev'.acked = IF d.mode = "getAck" THEN level = 0 ELSE d.acked
    BY <1>2, <1>3, <1>4, <1>5, <1>7, ClockedIs
  <2>2. dev'.mode \in {"addr", "recv"} => Len(dev'.byte) = dev'.n
    BY <1>1, <1>3, <1>5, <2>1
  <2>3. Orderly(dev', scl)
    BY <1>1, <1>3, <1>7, <2>1, <2>2 DEF Orderly
  <2>4. (level = 0) = ~(sda = 1 /\ dev.sda = 1)
    BY DEF level
  <2> QED BY <1>2, <1>3, <1>5, <1>7, <2>1, <2>3, <2>4 DEF level
<1>8. CASE scl # 1
  <2>1. dev' = d
    BY <1>4, <1>8
  <2>2. Orderly(dev', scl)
    BY <1>1, <1>2, <1>3, <1>6, <1>8, <2>1 DEF Orderly, Bit
  <2> QED BY <1>2, <1>3, <1>8, <2>1, <2>2
<1> QED BY <1>7, <1>8

-----------------------------------------------------------------------------
(* The operations of the stages. *)

LineOps == {"sda0", "sda1", "scl0", "scl1", "read"}

\* Where in a group of three operations one is.
LEMMA ByThree ==
    ASSUME NEW i \in Nat \ {0}
    PROVE  \E k \in Nat : k >= 1 /\ (i = 3 * k - 2 \/ i = 3 * k - 1 \/ i = 3 * k)
<1> DEFINE k == (i + 2) \div 3
<1>1. k \in Nat /\ k >= 1 /\ (i = 3 * k - 2 \/ i = 3 * k - 1 \/ i = 3 * k)
  OBVIOUS
<1> QED BY <1>1

Glues(q, s, t) ==
    /\ q \in Seq(LineOps) /\ Len(q) = Len(s) + Len(t)
    /\ \A i \in 1 .. Len(s) : q[i] = s[i]
    /\ \A i \in 1 .. Len(t) : q[Len(s) + i] = t[i]

\* Sequences put together, and repeated.
LEMMA Glued ==
    ASSUME NEW s \in Seq(LineOps), NEW t \in Seq(LineOps)
    PROVE  Glues(s \o t, s, t)
BY DEF Glues

\* The operations of each stage, one by one.
LEMMA StartOps ==
    /\ Start.kind = "start" /\ Start.ops \in Seq(LineOps) /\ Len(Start.ops) = 4
    /\ Start.ops[1] = "sda1" /\ Start.ops[2] = "scl1" /\ Start.ops[3] = "sda0" /\ Start.ops[4] = "scl0"
BY DEF Start, LineOps

LEMMA StopOps ==
    /\ Stop.kind = "stop" /\ Stop.ops \in Seq(LineOps) /\ Len(Stop.ops) = 3
    /\ Stop.ops[1] = "sda0" /\ Stop.ops[2] = "scl1" /\ Stop.ops[3] = "sda1"
BY DEF Stop, LineOps

LEMMA TwoTimes ==
    ASSUME NEW n \in Nat, NEW x \in LineOps, NEW y \in LineOps
    PROVE  LET s == Times(n, <<x, y>>)
           IN /\ s \in Seq(LineOps) /\ Len(s) = 2 * n
              /\ \A k \in 1 .. n : s[2 * k - 1] = x /\ s[2 * k] = y
<1> DEFINE s == Times(n, <<x, y>>)
<1>1. s = [k \in 1 .. n * 2 |-> <<x, y>>[((k - 1) % 2) + 1]]
  BY DEF Times
<1>2. \A k \in 1 .. n * 2 : <<x, y>>[((k - 1) % 2) + 1] \in LineOps
  <2> TAKE k \in 1 .. n * 2
  <2>1. (k - 1) % 2 = 0 \/ (k - 1) % 2 = 1
    OBVIOUS
  <2> QED BY <2>1
<1>3. s \in Seq(LineOps) /\ Len(s) = 2 * n
  BY <1>1, <1>2
<1>4. ASSUME NEW k \in 1 .. n PROVE s[2 * k - 1] = x /\ s[2 * k] = y
  <2>1. (2 * k - 1 - 1) % 2 = 0 /\ (2 * k - 1) % 2 = 1
    OBVIOUS
  <2>2. 2 * k - 1 \in 1 .. n * 2 /\ 2 * k \in 1 .. n * 2
    OBVIOUS
  <2> QED BY <1>1, <2>1, <2>2
<1> QED BY <1>3, <1>4

Thrice(s, n, x, y, z) ==
    /\ s \in Seq(LineOps) /\ Len(s) = 3 * n
    /\ \A k \in 1 .. n : s[3 * k - 2] = x /\ s[3 * k - 1] = y /\ s[3 * k] = z

LEMMA ThreeTimes ==
    ASSUME NEW n \in Nat, NEW x \in LineOps, NEW y \in LineOps, NEW z \in LineOps
    PROVE  Thrice(Times(n, <<x, y, z>>), n, x, y, z)
<1> DEFINE s == Times(n, <<x, y, z>>)
<1>1. s = [k \in 1 .. n * 3 |-> <<x, y, z>>[((k - 1) % 3) + 1]]
  BY DEF Times
<1>2. \A k \in 1 .. n * 3 : <<x, y, z>>[((k - 1) % 3) + 1] \in LineOps
  <2> TAKE k \in 1 .. n * 3
  <2>1. (k - 1) % 3 = 0 \/ (k - 1) % 3 = 1 \/ (k - 1) % 3 = 2
    OBVIOUS
  <2> QED BY <2>1
<1>3. s \in Seq(LineOps) /\ Len(s) = 3 * n
  <2>1. n * 3 \in Nat /\ n * 3 = 3 * n
    OBVIOUS
  <2>2. s \in [1 .. n * 3 -> LineOps]
    BY <1>1, <1>2
  <2> HIDE DEF s
  <2> QED BY <2>1, <2>2
<1>4. ASSUME NEW k \in 1 .. n PROVE s[3 * k - 2] = x /\ s[3 * k - 1] = y /\ s[3 * k] = z
  <2>1. (3 * k - 2 - 1) % 3 = 0 /\ (3 * k - 1 - 1) % 3 = 1 /\ (3 * k - 1) % 3 = 2
    OBVIOUS
  <2>2. 3 * k - 2 \in 1 .. n * 3 /\ 3 * k - 1 \in 1 .. n * 3 /\ 3 * k \in 1 .. n * 3
    OBVIOUS
  <2> QED BY <1>1, <2>1, <2>2
<1> QED BY <1>3, <1>4 DEF Thrice

LEMMA RecoverOps ==
    /\ Recover.kind = "recover" /\ Recover.ops \in Seq(LineOps) /\ Len(Recover.ops) = 2 * Bits + 6
    /\ Recover.ops[1] = "sda1"
    /\ \A k \in 1 .. Bits + 1 : Recover.ops[2 * k] = "scl0" /\ Recover.ops[2 * k + 1] = "scl1"
    /\ Recover.ops[2 * Bits + 4] = "sda0" /\ Recover.ops[2 * Bits + 5] = "scl1"
    /\ Recover.ops[2 * Bits + 6] = "sda1"
<1> DEFINE p == Times(Bits + 1, <<"scl0", "scl1">>)
<1>1. Bits + 1 \in Nat /\ "scl0" \in LineOps /\ "scl1" \in LineOps
  BY BitsPositive DEF LineOps
<1>2. /\ p \in Seq(LineOps) /\ Len(p) = 2 * (Bits + 1)
      /\ \A k \in 1 .. Bits + 1 : p[2 * k - 1] = "scl0" /\ p[2 * k] = "scl1"
  BY <1>1, TwoTimes
<1>3. Recover.kind = "recover" /\ Recover.ops = <<"sda1">> \o p \o Stop.ops
  BY DEF Recover
<1> HIDE DEF p
<1> DEFINE q == <<"sda1">> \o p
<1>4. /\ q \in Seq(LineOps) /\ Len(q) = 2 * Bits + 3 /\ q[1] = "sda1"
      /\ \A i \in 1 .. 2 * Bits + 2 : q[i + 1] = p[i]
  BY <1>2, BitsPositive DEF LineOps
<1>5. \A k \in 1 .. Bits + 1 : q[2 * k] = "scl0" /\ q[2 * k + 1] = "scl1"
  <2> TAKE k \in 1 .. Bits + 1
  <2>1. 2 * k - 1 \in 1 .. 2 * Bits + 2 /\ 2 * k \in 1 .. 2 * Bits + 2 /\ (2 * k - 1) + 1 = 2 * k
    BY BitsPositive
  <2> QED BY <1>2, <1>4, <2>1
<1>6. Recover.ops = q \o Stop.ops
  BY <1>3
<1> HIDE DEF q
<1>7. /\ Recover.ops \in Seq(LineOps) /\ Len(Recover.ops) = 2 * Bits + 6
      /\ \A i \in 1 .. 2 * Bits + 3 : Recover.ops[i] = q[i]
      /\ \A i \in 1 .. 3 : Recover.ops[2 * Bits + 3 + i] = Stop.ops[i]
  <2>1. 2 * Bits + 3 \in Nat /\ 3 \in Nat /\ (2 * Bits + 3) + 3 = 2 * Bits + 6
    BY BitsPositive
  <2>2. Glues(q \o Stop.ops, q, Stop.ops)
    BY <1>4, StopOps, Glued
  <2> QED BY <1>4, <1>6, <2>1, <2>2, StopOps DEF Glues
<1>8. \A k \in 1 .. Bits + 1 : 2 * k \in 1 .. 2 * Bits + 3 /\ 2 * k + 1 \in 1 .. 2 * Bits + 3
  BY BitsPositive
<1>9. Recover.ops[1] = "sda1"
  BY <1>4, <1>7, BitsPositive
<1>10. /\ Recover.ops[2 * Bits + 4] = "sda0" /\ Recover.ops[2 * Bits + 5] = "scl1"
       /\ Recover.ops[2 * Bits + 6] = "sda1"
  BY <1>7, StopOps, BitsPositive
<1> QED BY <1>3, <1>5, <1>7, <1>8, <1>9, <1>10

\* The operations of a byte that is sent, and of one that is received.
SendsByte(ops, b) ==
    /\ ops \in Seq(LineOps) /\ Len(ops) = 3 * Bits + 4
    /\ \A k \in 1 .. Bits :
         /\ ops[3 * k - 2] = IF b[k] = 1 THEN "sda1" ELSE "sda0"
         /\ ops[3 * k - 1] = "scl1" /\ ops[3 * k] = "scl0"
    /\ ops[3 * Bits + 1] = "sda1" /\ ops[3 * Bits + 2] = "scl1"
    /\ ops[3 * Bits + 3] = "read" /\ ops[3 * Bits + 4] = "scl0"
ReceivesByte(ops, ack) ==
    /\ ops \in Seq(LineOps) /\ Len(ops) = 3 * Bits + 5 /\ ops[1] = "sda1"
    /\ \A k \in 1 .. Bits :
         ops[3 * k - 1] = "scl1" /\ ops[3 * k] = "read" /\ ops[3 * k + 1] = "scl0"
    /\ ops[3 * Bits + 2] = IF ack THEN "sda0" ELSE "sda1"
    /\ ops[3 * Bits + 3] = "scl1" /\ ops[3 * Bits + 4] = "scl0" /\ ops[3 * Bits + 5] = "sda1"

LEMMA ShiftedIs ==
    ASSUME NEW b \in Byte
    PROVE  /\ Shifted(b) \in Seq(LineOps) /\ Len(Shifted(b)) = 3 * Bits
           /\ \A k \in 1 .. Bits :
                /\ Shifted(b)[3 * k - 2] = IF b[k] = 1 THEN "sda1" ELSE "sda0"
                /\ Shifted(b)[3 * k - 1] = "scl1" /\ Shifted(b)[3 * k] = "scl0"
<1> DEFINE F(k) == CASE k % 3 = 1 -> IF b[(k + 2) \div 3] = 1 THEN "sda1" ELSE "sda0"
                     [] k % 3 = 2 -> "scl1"
                     [] k % 3 = 0 -> "scl0"
<1>1. Shifted(b) = [k \in 1 .. 3 * Bits |-> F(k)]
  BY DEF Shifted
<1>2. ASSUME NEW k \in 1 .. 3 * Bits PROVE F(k) \in LineOps
  <2>1. k % 3 = 0 \/ k % 3 = 1 \/ k % 3 = 2
    BY BitsPositive
  <2> QED BY <2>1 DEF LineOps
<1>3. ASSUME NEW k \in 1 .. Bits
      PROVE  /\ 3 * k - 2 \in 1 .. 3 * Bits /\ F(3 * k - 2) = IF b[k] = 1 THEN "sda1" ELSE "sda0"
             /\ 3 * k - 1 \in 1 .. 3 * Bits /\ F(3 * k - 1) = "scl1"
             /\ 3 * k \in 1 .. 3 * Bits /\ F(3 * k) = "scl0"
  <2>1. /\ (3 * k - 2) % 3 = 1 /\ (3 * k - 1) % 3 = 2 /\ (3 * k) % 3 = 0
        /\ ((3 * k - 2) + 2) \div 3 = k
    BY BitsPositive
  <2>2. 3 * k - 2 \in 1 .. 3 * Bits /\ 3 * k - 1 \in 1 .. 3 * Bits /\ 3 * k \in 1 .. 3 * Bits
    BY BitsPositive
  <2>3. F(3 * k - 2) = IF b[k] = 1 THEN "sda1" ELSE "sda0"
    BY <2>1
  <2>4. F(3 * k - 1) = "scl1"
    BY <2>1
  <2>5. F(3 * k) = "scl0"
    BY <2>1
  <2> QED BY <2>2, <2>3, <2>4, <2>5
<1> HIDE DEF F
<1>4. Shifted(b) \in Seq(LineOps) /\ Len(Shifted(b)) = 3 * Bits
  BY <1>1, <1>2, BitsPositive
<1> QED BY <1>1, <1>3, <1>4

LEMMA SendOps ==
    ASSUME NEW b \in Byte, NEW error
    PROVE  Send(b, error).kind = "send" /\ Send(b, error).error = error /\ SendsByte(Send(b, error).ops, b)
<1> DEFINE s == Shifted(b)  t == <<"sda1", "scl1", "read", "scl0">>
<1>1. /\ Send(b, error).kind = "send" /\ Send(b, error).error = error
      /\ Send(b, error).ops = s \o t
  BY DEF Send
<1>2. t \in Seq(LineOps) /\ Len(t) = 4 /\ t[1] = "sda1" /\ t[2] = "scl1" /\ t[3] = "read" /\ t[4] = "scl0"
  BY DEF LineOps
<1> HIDE DEF t
<1>3. s \in Seq(LineOps) /\ Len(s) = 3 * Bits
  BY ShiftedIs
<1>4. /\ s \o t \in Seq(LineOps) /\ Len(s \o t) = 3 * Bits + 4
      /\ \A i \in 1 .. 3 * Bits : (s \o t)[i] = s[i]
      /\ \A i \in 1 .. 4 : (s \o t)[3 * Bits + i] = t[i]
  <2>1. 3 * Bits \in Nat /\ 4 \in Nat
    BY BitsPositive
  <2>2. Glues(s \o t, s, t)
    BY <1>2, <1>3, Glued
  <2> HIDE DEF s
  <2> QED BY <1>2, <1>3, <2>1, <2>2 DEF Glues
<1>5. \A k \in 1 .. Bits : 3 * k - 2 \in 1 .. 3 * Bits /\ 3 * k - 1 \in 1 .. 3 * Bits /\ 3 * k \in 1 .. 3 * Bits
  BY BitsPositive
<1>6. \A k \in 1 .. Bits :
         /\ (s \o t)[3 * k - 2] = IF b[k] = 1 THEN "sda1" ELSE "sda0"
         /\ (s \o t)[3 * k - 1] = "scl1" /\ (s \o t)[3 * k] = "scl0"
  BY <1>4, <1>5, ShiftedIs
<1>7. /\ (s \o t)[3 * Bits + 1] = t[1] /\ (s \o t)[3 * Bits + 2] = t[2]
      /\ (s \o t)[3 * Bits + 3] = t[3] /\ (s \o t)[3 * Bits + 4] = t[4]
  <2>1. 1 \in 1 .. 4 /\ 2 \in 1 .. 4 /\ 3 \in 1 .. 4 /\ 4 \in 1 .. 4
    OBVIOUS
  <2> HIDE DEF s
  <2> QED BY <1>4, <2>1
<1> HIDE DEF s
<1> QED BY <1>1, <1>2, <1>4, <1>6, <1>7 DEF SendsByte

LEMMA BitOps ==
    LET p == Times(Bits, <<"scl1", "read", "scl0">>)
    IN Thrice(p, Bits, "scl1", "read", "scl0")
<1>1. "scl1" \in LineOps /\ "read" \in LineOps /\ "scl0" \in LineOps /\ Bits \in Nat
  BY BitsPositive DEF LineOps
<1> QED BY <1>1, ThreeTimes

LEMMA ReceiveOps ==
    ASSUME NEW ack \in BOOLEAN
    PROVE  Receive(ack).kind = "receive" /\ ReceivesByte(Receive(ack).ops, ack)
<1> DEFINE p == Times(Bits, <<"scl1", "read", "scl0">>)
           t == <<IF ack THEN "sda0" ELSE "sda1", "scl1", "scl0", "sda1">>
           q == <<"sda1">> \o p
<1>2. /\ p \in Seq(LineOps) /\ Len(p) = 3 * Bits
      /\ \A k \in 1 .. Bits : p[3 * k - 2] = "scl1" /\ p[3 * k - 1] = "read" /\ p[3 * k] = "scl0"
  BY BitOps DEF Thrice
<1>3. /\ t \in Seq(LineOps) /\ Len(t) = 4 /\ t[1] = IF ack THEN "sda0" ELSE "sda1"
      /\ t[2] = "scl1" /\ t[3] = "scl0" /\ t[4] = "sda1"
  BY DEF LineOps
<1>4. Receive(ack).kind = "receive" /\ Receive(ack).ops = q \o t
  BY DEF Receive
<1> HIDE DEF p, t
<1>5. /\ q \in Seq(LineOps) /\ Len(q) = 3 * Bits + 1 /\ q[1] = "sda1"
      /\ \A i \in 1 .. 3 * Bits : q[i + 1] = p[i]
  BY <1>2, BitsPositive DEF LineOps
<1> HIDE DEF q
<1>6. /\ q \o t \in Seq(LineOps) /\ Len(q \o t) = 3 * Bits + 5
      /\ \A i \in 1 .. 3 * Bits + 1 : (q \o t)[i] = q[i]
      /\ \A i \in 1 .. 4 : (q \o t)[3 * Bits + 1 + i] = t[i]
  <2>1. 3 * Bits + 1 \in Nat /\ 4 \in Nat /\ (3 * Bits + 1) + 4 = 3 * Bits + 5
    BY BitsPositive
  <2>2. Glues(q \o t, q, t)
    BY <1>3, <1>5, Glued
  <2> QED BY <1>3, <1>5, <2>1, <2>2 DEF Glues
<1>7. ASSUME NEW k \in 1 .. Bits
      PROVE  (q \o t)[3 * k - 1] = "scl1" /\ (q \o t)[3 * k] = "read" /\ (q \o t)[3 * k + 1] = "scl0"
  <2>1. /\ 3 * k - 2 \in 1 .. 3 * Bits /\ 3 * k - 1 \in 1 .. 3 * Bits /\ 3 * k \in 1 .. 3 * Bits
        /\ 3 * k + 1 \in 1 .. 3 * Bits + 1 /\ (3 * k - 2) + 1 = 3 * k - 1 /\ (3 * k - 1) + 1 = 3 * k
    BY BitsPositive
  <2>2. q[3 * k - 1] = "scl1" /\ q[3 * k] = "read" /\ q[3 * k + 1] = "scl0"
    BY <1>2, <1>5, <2>1
  <2>3. 3 * k - 1 \in 1 .. 3 * Bits + 1 /\ 3 * k \in 1 .. 3 * Bits + 1
    BY BitsPositive
  <2> QED BY <1>6, <2>1, <2>2, <2>3
<1>8. /\ (q \o t)[1] = "sda1" /\ (q \o t)[3 * Bits + 2] = t[1] /\ (q \o t)[3 * Bits + 3] = t[2]
      /\ (q \o t)[3 * Bits + 4] = t[3] /\ (q \o t)[3 * Bits + 5] = t[4]
  BY <1>5, <1>6, BitsPositive
<1> QED BY <1>3, <1>4, <1>6, <1>7, <1>8 DEF ReceivesByte

LEMMA AcksDiffer == Receive(TRUE) # Receive(FALSE)
BY ReceiveOps DEF ReceivesByte

-----------------------------------------------------------------------------
(* One operation of a stage: from the position p to q, with the lines, the   *)
(* target and what has been read before and after it.                        *)

Level(x, d) == IF x = 1 /\ d.sda = 1 THEN 1 ELSE 0

\* The target has seen the clock rise, with the data line at x.
Samples(d, x, e) ==
    /\ e \in Device /\ e.mode = d.mode /\ e.sda = d.sda /\ e.in = d.in /\ e.out = d.out
    /\ IF d.mode \in {"addr", "recv"}
       THEN d.n < Bits /\ e.n = d.n + 1 /\ e.byte = Append(d.byte, Level(x, d))
       ELSE e.n = d.n /\ e.byte = d.byte
    /\ e.acked = IF d.mode = "getAck" THEN Level(x, d) = 0 ELSE d.acked

Stays(d, e) ==
    /\ e.mode = d.mode /\ e.sda = d.sda /\ e.in = d.in /\ e.out = d.out /\ e.n = d.n /\ e.byte = d.byte
    /\ e.acked = d.acked

MovesData(o, p, c, x, d, g, q, c1, x1, e, h) ==
    /\ q = p + 1 /\ c1 = c /\ x1 = (IF o = "sda1" THEN 1 ELSE 0) /\ h = g
    /\ c = 0 => e = d
    /\ High(c, d) => e = IF d.sda = 0 \/ x = x1 THEN d ELSE IF x1 = 0 THEN Started(d) ELSE AtRest(d)
    /\ ~High(c, d) => e = d
MovesUp(p, c, x, d, g, q, c1, x1, e, h) ==
    /\ c1 = 1 /\ x1 = x /\ h = g
    /\ \/ q = p /\ c = 0 /\ d.scl = 0 /\ e = d
       \/ q = p + 1 /\ c = 0 /\ d.scl = 1 /\ e.scl = 1 /\ Samples(d, x, e)
       \/ q = p + 1 /\ c = 1 /\ d.scl = 1 /\ e = d
MovesDown(p, c, x, d, g, q, c1, x1, e, h) ==
    /\ q = p + 1 /\ c1 = 0 /\ x1 = x /\ h = g
    /\ IF High(c, d) THEN Falls(e, d) ELSE e = d
Reads(p, c, x, d, g, q, c1, x1, e, h) ==
    /\ q = p + 1 /\ c1 = c /\ x1 = x /\ e = d /\ h = Append(g, Level(x, d))

Moves(o, p, c, x, d, g, q, c1, x1, e, h) ==
    CASE o \in {"sda0", "sda1"} -> MovesData(o, p, c, x, d, g, q, c1, x1, e, h)
      [] o = "scl1" -> MovesUp(p, c, x, d, g, q, c1, x1, e, h)
      [] o = "scl0" -> MovesDown(p, c, x, d, g, q, c1, x1, e, h)
      [] o = "read" -> Reads(p, c, x, d, g, q, c1, x1, e, h)

\* An operation, told by its name.
LEMMA MovesIs ==
    ASSUME NEW o, NEW p, NEW c, NEW x, NEW d, NEW g, NEW q, NEW c1, NEW x1, NEW e, NEW h,
           Moves(o, p, c, x, d, g, q, c1, x1, e, h)
    PROVE  /\ o = "sda0" => MovesData("sda0", p, c, x, d, g, q, c1, x1, e, h)
           /\ o = "sda1" => MovesData("sda1", p, c, x, d, g, q, c1, x1, e, h)
           /\ o = "scl1" => MovesUp(p, c, x, d, g, q, c1, x1, e, h)
           /\ o = "scl0" => MovesDown(p, c, x, d, g, q, c1, x1, e, h)
           /\ o = "read" => Reads(p, c, x, d, g, q, c1, x1, e, h)
BY DEF Moves

\* The target lets go of the clock.
Releases(c, x, d, e) ==
    /\ d.scl = 0 /\ e.scl = 1 /\ e \in Device
    /\ IF c = 1 THEN Samples(d, x, e) ELSE Stays(d, e)

-----------------------------------------------------------------------------
(* The start and the stop. *)

\* A target that does not answer lets both lines go.
LEMMA QuietLine ==
    ASSUME NEW d, NEW c, Orderly(d, c)
    PROVE  /\ d \in Device /\ d.scl \in Bit
           /\ d.mode \in Quiet \cup {"addr", "getAck"} => d.sda = 1
           /\ d.mode = "rest" => d.scl = 1
BY DEF Orderly, Device, Quiet

\* Each operation of a start, and of a stop, brings it one step on or waits for the clock.
LEMMA StartKeeps ==
    ASSUME NEW p \in 0 .. 3, NEW c \in Bit, NEW x \in Bit, NEW d, NEW g, NEW q, NEW c1, NEW x1, NEW e, NEW h,
           Orderly(d, c), InStart(p, c, x, d), Moves(Start.ops[p + 1], p, c, x, d, g, q, c1, x1, e, h)
    PROVE  /\ q \in {p, p + 1} /\ InStart(q, c1, x1, e) /\ e.in = d.in /\ e.out = d.out
           /\ d.mode # "send" /\ e.mode # "send" /\ h = g
<1>0. /\ d \in Device /\ d.scl \in Bit /\ (d.mode \in Quiet => d.sda = 1) /\ (d.mode = "addr" => d.sda = 1)
      /\ (d.mode = "rest" => d.scl = 1)
  BY QuietLine
<1>1. CASE p = 0
  <2>0. Start.ops[p + 1] = "sda1"
    BY <1>1, StartOps
  <2>1. MovesData("sda1", p, c, x, d, g, q, c1, x1, e, h)
    BY <2>0, MovesIs
  <2>2. x = 1 /\ d.mode \in Quiet
    BY <1>1 DEF InStart
  <2>3. q = 1 /\ x1 = 1 /\ h = g /\ e = d
    BY <1>0, <1>1, <2>1, <2>2 DEF MovesData
  <2> QED BY <1>1, <2>2, <2>3 DEF InStart, Quiet
<1>2. CASE p = 1
  <2>0. Start.ops[p + 1] = "scl1"
    BY <1>2, StartOps
  <2>1. MovesUp(p, c, x, d, g, q, c1, x1, e, h)
    BY <2>0, MovesIs
  <2>2. x = 1 /\ d.mode \in Quiet
    BY <1>2 DEF InStart
  <2>3. /\ q \in {1, 2} /\ x1 = 1 /\ h = g /\ c1 = 1 /\ (q = 2 => e.scl = 1)
        /\ e.mode = d.mode /\ e.in = d.in /\ e.out = d.out
    BY <1>0, <1>2, <2>1, <2>2 DEF MovesUp, Samples
  <2>4. CASE q = 1
    BY <1>2, <2>2, <2>3, <2>4 DEF InStart, Quiet
  <2>5. CASE q = 2
    BY <1>2, <2>2, <2>3, <2>5 DEF InStart, Quiet, High
  <2> QED BY <2>3, <2>4, <2>5
<1>3. CASE p = 2
  <2>0. Start.ops[p + 1] = "sda0"
    BY <1>3, StartOps
  <2>1. MovesData("sda0", p, c, x, d, g, q, c1, x1, e, h)
    BY <2>0, MovesIs
  <2>2. x = 1 /\ d.mode \in Quiet /\ High(c, d)
    BY <1>3 DEF InStart
  <2>3. q = 3 /\ c1 = c /\ h = g /\ e = Started(d)
    BY <1>0, <1>3, <2>1, <2>2 DEF MovesData, Quiet
  <2>4. e.mode = "addr" /\ e.n = 0 /\ e.scl = d.scl /\ e.in = d.in /\ e.out = d.out
    BY <1>0, <2>3, StartedIs
  <2> QED BY <1>3, <2>2, <2>3, <2>4 DEF InStart, Quiet, High, Listens
<1>4. CASE p = 3
  <2>0. Start.ops[p + 1] = "scl0"
    BY <1>4, StartOps
  <2>1. MovesDown(p, c, x, d, g, q, c1, x1, e, h)
    BY <2>0, MovesIs
  <2>2. High(c, d) /\ d.mode = "addr" /\ d.n = 0
    BY <1>4 DEF InStart, Listens
  <2>3. q = 4 /\ c1 = 0 /\ h = g /\ SameButClock(e, d)
    BY <1>4, <2>1, <2>2, BitsPositive DEF MovesDown, Falls
  <2> QED BY <1>4, <2>2, <2>3 DEF InStart, Listens, SameButClock
<1> QED BY <1>1, <1>2, <1>3, <1>4

LEMMA StopKeeps ==
    ASSUME NEW p \in 0 .. 2, NEW c \in Bit, NEW x \in Bit, NEW d, NEW g, NEW q, NEW c1, NEW x1, NEW e, NEW h,
           Orderly(d, c), InStop(p, c, x, d), Moves(Stop.ops[p + 1], p, c, x, d, g, q, c1, x1, e, h)
    PROVE  /\ q \in {p, p + 1} /\ InStop(q, c1, x1, e) /\ e.in = d.in /\ e.out = d.out
           /\ d.mode # "send" /\ e.mode # "send" /\ h = g
<1>0. /\ d \in Device /\ d.scl \in Bit /\ (d.mode \in Quiet => d.sda = 1) /\ (d.mode = "rest" => d.scl = 1)
  BY QuietLine
<1>1. CASE p = 0
  <2>0. Stop.ops[p + 1] = "sda0"
    BY <1>1, StopOps
  <2>1. MovesData("sda0", p, c, x, d, g, q, c1, x1, e, h)
    BY <2>0, MovesIs
  <2>2. c = 0 /\ d.mode \in Quiet
    BY <1>1 DEF InStop
  <2>3. q = 1 /\ x1 = 0 /\ h = g /\ e = d
    BY <1>0, <1>1, <2>1, <2>2 DEF MovesData
  <2> QED BY <1>1, <2>2, <2>3 DEF InStop, Quiet
<1>2. CASE p = 1
  <2>0. Stop.ops[p + 1] = "scl1"
    BY <1>2, StopOps
  <2>1. MovesUp(p, c, x, d, g, q, c1, x1, e, h)
    BY <2>0, MovesIs
  <2>2. x = 0 /\ d.mode \in Quiet
    BY <1>2 DEF InStop
  <2>3. /\ q \in {1, 2} /\ x1 = 0 /\ h = g /\ c1 = 1 /\ (q = 2 => e.scl = 1)
        /\ e.mode = d.mode /\ e.in = d.in /\ e.out = d.out
    BY <1>0, <1>2, <2>1, <2>2 DEF MovesUp, Samples
  <2> QED BY <1>2, <2>2, <2>3 DEF InStop, Quiet, High
<1>3. CASE p = 2
  <2>0. Stop.ops[p + 1] = "sda1"
    BY <1>3, StopOps
  <2>1. MovesData("sda1", p, c, x, d, g, q, c1, x1, e, h)
    BY <2>0, MovesIs
  <2>2. x = 0 /\ d.mode \in Quiet /\ High(c, d)
    BY <1>3 DEF InStop
  <2>3. q = 3 /\ c1 = c /\ x1 = 1 /\ h = g /\ e = AtRest(d)
    BY <1>0, <1>3, <2>1, <2>2 DEF MovesData, Quiet
  <2>4. e.mode = "rest" /\ e.in = d.in /\ e.out = d.out
    BY <1>0, <2>3, AtRestIs
  <2> QED BY <1>3, <2>2, <2>3, <2>4 DEF InStop, Quiet, High, Free
<1> QED BY <1>1, <1>2, <1>3

\* The start, the stop and the stages to come do not tell e from d.
ReleasedAlike(p, c, x, d, e) ==
    /\ e.mode = d.mode /\ e.in = d.in /\ e.out = d.out /\ d.mode # "rest"
    /\ d.mode = "send" => e.byte = d.byte
    /\ InStart(p, c, x, d) => InStart(p, c, x, e)
    /\ InStop(p, c, x, d) => InStop(p, c, x, e)
    /\ \A s : Ready(s, c, x, d) => Ready(s, c, x, e)

\* A target that lets go of the clock leaves a start and a stop where they are.
LEMMA ReleaseKeepsEnds ==
    ASSUME NEW p, NEW c \in Bit, NEW x \in Bit, NEW d, NEW e, Orderly(d, c), Releases(c, x, d, e)
    PROVE  ReleasedAlike(p, c, x, d, e)
<1>1. d.scl = 0 /\ d.mode # "rest" /\ e.mode = d.mode /\ e.in = d.in /\ e.out = d.out
  BY DEF Releases, Samples, Stays, Orderly
<1>2. d.mode = "send" => e.byte = d.byte /\ e.n = d.n /\ e.sda = d.sda
  BY DEF Releases, Samples, Stays
<1>3. c # 1 => e.n = d.n
  BY DEF Releases, Stays
<1>4. ~High(c, d)
  BY <1>1 DEF High
<1>5. InStart(p, c, x, d) => InStart(p, c, x, e)
  BY <1>1, <1>3, <1>4 DEF InStart, Listens
<1>6. InStop(p, c, x, d) => InStop(p, c, x, e)
  BY <1>1, <1>4 DEF InStop, Free
<1>7. ASSUME NEW s, Ready(s, c, x, d) PROVE Ready(s, c, x, e)
  BY <1>1, <1>2, <1>3, <1>7 DEF Ready, Listens, Speaks
<1> QED BY <1>1, <1>2, <1>5, <1>6, <1>7 DEF ReleasedAlike

-----------------------------------------------------------------------------
(* A byte to the target. *)

\* Where a byte's stage is: at one of its bits, or at the acknowledgement.
LEMMA SendBit ==
    ASSUME NEW b, NEW address, NEW k \in 1 .. Bits, NEW p, p = 3 * k - 3 \/ p = 3 * k - 2 \/ p = 3 * k - 1,
           NEW c, NEW x, NEW d, NEW g
    PROVE  InSend(b, address, p, c, x, d, g) <=> SendsBit(k, b, address, p, c, x, d)
<1>1. p < 3 * Bits /\ p \in Nat
  BY BitsPositive
<1>2. ASSUME NEW j \in 1 .. Bits, j # k PROVE SendsBit(j, b, address, p, c, x, d)
  <2>1. p # 3 * j - 3 /\ p # 3 * j - 2 /\ p # 3 * j - 1
    BY <1>2, BitsPositive
  <2> QED BY <2>1 DEF SendsBit
<1>3. InSend(b, address, p, c, x, d, g) <=> \A j \in 1 .. Bits : SendsBit(j, b, address, p, c, x, d)
  BY <1>1, BitsPositive DEF InSend
<1> QED BY <1>2, <1>3

LEMMA SendTail ==
    ASSUME NEW b, NEW address, NEW p \in 3 * Bits .. 3 * Bits + 4, NEW c, NEW x, NEW d, NEW g
    PROVE  InSend(b, address, p, c, x, d, g) <=>
             /\ p < 3 * Bits + 4 => Answer(b, address, d)
             /\ p \in {3 * Bits, 3 * Bits + 4} => c = 0
             /\ p > 3 * Bits => x = 1
             /\ p \in {3 * Bits + 2, 3 * Bits + 3} => High(c, d)
             /\ p = 3 * Bits + 3 => g = <<d.sda>>
             /\ p = 3 * Bits + 4 => Answered(b, address, d, g[1] = 1)
<1>1. \A k \in 1 .. Bits : p # 3 * k - 3 /\ p # 3 * k - 2 /\ p # 3 * k - 1
  BY BitsPositive
<1>2. p >= 3 * Bits
  BY BitsPositive
<1> QED BY <1>1, <1>2 DEF InSend, SendsBit

\* What a move of the byte b makes of the target's account.
Accounts(b, address, p, d, g, q, e, h) ==
    /\ d.mode # "send"
    /\ e.out = IF e.mode = "send" THEN Append(d.out, e.byte) ELSE d.out
    /\ IF address THEN e.in = d.in
       ELSE /\ Taken(p, d, g) => Taken(q, e, h)
            /\ e.in = IF Taken(q, e, h) /\ ~Taken(p, d, g) THEN Append(d.in, b) ELSE d.in

\* The bits taken so far.
LEMMA PrefixGrows ==
    ASSUME NEW b \in Byte, NEW k \in 1 .. Bits
    PROVE  Append(SubSeq(b, 1, k - 1), b[k]) = SubSeq(b, 1, k)
<1>1. b \in Seq(Bit) /\ Len(b) = Bits
  BY BytesAre
<1> QED BY <1>1, BitsPositive

LEMMA PrefixWhole ==
    ASSUME NEW b \in Byte
    PROVE  SubSeq(b, 1, Bits) = b /\ SubSeq(b, 1, 0) = <<>>
<1>1. b \in Seq(Bit) /\ Len(b) = Bits
  BY BytesAre
<1> QED BY <1>1, BitsPositive

\* The step of a byte's stage that its operation after p makes, and what it must keep.
SendMoves(b, address, ops, p, c, x, d, g, q, c1, x1, e, h) ==
    /\ b \in Byte /\ address \in BOOLEAN /\ SendsByte(ops, b) /\ c \in Bit /\ x \in Bit /\ Orderly(d, c)
    /\ InSend(b, address, p, c, x, d, g) /\ Moves(ops[p + 1], p, c, x, d, g, q, c1, x1, e, h)
SendKept(b, address, p, d, g, q, c1, x1, e, h) ==
    /\ q \in {p, p + 1} /\ InSend(b, address, q, c1, x1, e, h)
    /\ Accounts(b, address, p, d, g, q, e, h)

\* Each operation of a byte that is sent: at a bit, at the acknowledgement, anywhere.
LEMMA SendKeepsBit ==
    ASSUME NEW b, NEW address, NEW ops,
           NEW k \in 1 .. Bits, NEW p, p = 3 * k - 3 \/ p = 3 * k - 2 \/ p = 3 * k - 1,
           NEW c, NEW x, NEW d, NEW g, NEW q, NEW c1, NEW x1, NEW e, NEW h,
           SendMoves(b, address, ops, p, c, x, d, g, q, c1, x1, e, h)
    PROVE  SendKept(b, address, p, d, g, q, c1, x1, e, h)
<1> USE DEF SendMoves, SendKept
<1>0. /\ d \in Device /\ d.scl \in Bit /\ (d.mode \in {"addr", "recv"} => d.sda = 1) /\ b[k] \in Bit
      /\ d.n \in 0 .. Bits
  BY BytesAre, BitsPositive DEF Orderly, Device
<1>1. CASE p = 3 * k - 3
  <2>1. ops[p + 1] = IF b[k] = 1 THEN "sda1" ELSE "sda0"
    <3>1. p + 1 = 3 * k - 2
      BY <1>1
    <3> QED BY <3>1 DEF SendsByte
  <2>2. c = 0 /\ Taking(b, k - 1, address, d)
    BY <1>1, SendBit DEF SendsBit
  <2>3. q = p + 1 /\ c1 = 0 /\ x1 = b[k] /\ h = g /\ e = d
    <3>1. CASE b[k] = 1
      BY <2>1, <2>2, <3>1, MovesIs DEF MovesData
    <3>2. CASE b[k] = 0
      BY <2>1, <2>2, <3>2, MovesIs DEF MovesData
    <3> QED BY <1>0, <3>1, <3>2 DEF Bit
  <2>4. q = 3 * k - 2 /\ ~High(c1, e)
    BY <1>1, <2>3 DEF High
  <2>5. InSend(b, address, q, c1, x1, e, h)
    <3>1. q # 3 * k - 3 /\ q # 3 * k - 1
      BY <2>4
    <3> QED BY <2>2, <2>3, <2>4, <3>1, SendBit DEF SendsBit
  <2>6. Accounts(b, address, p, d, g, q, e, h)
    <3>1. ~Taken(p, d, g) /\ ~Taken(q, e, h)
      BY <1>1, <2>4, BitsPositive DEF Taken
    <3> QED BY <2>2, <2>3, <3>1 DEF Accounts, Taking
  <2> QED BY <2>3, <2>5, <2>6
<1>2. CASE p = 3 * k - 2
  <2>0. ops[p + 1] = "scl1"
    <3>1. p + 1 = 3 * k - 1
      BY <1>2
    <3> QED BY <3>1 DEF SendsByte
  <2>1. MovesUp(p, c, x, d, g, q, c1, x1, e, h)
    BY <2>0, MovesIs
  <2>2. x = b[k] /\ Taking(b, IF High(c, d) THEN k ELSE k - 1, address, d)
    BY <1>2, SendBit DEF SendsBit
  <2>3. d.mode \in {"addr", "recv"} /\ d.mode = (IF address THEN "addr" ELSE "recv") /\ d.sda = 1
    BY <1>0, <2>2 DEF Taking
  <2>4. Level(x, d) = b[k]
    BY <1>0, <2>2, <2>3 DEF Level, Bit
  <2>5. q \in {p, p + 1} /\ c1 = 1 /\ x1 = b[k] /\ h = g /\ e.in = d.in /\ e.out = d.out /\ e.mode = d.mode
    BY <2>1, <2>2 DEF MovesUp, Samples
  <2>6. q = p => ~High(c1, e) /\ Taking(b, k - 1, address, e)
    BY <1>2, <2>1, <2>2 DEF MovesUp, High, Bit
  <2>7. q = p + 1 => High(c1, e) /\ Taking(b, k, address, e)
    <3>1. CASE q = p + 1 /\ c = 0
      <4>1. /\ d.n = k - 1 /\ d.byte = SubSeq(b, 1, k - 1) /\ Samples(d, x, e) /\ e.scl = 1
        BY <1>2, <2>1, <2>2, <3>1 DEF MovesUp, High, Taking
      <4>2. e.n = k /\ e.byte = SubSeq(b, 1, k)
        BY <2>3, <2>4, <4>1, PrefixGrows DEF Samples
      <4> QED BY <2>3, <2>5, <4>1, <4>2 DEF Taking, High
    <3>2. CASE q = p + 1 /\ c # 0
      BY <1>2, <2>1, <2>2, <3>2 DEF MovesUp, High
    <3> QED BY <3>1, <3>2
  <2>8. InSend(b, address, q, c1, x1, e, h)
    <3>1. CASE q = p
      <4>1. q = 3 * k - 2 /\ q # 3 * k - 3 /\ q # 3 * k - 1
        BY <1>2, <3>1
      <4> QED BY <2>5, <2>6, <3>1, <4>1, SendBit DEF SendsBit
    <3>2. CASE q = p + 1
      <4>1. q = 3 * k - 1 /\ q # 3 * k - 3 /\ q # 3 * k - 2
        BY <1>2, <3>2
      <4> QED BY <2>5, <2>7, <3>2, <4>1, SendBit DEF SendsBit
    <3> QED BY <2>5, <3>1, <3>2
  <2>9. Accounts(b, address, p, d, g, q, e, h)
    <3>1. ~Taken(p, d, g) /\ ~Taken(q, e, h)
      BY <1>2, <2>5, BitsPositive DEF Taken
    <3> QED BY <2>3, <2>5, <3>1 DEF Accounts
  <2> QED BY <2>5, <2>8, <2>9
<1>3. CASE p = 3 * k - 1
  <2>0. ops[p + 1] = "scl0"
    <3>1. p + 1 = 3 * k
      BY <1>3
    <3> QED BY <3>1 DEF SendsByte
  <2>1. MovesDown(p, c, x, d, g, q, c1, x1, e, h)
    BY <2>0, MovesIs
  <2>2. High(c, d) /\ Taking(b, k, address, d)
    <3>1. SendsBit(k, b, address, p, c, x, d)
      BY SendBit
    <3> QED BY <1>3, <3>1 DEF SendsBit
  <2>3. q = p + 1 /\ q = 3 * k /\ c1 = 0 /\ h = g /\ Falls(e, d)
    BY <1>3, <2>1, <2>2 DEF MovesDown
  <2>4. d.mode = (IF address THEN "addr" ELSE "recv") /\ d.n = k /\ d.byte = SubSeq(b, 1, k)
    BY <2>2 DEF Taking
  <2>5. ~Taken(p, d, g)
    BY <1>3, BitsPositive DEF Taken
  <2>6. CASE k < Bits
    <3>1. SameButClock(e, d)
      BY <2>3, <2>4, <2>6 DEF Falls
    <3>2. Taking(b, k, address, e) /\ e.in = d.in /\ e.out = d.out /\ e.mode # "send" /\ d.mode # "send"
      BY <2>4, <3>1 DEF Taking, SameButClock
    <3>3. PICK j \in 1 .. Bits : q = 3 * j - 3 /\ j - 1 = k /\ q # 3 * j - 2 /\ q # 3 * j - 1
      <4>1. /\ k + 1 \in 1 .. Bits /\ q = 3 * (k + 1) - 3 /\ (k + 1) - 1 = k
            /\ q # 3 * (k + 1) - 2 /\ q # 3 * (k + 1) - 1
        BY <2>3, <2>6, BitsPositive
      <4> QED BY <4>1
    <3>4. InSend(b, address, q, c1, x1, e, h)
      <4>1. c1 = 0 /\ Taking(b, j - 1, address, e)
        BY <2>3, <3>2, <3>3
      <4> QED BY <3>3, <4>1, SendBit DEF SendsBit
    <3>5. ~Taken(q, e, h)
      BY <2>3, <2>6, BitsPositive DEF Taken
    <3> QED BY <2>3, <2>5, <3>2, <3>4, <3>5 DEF Accounts
  <2>7. CASE k = Bits
    <3>1. d.byte = b /\ d.n = Bits
      BY <2>4, <2>7, PrefixWhole
    <3>2. /\ Answer(b, address, e) /\ e.out = d.out /\ d.mode # "send" /\ e.mode # "send"
          /\ e.in = IF e.mode = "ackData" THEN Append(d.in, b) ELSE d.in
      BY <2>3, <2>4, <3>1 DEF Falls, Answer, ForOwn
    <3>3. q \in 3 * Bits .. 3 * Bits + 4 /\ q = 3 * Bits
      BY <2>3, <2>7, BitsPositive
    <3>4. InSend(b, address, q, c1, x1, e, h)
      BY <2>3, <3>2, <3>3, SendTail, BitsPositive
    <3>5. Taken(q, e, h) <=> e.mode = "ackData"
      BY <3>3, BitsPositive DEF Taken
    <3>6. address => e.mode # "ackData"
      BY <3>2 DEF Answer
    <3>7. Accounts(b, address, p, d, g, q, e, h)
      <4>1. CASE address
        BY <3>2, <3>6, <4>1 DEF Accounts
      <4>2. CASE ~address
        BY <2>5, <3>2, <3>5, <4>2 DEF Accounts
      <4> QED BY <4>1, <4>2
    <3> QED BY <2>3, <3>4, <3>7
  <2>8. k < Bits \/ k = Bits
    BY BitsPositive
  <2> QED BY <2>6, <2>7, <2>8
<1> QED BY <1>1, <1>2, <1>3

LEMMA SendKeepsTail ==
    ASSUME NEW b, NEW address, NEW ops, NEW p \in 3 * Bits .. 3 * Bits + 3,
           NEW c, NEW x, NEW d, NEW g, NEW q, NEW c1, NEW x1, NEW e, NEW h,
           p < 3 * Bits + 3 => g = <<>>,
           SendMoves(b, address, ops, p, c, x, d, g, q, c1, x1, e, h)
    PROVE  SendKept(b, address, p, d, g, q, c1, x1, e, h)
<1> USE DEF SendMoves, SendKept
<1>0. /\ d \in Device /\ d.scl \in Bit /\ d.sda \in Bit
      /\ d.mode \in {"ackAddr", "ackData"} => d.sda = 0
      /\ d.mode = "rest" => d.sda = 1
  BY DEF Orderly, Device
<1>1. p \in 3 * Bits .. 3 * Bits + 4 /\ p < 3 * Bits + 4 /\ p \in Nat
  BY BitsPositive
<1>2. Answer(b, address, d)
  BY <1>1, SendTail
<1>3. /\ d.mode \in {"rest", "ackAddr", "ackData"} /\ (d.mode = "ackData" => ~address)
      /\ d.mode = "ackAddr" => address
  BY <1>2 DEF Answer
<1>4. Taken(p, d, g) <=> d.mode = "ackData"
  BY <1>1, BitsPositive DEF Taken
\* Nothing that the answer depends on has changed.
<1>5. ASSUME q \in 3 * Bits .. 3 * Bits + 3, e.mode = d.mode, e.byte = d.byte, e.in = d.in, e.out = d.out
      PROVE  Answer(b, address, e) /\ Accounts(b, address, p, d, g, q, e, h)
  <2>1. Taken(q, e, h) <=> d.mode = "ackData"
    BY <1>5, BitsPositive DEF Taken
  <2>2. Answer(b, address, e)
    BY <1>2, <1>5 DEF Answer
  <2> QED BY <1>3, <1>4, <1>5, <2>1, <2>2 DEF Accounts
<1>6. CASE p = 3 * Bits
  <2>0. ops[p + 1] = "sda1"
    BY <1>6 DEF SendsByte
  <2>1. MovesData("sda1", p, c, x, d, g, q, c1, x1, e, h)
    BY <2>0, MovesIs
  <2>2. c = 0
    BY <1>1, <1>6, SendTail
  <2>3. q = p + 1 /\ q = 3 * Bits + 1 /\ x1 = 1 /\ e = d
    BY <1>6, <2>1, <2>2 DEF MovesData
  <2>4. Answer(b, address, e) /\ Accounts(b, address, p, d, g, q, e, h)
    BY <1>5, <2>3, BitsPositive
  <2>5. q \in 3 * Bits .. 3 * Bits + 4
    BY <2>3, BitsPositive
  <2>6. InSend(b, address, q, c1, x1, e, h)
    BY <2>3, <2>4, <2>5, SendTail, BitsPositive
  <2> QED BY <2>3, <2>4, <2>6
<1>7. CASE p = 3 * Bits + 1
  <2>0. ops[p + 1] = "scl1"
    <3>1. p + 1 = 3 * Bits + 2
      BY <1>7, BitsPositive
    <3> QED BY <3>1 DEF SendsByte
  <2>1. MovesUp(p, c, x, d, g, q, c1, x1, e, h)
    BY <2>0, MovesIs
  <2>2. x = 1
    BY <1>1, <1>7, SendTail, BitsPositive
  <2>3. /\ q \in {p, p + 1} /\ x1 = 1 /\ (q = p + 1 => High(c1, e))
        /\ e.mode = d.mode /\ e.byte = d.byte /\ e.in = d.in /\ e.out = d.out
    BY <1>3, <2>1, <2>2 DEF MovesUp, Samples, High
  <2>4. q \in 3 * Bits .. 3 * Bits + 3 /\ q \in {3 * Bits + 1, 3 * Bits + 2} /\ (q = 3 * Bits + 2 => q = p + 1)
    BY <1>7, <2>3, BitsPositive
  <2>5. Answer(b, address, e) /\ Accounts(b, address, p, d, g, q, e, h)
    BY <1>5, <2>3, <2>4
  <2>6. q \in 3 * Bits .. 3 * Bits + 4 /\ q > 3 * Bits /\ q < 3 * Bits + 3
    BY <2>4, BitsPositive
  <2>7. InSend(b, address, q, c1, x1, e, h)
    BY <2>3, <2>4, <2>5, <2>6, SendTail, BitsPositive
  <2> QED BY <2>3, <2>5, <2>7
<1>8. CASE p = 3 * Bits + 2
  <2>0. ops[p + 1] = "read"
    <3>1. p + 1 = 3 * Bits + 3
      BY <1>8, BitsPositive
    <3> QED BY <3>1 DEF SendsByte
  <2>1. Reads(p, c, x, d, g, q, c1, x1, e, h)
    BY <2>0, MovesIs
  <2>2. x = 1 /\ High(c, d)
    BY <1>1, <1>8, SendTail, BitsPositive
  <2>3. q = p + 1 /\ q = 3 * Bits + 3 /\ c1 = c /\ x1 = 1 /\ e = d /\ h = Append(g, Level(x, d))
    BY <1>8, <2>1, <2>2, BitsPositive DEF Reads
  <2>4. h = <<d.sda>>
    <3>1. Level(x, d) = d.sda /\ g = <<>>
      BY <1>0, <1>8, <2>2, BitsPositive DEF Level, Bit
    <3> QED BY <2>3, <3>1
  <2>5. q \in 3 * Bits .. 3 * Bits + 3 /\ q \in 3 * Bits .. 3 * Bits + 4
    BY <2>3, BitsPositive
  <2>6. Answer(b, address, e) /\ Accounts(b, address, p, d, g, q, e, h)
    BY <1>5, <2>3, <2>5
  <2>7. InSend(b, address, q, c1, x1, e, h)
    <3>1. q # 3 * Bits /\ q # 3 * Bits + 4 /\ High(c1, e)
      BY <2>2, <2>3, BitsPositive
    <3> QED BY <2>3, <2>4, <2>5, <2>6, <3>1, SendTail
  <2> QED BY <2>3, <2>6, <2>7
<1>9. CASE p = 3 * Bits + 3
  <2>0. ops[p + 1] = "scl0"
    <3>1. p + 1 = 3 * Bits + 4
      BY <1>9, BitsPositive
    <3> QED BY <3>1 DEF SendsByte
  <2>1. MovesDown(p, c, x, d, g, q, c1, x1, e, h)
    BY <2>0, MovesIs
  <2>2. x = 1 /\ High(c, d) /\ g = <<d.sda>>
    BY <1>1, <1>9, SendTail, BitsPositive
  <2>3. q = p + 1 /\ q = 3 * Bits + 4 /\ c1 = 0 /\ x1 = 1 /\ h = g /\ Falls(e, d)
    BY <1>9, <2>1, <2>2, BitsPositive DEF MovesDown
  <2>4. h[1] = d.sda
    BY <2>2, <2>3
  <2>5. Answered(b, address, e, h[1] = 1)
    <3>1. CASE d.mode = "rest"
      <4>1. e.mode = "rest" /\ h[1] = 1 /\ (address => ~ForOwn(b))
        BY <1>0, <1>2, <2>3, <2>4, <3>1 DEF Falls, SameButClock, Answer
      <4> QED BY <4>1 DEF Answered
    <3>2. CASE d.mode = "ackAddr"
      <4>1. h[1] = 0 /\ d.byte = b /\ ForOwn(b) /\ address
        BY <1>0, <1>2, <2>4, <3>2 DEF Answer
      <4>2. CASE b[Bits] = 1
        BY <2>3, <3>2, <4>1, <4>2 DEF Falls, Answered, Speaks
      <4>3. CASE b[Bits] # 1
        BY <2>3, <3>2, <4>1, <4>3 DEF Falls, Answered, Listens
      <4> QED BY <4>2, <4>3
    <3>3. CASE d.mode = "ackData"
      <4>1. h[1] = 0 /\ ~address
        BY <1>0, <1>3, <2>4, <3>3
      <4> QED BY <2>3, <3>3, <4>1 DEF Falls, Answered, Listens
    <3> QED BY <1>3, <3>1, <3>2, <3>3
  <2>6. Accounts(b, address, p, d, g, q, e, h)
    <3>1. Taken(q, e, h) <=> h[1] = 0
      BY <2>3 DEF Taken
    <3>2. h[1] = 0 <=> d.mode # "rest"
      BY <1>0, <1>3, <2>4
    <3>3. e.in = d.in
      BY <1>3, <2>3 DEF Falls, SameButClock
    <3>4. e.out = IF e.mode = "send" THEN Append(d.out, e.byte) ELSE d.out
      <4>1. CASE d.mode = "rest"
        BY <2>3, <4>1 DEF Falls, SameButClock
      <4>2. CASE d.mode = "ackData" \/ (d.mode = "ackAddr" /\ d.byte[Bits] # 1)
        BY <2>3, <4>2 DEF Falls
      <4>3. CASE d.mode = "ackAddr" /\ d.byte[Bits] = 1
        BY <2>3, <4>3 DEF Falls
      <4> QED BY <1>3, <4>1, <4>2, <4>3
    <3>5. CASE address
      BY <1>3, <3>3, <3>4, <3>5 DEF Accounts
    <3>6. CASE ~address
      BY <1>3, <1>4, <3>1, <3>2, <3>3, <3>4, <3>6 DEF Accounts
    <3> QED BY <3>5, <3>6
  <2>7. q \in 3 * Bits .. 3 * Bits + 4
    BY <2>3, BitsPositive
  <2>8. InSend(b, address, q, c1, x1, e, h)
    BY <2>3, <2>5, <2>7, SendTail, BitsPositive
  <2> QED BY <2>3, <2>6, <2>8
<1> QED BY <1>1, <1>6, <1>7, <1>8, <1>9, BitsPositive

LEMMA SendKeeps ==
    ASSUME NEW b, NEW address, NEW ops, NEW p \in 0 .. 3 * Bits + 3,
           NEW c, NEW x, NEW d, NEW g, NEW q, NEW c1, NEW x1, NEW e, NEW h,
           p < 3 * Bits + 3 => g = <<>>,
           SendMoves(b, address, ops, p, c, x, d, g, q, c1, x1, e, h)
    PROVE  SendKept(b, address, p, d, g, q, c1, x1, e, h)
<1>1. CASE p < 3 * Bits
  <2>1. PICK k \in 1 .. Bits : p = 3 * k - 3 \/ p = 3 * k - 2 \/ p = 3 * k - 1
    <3>1. p + 1 \in Nat \ {0}
      BY BitsPositive
    <3>2. PICK k \in Nat : k >= 1 /\ (p + 1 = 3 * k - 2 \/ p + 1 = 3 * k - 1 \/ p + 1 = 3 * k)
      BY <3>1, ByThree
    <3>3. k \in 1 .. Bits /\ (p = 3 * k - 3 \/ p = 3 * k - 2 \/ p = 3 * k - 1)
      BY <1>1, <3>2, BitsPositive
    <3> QED BY <3>3
  <2> QED BY <2>1, SendKeepsBit
<1>2. CASE p >= 3 * Bits
  <2>1. p \in 3 * Bits .. 3 * Bits + 3
    BY <1>2, BitsPositive
  <2> QED BY <2>1, SendKeepsTail
<1> QED BY <1>1, <1>2, BitsPositive

\* A target that lets go of the clock leaves a byte that is sent where it is.
LEMMA ReleaseKeepsSend ==
    ASSUME NEW b \in Byte, NEW address \in BOOLEAN, NEW p \in 0 .. 3 * Bits + 4,
           NEW c \in Bit, NEW x \in Bit, NEW d, NEW e, NEW g, Orderly(d, c), Releases(c, x, d, e),
           InSend(b, address, p, c, x, d, g)
    PROVE  InSend(b, address, p, c, x, e, g) /\ Taken(p, e, g) = Taken(p, d, g)
<1>1. d.scl = 0 /\ e.mode = d.mode /\ ~High(c, d) /\ e.sda = d.sda /\ d.mode # "rest"
  BY DEF Releases, Samples, Stays, Orderly, High
<1>2. Taken(p, e, g) = Taken(p, d, g)
  BY <1>1 DEF Taken
<1>3. CASE p < 3 * Bits
  <2>1. PICK k \in 1 .. Bits : p = 3 * k - 3 \/ p = 3 * k - 2 \/ p = 3 * k - 1
    <3>1. p + 1 \in Nat \ {0}
      BY BitsPositive
    <3>2. PICK k \in Nat : k >= 1 /\ (p + 1 = 3 * k - 2 \/ p + 1 = 3 * k - 1 \/ p + 1 = 3 * k)
      BY <3>1, ByThree
    <3>3. k \in 1 .. Bits /\ (p = 3 * k - 3 \/ p = 3 * k - 2 \/ p = 3 * k - 1)
      BY <1>3, <3>2, BitsPositive
    <3> QED BY <3>3
  <2>2. CASE p = 3 * k - 3
    <3>0. p # 3 * k - 2 /\ p # 3 * k - 1
      BY <2>2, BitsPositive
    <3>1. c = 0 /\ Taking(b, k - 1, address, d) /\ p # 3 * k - 2 /\ p # 3 * k - 1
      BY <2>1, <2>2, <3>0, SendBit DEF SendsBit
    <3>2. Taking(b, k - 1, address, e)
      BY <1>1, <3>1 DEF Taking, Releases, Stays
    <3> QED BY <1>2, <2>2, <3>1, <3>2, SendBit DEF SendsBit
  <2>3. CASE p = 3 * k - 2
    <3>0. p # 3 * k - 3 /\ p # 3 * k - 1
      BY <2>3, BitsPositive
    <3>1. x = b[k] /\ Taking(b, k - 1, address, d) /\ p # 3 * k - 3 /\ p # 3 * k - 1
      BY <1>1, <2>1, <2>3, <3>0, SendBit DEF SendsBit
    <3>2. Taking(b, IF High(c, e) THEN k ELSE k - 1, address, e)
      <4>1. CASE c = 1
        <5>1. Samples(d, x, e) /\ High(c, e)
          BY <4>1 DEF Releases, High
        <5>2. d.mode \in {"addr", "recv"} /\ d.sda = 1 /\ d.n = k - 1 /\ d.byte = SubSeq(b, 1, k - 1)
          BY <3>1 DEF Taking, Orderly
        <5>3. Level(x, d) = b[k]
          BY <3>1, <5>2 DEF Level, Bit
        <5>4. e.n = k /\ e.byte = SubSeq(b, 1, k)
          BY <5>1, <5>2, <5>3, PrefixGrows DEF Samples
        <5> QED BY <1>1, <3>1, <5>1, <5>4 DEF Taking
      <4>2. CASE c # 1
        BY <1>1, <3>1, <4>2 DEF Taking, Releases, Stays, High
      <4> QED BY <4>1, <4>2
    <3> QED BY <1>2, <2>3, <3>1, <3>2, SendBit DEF SendsBit
  <2>4. CASE p = 3 * k - 1
    BY <1>1, <2>4, SendBit DEF SendsBit
  <2> QED BY <2>1, <2>2, <2>3, <2>4
<1>4. CASE p >= 3 * Bits
  <2>1. p \in 3 * Bits .. 3 * Bits + 4
    BY <1>4, BitsPositive
  <2>2. CASE p = 3 * Bits + 4
    <3>1. c = 0 /\ x = 1 /\ Answered(b, address, d, g[1] = 1)
      BY <2>1, <2>2, SendTail, BitsPositive
    <3>2. Answered(b, address, e, g[1] = 1)
      BY <1>1, <3>1 DEF Answered, Releases, Stays, Speaks, Listens
    <3>3. p > 3 * Bits /\ p # 3 * Bits + 2 /\ p # 3 * Bits + 3 /\ ~(p < 3 * Bits + 4)
      BY <2>2, BitsPositive
    <3> QED BY <1>2, <2>1, <3>1, <3>2, <3>3, SendTail
  <2>3. CASE p < 3 * Bits + 4
    <3>1. Answer(b, address, d) /\ p # 3 * Bits + 2 /\ p # 3 * Bits + 3
      BY <1>1, <2>1, <2>3, SendTail
    <3>2. e.byte = d.byte
      BY <1>1, <3>1 DEF Answer, Releases, Samples, Stays
    <3>3. Answer(b, address, e)
      BY <1>1, <3>1, <3>2 DEF Answer
    <3>4. (p \in {3 * Bits, 3 * Bits + 4} => c = 0) /\ (p > 3 * Bits => x = 1)
      BY <2>1, SendTail
    <3>5. p # 3 * Bits + 4
      BY <2>3, BitsPositive
    <3> QED BY <1>2, <2>1, <3>1, <3>3, <3>4, <3>5, SendTail
  <2> QED BY <2>1, <2>2, <2>3, BitsPositive
<1> QED BY <1>3, <1>4, BitsPositive

-----------------------------------------------------------------------------
(* A byte from the target. *)

\* Where the stage of a received byte is: at one of its bits, at the acknowledgement, at its start.
LEMMA ReceiveBit ==
    ASSUME NEW ack, NEW k \in 1 .. Bits, NEW p, p = 3 * k - 2 \/ p = 3 * k - 1 \/ p = 3 * k,
           NEW c, NEW x, NEW d, NEW g
    PROVE  InReceive(ack, p, c, x, d, g) <=> x = 1 /\ ReceivesBit(k, p, c, d, g)
<1>1. p > 0 /\ p <= 3 * Bits /\ p \in Nat
  BY BitsPositive
<1>2. ASSUME NEW j \in 1 .. Bits, j # k PROVE ReceivesBit(j, p, c, d, g)
  <2>1. p # 3 * j - 2 /\ p # 3 * j - 1 /\ p # 3 * j
    BY <1>2, BitsPositive
  <2> QED BY <2>1 DEF ReceivesBit
<1>3. InReceive(ack, p, c, x, d, g) <=> x = 1 /\ \A j \in 1 .. Bits : ReceivesBit(j, p, c, d, g)
  BY <1>1, BitsPositive DEF InReceive
<1> QED BY <1>2, <1>3

\* The acknowledgement of a byte.
Acks(ack, p, c, x, d) ==
    /\ p \in {3 * Bits + 1, 3 * Bits + 2, 3 * Bits + 3} => d.mode = "getAck"
    /\ p = 3 * Bits + 1 => x = 1 /\ c = 0 /\ ~d.acked
    /\ p \in {3 * Bits + 2, 3 * Bits + 3, 3 * Bits + 4} => x = IF ack THEN 0 ELSE 1
    /\ p = 3 * Bits + 2 => d.acked = (ack /\ High(c, d))
    /\ p = 3 * Bits + 3 => d.acked = ack /\ High(c, d)
    /\ p >= 3 * Bits + 4 => c = 0 /\ IF ack THEN Speaks(d) ELSE d.mode = "rest"
    /\ p = 3 * Bits + 5 => x = 1

LEMMA ReceiveTail ==
    ASSUME NEW ack, NEW p \in 3 * Bits + 1 .. 3 * Bits + 5, NEW c, NEW x, NEW d, NEW g
    PROVE  InReceive(ack, p, c, x, d, g) <=> Acks(ack, p, c, x, d)
<1>1. \A k \in 1 .. Bits : p # 3 * k - 2 /\ p # 3 * k - 1 /\ p # 3 * k
  BY BitsPositive
<1>2. \A k \in 1 .. Bits : ReceivesBit(k, p, c, d, g)
  BY <1>1 DEF ReceivesBit
<1>3. p > 0 /\ (p <= 3 * Bits + 1 <=> p = 3 * Bits + 1) /\ p # 0
  BY BitsPositive
<1> QED BY <1>2, <1>3 DEF InReceive, Acks

LEMMA ReceiveHead ==
    ASSUME NEW ack, NEW c, NEW x, NEW d, NEW g
    PROVE  InReceive(ack, 0, c, x, d, g) <=> c = 0 /\ Speaks(d) /\ g = <<>>
<1>1. \A k \in 1 .. Bits : 0 # 3 * k - 2 /\ 0 # 3 * k - 1 /\ 0 # 3 * k
  BY BitsPositive
<1>2. \A k \in 1 .. Bits : ReceivesBit(k, 0, c, d, g)
  BY <1>1 DEF ReceivesBit
<1> QED BY <1>2, BitsPositive DEF InReceive

\* The bytes of a call when a stage that has read g is at p.
Heard(p, bytes, g) == IF p > 3 * Bits THEN Append(bytes, g) ELSE bytes

\* The step of a received byte's stage that its operation after p makes, and what it keeps.
ReceiveMoves(ack, ops, bytes, p, c, x, d, g, q, c1, x1, e, h) ==
    /\ ack \in BOOLEAN /\ ReceivesByte(ops, ack) /\ c \in Bit /\ x \in Bit /\ Orderly(d, c)
    /\ InReceive(ack, p, c, x, d, g) /\ Spoken(d, Heard(p, bytes, g))
    /\ Moves(ops[p + 1], p, c, x, d, g, q, c1, x1, e, h)
ReceiveKept(ack, bytes, p, d, q, c1, x1, e, h) ==
    /\ q \in {p, p + 1} /\ InReceive(ack, q, c1, x1, e, h)
    /\ e.in = d.in /\ Spoken(e, Heard(q, bytes, h))

\* A target that sends has a byte, and is at one of its bits.
LEMMA SendingTarget ==
    ASSUME NEW d, NEW c, Orderly(d, c), d.mode = "send"
    PROVE  d \in Device /\ d.byte \in Byte /\ d.n \in 1 .. Bits /\ \A k \in 1 .. Bits : d.byte[k] \in Bit
<1>1. d \in Device /\ d.byte \in Seq(Bit) /\ Len(d.byte) = Bits /\ d.n \in 1 .. Bits
  BY BitsPositive DEF Orderly, Device
<1> QED BY <1>1, BytesAre, BitsPositive

\* Each operation of a byte received: the first, at a bit, at the acknowledgement.
LEMMA ReceiveKeepsHead ==
    ASSUME NEW ack, NEW ops, NEW bytes, NEW c, NEW x, NEW d, NEW g, NEW q, NEW c1, NEW x1, NEW e, NEW h,
           ReceiveMoves(ack, ops, bytes, 0, c, x, d, g, q, c1, x1, e, h)
    PROVE  ReceiveKept(ack, bytes, 0, d, q, c1, x1, e, h)
<1> USE DEF ReceiveMoves, ReceiveKept
<1>1. c = 0 /\ Speaks(d) /\ g = <<>>
  BY ReceiveHead
<1>2. ops[0 + 1] = "sda1"
  BY DEF ReceivesByte
<1>3. MovesData("sda1", 0, c, x, d, g, q, c1, x1, e, h)
  BY <1>2, MovesIs
<1>4. q = 1 /\ c1 = 0 /\ x1 = 1 /\ e = d /\ h = <<>>
  BY <1>1, <1>3 DEF MovesData
<1>5. Orderly(d, c) /\ d.mode = "send" /\ d.n = 1 /\ d.sda = d.byte[1]
  BY <1>1 DEF Speaks
<1>6. SubSeq(d.byte, 1, 0) = <<>>
  BY <1>5, SendingTarget, PrefixWhole
<1>7. 1 \in 1 .. Bits /\ q = 3 * 1 - 2 /\ q # 3 * 1 - 1 /\ q # 3 * 1
  BY <1>4, BitsPositive
<1>8. ReceivesBit(1, q, c1, e, h)
  BY <1>4, <1>5, <1>6, <1>7 DEF ReceivesBit
<1>9. InReceive(ack, q, c1, x1, e, h)
  BY <1>4, <1>7, <1>8, ReceiveBit
<1>10. Heard(q, bytes, h) = bytes /\ Heard(0, bytes, g) = bytes
  BY <1>4, BitsPositive DEF Heard
<1> QED BY <1>4, <1>9, <1>10

LEMMA ReceiveKeepsBit ==
    ASSUME NEW ack, NEW ops, NEW bytes, NEW k \in 1 .. Bits, NEW p, p = 3 * k - 2 \/ p = 3 * k - 1 \/ p = 3 * k,
           NEW c, NEW x, NEW d, NEW g, NEW q, NEW c1, NEW x1, NEW e, NEW h,
           ReceiveMoves(ack, ops, bytes, p, c, x, d, g, q, c1, x1, e, h)
    PROVE  ReceiveKept(ack, bytes, p, d, q, c1, x1, e, h)
<1> USE DEF ReceiveMoves, ReceiveKept
<1>1. x = 1 /\ ReceivesBit(k, p, c, d, g)
  BY ReceiveBit
<1>2. d.mode = "send" /\ d.n = k /\ d.sda = d.byte[k]
  BY <1>1 DEF ReceivesBit
<1>3. d \in Device /\ d.byte \in Byte /\ d.byte[k] \in Bit
  BY <1>2, SendingTarget
<1>4. Heard(p, bytes, g) = bytes /\ d.out = Append(bytes, d.byte)
  <2>1. ~(p > 3 * Bits)
    BY BitsPositive
  <2> QED BY <1>2, <2>1 DEF Heard, Spoken
<1>5. CASE p = 3 * k - 2
  <2>0. p # 3 * k /\ p # 3 * k - 1 /\ p + 1 = 3 * k - 1
    BY <1>5, BitsPositive
  <2>1. ops[p + 1] = "scl1"
    BY <2>0 DEF ReceivesByte
  <2>2. MovesUp(p, c, x, d, g, q, c1, x1, e, h)
    BY <2>1, MovesIs
  <2>3. /\ q \in {p, p + 1} /\ x1 = 1 /\ h = g /\ (q = p + 1 => High(c1, e))
        /\ e.mode = d.mode /\ e.n = d.n /\ e.byte = d.byte /\ e.sda = d.sda /\ e.in = d.in /\ e.out = d.out
    BY <1>1, <1>2, <2>2 DEF MovesUp, Samples, High
  <2>4. g = SubSeq(d.byte, 1, k - 1)
    BY <1>1, <1>5, <2>0 DEF ReceivesBit
  <2>5. (q = 3 * k - 2 \/ q = 3 * k - 1) /\ q # 3 * k /\ (q = 3 * k - 1 => q = p + 1)
    BY <1>5, <2>3, BitsPositive
  <2>6. ReceivesBit(k, q, c1, e, h)
    BY <1>2, <2>3, <2>4, <2>5 DEF ReceivesBit
  <2>7. InReceive(ack, q, c1, x1, e, h)
    BY <2>3, <2>5, <2>6, ReceiveBit
  <2>8. Heard(q, bytes, h) = bytes
    BY <2>5, BitsPositive DEF Heard
  <2> QED BY <1>2, <1>4, <2>3, <2>7, <2>8 DEF Spoken
<1>6. CASE p = 3 * k - 1
  <2>0. p # 3 * k /\ p # 3 * k - 2 /\ p + 1 = 3 * k
    BY <1>6, BitsPositive
  <2>1. ops[p + 1] = "read"
    BY <2>0 DEF ReceivesByte
  <2>2. Reads(p, c, x, d, g, q, c1, x1, e, h)
    BY <2>1, MovesIs
  <2>3. q = p + 1 /\ q = 3 * k /\ c1 = c /\ x1 = 1 /\ e = d /\ h = Append(g, Level(x, d))
    BY <1>1, <2>0, <2>2 DEF Reads
  <2>4. g = SubSeq(d.byte, 1, k - 1) /\ High(c, d)
    BY <1>1, <1>6, <2>0 DEF ReceivesBit
  <2>5. Level(x, d) = d.byte[k]
    BY <1>1, <1>2, <1>3 DEF Level, Bit
  <2>6. h = SubSeq(d.byte, 1, k)
    BY <1>3, <2>3, <2>4, <2>5, PrefixGrows
  <2>7. ReceivesBit(k, q, c1, e, h)
    BY <1>2, <2>3, <2>4, <2>6 DEF ReceivesBit
  <2>8. InReceive(ack, q, c1, x1, e, h)
    BY <2>3, <2>7, ReceiveBit
  <2>9. Heard(q, bytes, h) = bytes
    BY <2>3, BitsPositive DEF Heard
  <2> QED BY <1>2, <1>4, <2>3, <2>8, <2>9 DEF Spoken
<1>7. CASE p = 3 * k
  <2>1. ops[p + 1] = "scl0"
    BY <1>7 DEF ReceivesByte
  <2>2. MovesDown(p, c, x, d, g, q, c1, x1, e, h)
    BY <2>1, MovesIs
  <2>3. g = SubSeq(d.byte, 1, k) /\ High(c, d)
    BY <1>1, <1>7 DEF ReceivesBit
  <2>4. q = p + 1 /\ c1 = 0 /\ x1 = 1 /\ h = g /\ Falls(e, d)
    BY <1>1, <2>2, <2>3 DEF MovesDown
  <2>5. CASE k < Bits
    <3>1. e.mode = "send" /\ e.n = k + 1 /\ e.byte = d.byte /\ e.sda = d.byte[k + 1] /\ e.in = d.in /\ e.out = d.out
      BY <1>2, <2>4, <2>5 DEF Falls
    <3>2. PICK j \in 1 .. Bits : j = k + 1 /\ q = 3 * j - 2 /\ q # 3 * j - 1 /\ q # 3 * j /\ j - 1 = k
      <4>1. k + 1 \in 1 .. Bits /\ q = 3 * (k + 1) - 2 /\ q # 3 * (k + 1) - 1 /\ q # 3 * (k + 1) /\ (k + 1) - 1 = k
        BY <1>7, <2>4, <2>5, BitsPositive
      <4> QED BY <4>1
    <3>3. ReceivesBit(j, q, c1, e, h)
      BY <2>3, <2>4, <3>1, <3>2 DEF ReceivesBit
    <3>4. InReceive(ack, q, c1, x1, e, h)
      BY <2>4, <3>2, <3>3, ReceiveBit
    <3>5. Heard(q, bytes, h) = bytes
      BY <3>2, BitsPositive DEF Heard
    <3> QED BY <1>2, <1>4, <2>4, <3>1, <3>4, <3>5 DEF Spoken
  <2>6. CASE k = Bits
    <3>1. e.mode = "getAck" /\ ~e.acked /\ e.in = d.in /\ e.out = d.out
      BY <1>2, <2>4, <2>6 DEF Falls
    <3>2. q = 3 * Bits + 1 /\ q \in 3 * Bits + 1 .. 3 * Bits + 5 /\ ~(q >= 3 * Bits + 4) /\ q > 3 * Bits
      BY <1>7, <2>4, <2>6, BitsPositive
    <3>3. Acks(ack, q, c1, x1, e)
      BY <2>4, <3>1, <3>2, BitsPositive DEF Acks
    <3>4. InReceive(ack, q, c1, x1, e, h)
      BY <3>2, <3>3, ReceiveTail
    <3>5. Heard(q, bytes, h) = Append(bytes, d.byte)
      BY <1>3, <2>3, <2>4, <2>6, <3>2, PrefixWhole DEF Heard
    <3> QED BY <1>4, <2>4, <3>1, <3>4, <3>5 DEF Spoken
  <2>7. k < Bits \/ k = Bits
    BY BitsPositive
  <2> QED BY <2>5, <2>6, <2>7
<1> QED BY <1>5, <1>6, <1>7

LEMMA ReceiveKeepsTail ==
    ASSUME NEW ack, NEW ops, NEW bytes, NEW p \in 3 * Bits + 1 .. 3 * Bits + 4,
           NEW c, NEW x, NEW d, NEW g, NEW q, NEW c1, NEW x1, NEW e, NEW h,
           ReceiveMoves(ack, ops, bytes, p, c, x, d, g, q, c1, x1, e, h)
    PROVE  ReceiveKept(ack, bytes, p, d, q, c1, x1, e, h)
<1> USE DEF ReceiveMoves, ReceiveKept
<1>1. p \in 3 * Bits + 1 .. 3 * Bits + 5 /\ p > 3 * Bits /\ p + 1 > 3 * Bits
  BY BitsPositive
<1>2. Acks(ack, p, c, x, d)
  BY <1>1, ReceiveTail
<1>3. d.out = IF d.mode = "send" THEN Append(Append(bytes, g), d.byte) ELSE Append(bytes, g)
  BY <1>1 DEF Heard, Spoken
<1>4. ASSUME q \in {p, p + 1}, Acks(ack, q, c1, x1, e), h = g, e.in = d.in,
             e.out = IF e.mode = "send" THEN Append(Append(bytes, g), e.byte) ELSE Append(bytes, g)
      PROVE  ReceiveKept(ack, bytes, p, d, q, c1, x1, e, h)
  <2>1. q \in 3 * Bits + 1 .. 3 * Bits + 5 /\ q > 3 * Bits
    BY <1>4, BitsPositive
  <2>2. InReceive(ack, q, c1, x1, e, h)
    BY <1>4, <2>1, ReceiveTail
  <2>3. Heard(q, bytes, h) = Append(bytes, g)
    BY <1>4, <2>1 DEF Heard
  <2> QED BY <1>4, <2>2, <2>3 DEF Spoken
<1> HIDE DEF ReceiveKept
<1>5. CASE p = 3 * Bits + 1
  <2>0. ops[p + 1] = IF ack THEN "sda0" ELSE "sda1"
    <3>1. p + 1 = 3 * Bits + 2
      BY <1>5, BitsPositive
    <3> QED BY <3>1 DEF ReceivesByte
  <2>1. d.mode = "getAck" /\ c = 0 /\ ~d.acked
    BY <1>2, <1>5 DEF Acks
  <2>2. q = p + 1 /\ c1 = c /\ x1 = (IF ack THEN 0 ELSE 1) /\ h = g /\ e = d
    <3>1. CASE ack
      BY <2>0, <2>1, <3>1, MovesIs DEF MovesData
    <3>2. CASE ~ack
      BY <2>0, <2>1, <3>2, MovesIs DEF MovesData
    <3> QED BY <3>1, <3>2
  <2>3. q = 3 * Bits + 2 /\ ~(q >= 3 * Bits + 4) /\ q # 3 * Bits + 1 /\ q # 3 * Bits + 3 /\ q # 3 * Bits + 5
    BY <1>5, <2>2, BitsPositive
  <2>4. e.acked = FALSE /\ ~High(c1, e)
    BY <2>1, <2>2 DEF Orderly, Device, High
  <2>5. Acks(ack, q, c1, x1, e)
    BY <2>1, <2>2, <2>3, <2>4 DEF Acks
  <2> QED BY <1>3, <1>4, <2>1, <2>2, <2>5
<1>6. CASE p = 3 * Bits + 2
  <2>0. ops[p + 1] = "scl1"
    <3>1. p + 1 = 3 * Bits + 3
      BY <1>6, BitsPositive
    <3> QED BY <3>1 DEF ReceivesByte
  <2>1. d.mode = "getAck" /\ x = (IF ack THEN 0 ELSE 1) /\ d.acked = (ack /\ High(c, d)) /\ d.sda = 1
    BY <1>2, <1>6 DEF Acks, Orderly
  <2>2. MovesUp(p, c, x, d, g, q, c1, x1, e, h)
    BY <2>0, MovesIs
  <2>3. /\ q \in {p, p + 1} /\ x1 = x /\ h = g /\ c1 = 1
        /\ e.mode = d.mode /\ e.in = d.in /\ e.out = d.out
    BY <2>1, <2>2 DEF MovesUp, Samples
  <2>4. CASE q = p
    <3>1. e = d /\ c = 0 /\ d.scl = 0
      BY <1>6, <2>2, <2>4, BitsPositive DEF MovesUp
    <3>2. q = 3 * Bits + 2 /\ ~(q >= 3 * Bits + 4) /\ q # 3 * Bits + 1 /\ q # 3 * Bits + 3 /\ q # 3 * Bits + 5
      BY <1>6, <2>4, BitsPositive
    <3>3. Acks(ack, q, c1, x1, e)
      BY <2>1, <2>3, <3>1, <3>2 DEF Acks, High
    <3> QED BY <1>3, <1>4, <2>1, <2>3, <3>3
  <2>5. CASE q = p + 1
    <3>1. q = 3 * Bits + 3 /\ ~(q >= 3 * Bits + 4) /\ q # 3 * Bits + 1 /\ q # 3 * Bits + 2 /\ q # 3 * Bits + 5
      BY <1>6, <2>5, BitsPositive
    <3>2. High(c1, e) /\ e.acked = ack
      <4>1. CASE c = 0
        <5>1. Samples(d, x, e) /\ e.scl = 1
          BY <1>6, <2>2, <2>5, <4>1, BitsPositive DEF MovesUp
        <5>2. e.acked = (Level(x, d) = 0)
          BY <2>1, <5>1 DEF Samples
        <5>3. (Level(x, d) = 0) = ack
          BY <2>1 DEF Level
        <5> QED BY <2>3, <5>1, <5>2, <5>3 DEF High
      <4>2. CASE c # 0
        BY <1>6, <2>1, <2>2, <2>5, <4>2, BitsPositive DEF MovesUp, High
      <4> QED BY <4>1, <4>2
    <3>3. Acks(ack, q, c1, x1, e)
      BY <2>1, <2>3, <3>1, <3>2 DEF Acks
    <3> QED BY <1>3, <1>4, <2>1, <2>3, <3>3
  <2> QED BY <2>3, <2>4, <2>5
<1>7. CASE p = 3 * Bits + 3
  <2>0. ops[p + 1] = "scl0"
    <3>1. p + 1 = 3 * Bits + 4
      BY <1>7, BitsPositive
    <3> QED BY <3>1 DEF ReceivesByte
  <2>1. d.mode = "getAck" /\ x = (IF ack THEN 0 ELSE 1) /\ d.acked = ack /\ High(c, d)
    BY <1>2, <1>7 DEF Acks
  <2>2. MovesDown(p, c, x, d, g, q, c1, x1, e, h)
    BY <2>0, MovesIs
  <2>3. q = p + 1 /\ x1 = x /\ h = g /\ c1 = 0 /\ Falls(e, d)
    BY <2>1, <2>2 DEF MovesDown
  <2>4. /\ q = 3 * Bits + 4 /\ q >= 3 * Bits + 4
        /\ q # 3 * Bits + 1 /\ q # 3 * Bits + 2 /\ q # 3 * Bits + 3 /\ q # 3 * Bits + 5
    BY <1>7, <2>3, BitsPositive
  <2>5. CASE ack
    <3>1. e.mode = "send" /\ e.n = 1 /\ e.sda = e.byte[1] /\ e.out = Append(d.out, e.byte) /\ e.in = d.in
      BY <2>1, <2>3, <2>5 DEF Falls
    <3>2. Acks(ack, q, c1, x1, e)
      BY <2>1, <2>3, <2>4, <2>5, <3>1 DEF Acks, Speaks
    <3> QED BY <1>3, <1>4, <2>1, <2>3, <3>1, <3>2
  <2>6. CASE ~ack
    <3>1. e.mode = "rest" /\ e.out = d.out /\ e.in = d.in
      BY <2>1, <2>3, <2>6 DEF Falls
    <3>2. Acks(ack, q, c1, x1, e)
      BY <2>1, <2>3, <2>4, <2>6, <3>1 DEF Acks
    <3> QED BY <1>3, <1>4, <2>1, <2>3, <3>1, <3>2
  <2> QED BY <2>5, <2>6
<1>8. CASE p = 3 * Bits + 4
  <2>0. ops[p + 1] = "sda1"
    <3>1. p + 1 = 3 * Bits + 5
      BY <1>8, BitsPositive
    <3> QED BY <3>1 DEF ReceivesByte
  <2>1. c = 0 /\ IF ack THEN Speaks(d) ELSE d.mode = "rest"
    BY <1>2, <1>8, BitsPositive DEF Acks
  <2>2. MovesData("sda1", p, c, x, d, g, q, c1, x1, e, h)
    BY <2>0, MovesIs
  <2>3. q = p + 1 /\ x1 = 1 /\ h = g /\ c1 = 0 /\ e = d
    BY <2>1, <2>2 DEF MovesData
  <2>4. q = 3 * Bits + 5 /\ q # 3 * Bits + 1 /\ q # 3 * Bits + 2 /\ q # 3 * Bits + 3 /\ q # 3 * Bits + 4
    BY <1>8, <2>3, BitsPositive
  <2>5. Acks(ack, q, c1, x1, e)
    <3>1. c1 = 0 /\ x1 = 1 /\ IF ack THEN Speaks(e) ELSE e.mode = "rest"
      BY <2>1, <2>3
    <3> HIDE DEF ReceiveMoves
    <3> QED BY <2>4, <3>1 DEF Acks
  <2> QED BY <1>3, <1>4, <2>3, <2>5
<1> QED BY <1>5, <1>6, <1>7, <1>8, BitsPositive

\* Anywhere in the stage.
LEMMA ReceiveKeeps ==
    ASSUME NEW ack, NEW ops, NEW bytes, NEW p \in 0 .. 3 * Bits + 4,
           NEW c, NEW x, NEW d, NEW g, NEW q, NEW c1, NEW x1, NEW e, NEW h,
           ReceiveMoves(ack, ops, bytes, p, c, x, d, g, q, c1, x1, e, h)
    PROVE  ReceiveKept(ack, bytes, p, d, q, c1, x1, e, h)
<1>1. CASE p = 0
  BY <1>1, ReceiveKeepsHead
<1>2. CASE p > 0 /\ p <= 3 * Bits
  <2>1. PICK k \in 1 .. Bits : p = 3 * k - 2 \/ p = 3 * k - 1 \/ p = 3 * k
    <3>1. p \in Nat \ {0}
      BY <1>2, BitsPositive
    <3>2. PICK k \in Nat : k >= 1 /\ (p = 3 * k - 2 \/ p = 3 * k - 1 \/ p = 3 * k)
      BY <3>1, ByThree
    <3>3. k \in 1 .. Bits
      BY <1>2, <3>2, BitsPositive
    <3> QED BY <3>2, <3>3
  <2> QED BY <2>1, ReceiveKeepsBit
<1>3. CASE p > 3 * Bits
  <2>1. p \in 3 * Bits + 1 .. 3 * Bits + 4
    BY <1>3, BitsPositive
  <2> QED BY <2>1, ReceiveKeepsTail
<1> QED BY <1>1, <1>2, <1>3, BitsPositive

\* A target that lets go of the clock leaves a byte received where it is.
LEMMA ReleaseKeepsReceive ==
    ASSUME NEW ack \in BOOLEAN, NEW p \in 0 .. 3 * Bits + 5,
           NEW c \in Bit, NEW x \in Bit, NEW d, NEW e, NEW g, Orderly(d, c), Releases(c, x, d, e),
           InReceive(ack, p, c, x, d, g)
    PROVE  InReceive(ack, p, c, x, e, g)
<1>1. d.scl = 0 /\ e.mode = d.mode /\ ~High(c, d) /\ e.sda = d.sda /\ d.mode # "rest"
  BY DEF Releases, Samples, Stays, Orderly, High
<1>2. d.mode = "send" => e.byte = d.byte /\ e.n = d.n
  BY DEF Releases, Samples, Stays
<1>3. CASE p = 0
  <2>1. c = 0 /\ Speaks(d) /\ g = <<>>
    BY <1>3, ReceiveHead
  <2>2. Speaks(e)
    BY <1>1, <1>2, <2>1 DEF Speaks
  <2> QED BY <1>3, <2>1, <2>2, ReceiveHead
<1>4. CASE p > 0 /\ p <= 3 * Bits
  <2>1. PICK k \in 1 .. Bits : p = 3 * k - 2 \/ p = 3 * k - 1 \/ p = 3 * k
    <3>1. p \in Nat \ {0}
      BY <1>4, BitsPositive
    <3>2. PICK k \in Nat : k >= 1 /\ (p = 3 * k - 2 \/ p = 3 * k - 1 \/ p = 3 * k)
      BY <3>1, ByThree
    <3>3. k \in 1 .. Bits
      BY <1>4, <3>2, BitsPositive
    <3> QED BY <3>2, <3>3
  <2>2. x = 1 /\ ReceivesBit(k, p, c, d, g)
    BY <2>1, ReceiveBit
  <2>3. ReceivesBit(k, p, c, e, g)
    BY <1>1, <1>2, <2>2 DEF ReceivesBit
  <2> QED BY <2>1, <2>2, <2>3, ReceiveBit
<1>5. CASE p > 3 * Bits
  <2>1. p \in 3 * Bits + 1 .. 3 * Bits + 5
    BY <1>5, BitsPositive
  <2>2. Acks(ack, p, c, x, d)
    BY <2>1, ReceiveTail
  <2>3. p # 3 * Bits + 3
    BY <1>1, <2>2 DEF Acks
  <2>4. CASE p = 3 * Bits + 2
    <3>1. d.mode = "getAck" /\ x = (IF ack THEN 0 ELSE 1) /\ d.acked = FALSE /\ d.sda = 1
      BY <1>1, <2>2, <2>4 DEF Acks, Orderly, Device
    <3>2. e.acked = (ack /\ High(c, e))
      <4>1. CASE c = 1
        <5>1. Samples(d, x, e) /\ High(c, e)
          BY <4>1 DEF Releases, High
        <5>2. e.acked = (Level(x, d) = 0)
          BY <3>1, <5>1 DEF Samples
        <5>3. (Level(x, d) = 0) = ack
          BY <3>1 DEF Level
        <5> QED BY <5>1, <5>2, <5>3
      <4>2. CASE c # 1
        <5>1. e.acked = FALSE /\ ~High(c, e)
          BY <3>1, <4>2 DEF Releases, Stays, High
        <5> QED BY <5>1
      <4> QED BY <4>1, <4>2
    <3>3. ~(p >= 3 * Bits + 4) /\ p # 3 * Bits + 1 /\ p # 3 * Bits + 5
      BY <2>4, BitsPositive
    <3>4. Acks(ack, p, c, x, e)
      BY <1>1, <2>3, <2>4, <3>1, <3>2, <3>3 DEF Acks
    <3> QED BY <2>1, <3>4, ReceiveTail
  <2>5. CASE p # 3 * Bits + 2
    <3>1. c = 0
      BY <2>1, <2>2, <2>3, <2>5, BitsPositive DEF Acks
    <3>2. Stays(d, e)
      BY <3>1 DEF Releases
    <3>3. Acks(ack, p, c, x, e)
      BY <2>2, <2>3, <2>5, <3>1, <3>2 DEF Acks, Stays, Speaks
    <3> QED BY <2>1, <3>3, ReceiveTail
  <2> QED BY <2>4, <2>5
<1> QED BY <1>3, <1>4, <1>5, BitsPositive

-----------------------------------------------------------------------------
(* The recovery. *)

\* The falls of the clock until the target has let SDA go: each fall takes one away.
LEMMA LeftIs ==
    ASSUME NEW d \in Device
    PROVE  /\ Left(d) \in 0 .. Bits + 1
           /\ d.mode = "send" => Left(d) = Bits + 1 - d.n
           /\ d.mode = "getAck" => Left(d) = IF d.acked THEN Bits + 1 ELSE 0
           /\ d.mode = "rest" => Left(d) = 0
<1>1. d.n \in 0 .. Bits
  BY DEF Device
<1> QED BY <1>1, BitsPositive DEF Left

LEMMA LeftFalls ==
    ASSUME NEW d, NEW c, NEW e, Orderly(d, c), d.mode \in {"send", "getAck", "rest"}, Falls(e, d),
           NEW m \in Nat, m <= Bits, Left(d) <= m + 1
    PROVE  e.mode \in {"send", "getAck", "rest"} /\ Left(e) <= m
<1>0. d \in Device /\ e \in Device /\ d.n \in 0 .. Bits
  BY DEF Orderly, Falls, Device
<1>1. CASE d.mode = "send" /\ d.n < Bits
  <2>1. e.mode = "send" /\ e.n = d.n + 1
    BY <1>1 DEF Falls
  <2> QED BY <1>0, <1>1, <2>1, LeftIs, BitsPositive
<1>2. CASE d.mode = "send" /\ d.n = Bits
  <2>1. e.mode = "getAck" /\ ~e.acked
    BY <1>2 DEF Falls
  <2>2. Left(e) = 0
    BY <1>0, <2>1, LeftIs
  <2> QED BY <2>1, <2>2
<1>3. CASE d.mode = "getAck" /\ d.acked
  <2>1. e.mode = "send" /\ e.n = 1
    BY <1>3 DEF Falls
  <2>2. Left(d) = Bits + 1 /\ Left(e) = Bits + 1 - 1
    BY <1>0, <1>3, <2>1, LeftIs
  <2> QED BY <2>1, <2>2, BitsPositive
<1>4. CASE d.mode = "getAck" /\ ~d.acked
  <2>1. e.mode = "rest" /\ Left(e) = 0
    BY <1>0, <1>4, LeftIs DEF Falls
  <2> QED BY <2>1
<1>5. CASE d.mode = "rest"
  <2>1. e.mode = "rest" /\ Left(e) = 0
    BY <1>0, <1>5, LeftIs DEF Falls, SameButClock
  <2> QED BY <2>1
<1> QED BY <1>0, <1>1, <1>2, <1>3, <1>4, <1>5, BitsPositive

Modes == {"send", "getAck", "rest"}

\* Where the recovery is: before its clocks, at one of them, at its stop.
LEMMA FreeingHead ==
    ASSUME NEW p \in {0, 1}, NEW c, NEW x, NEW d
    PROVE  Freeing(p, c, x, d) <=>
             /\ d.mode \in Modes /\ (p = 1 => x = 1)
             /\ Left(d) <= Bits + 1 /\ (~High(c, d) => Left(d) <= Bits)
<1>1. \A j \in 1 .. Bits + 1 : p # 2 * j /\ p # 2 * j + 1
  BY BitsPositive
<1>2. \A j \in 1 .. Bits + 1 : Clocks(j, p, c, d)
  BY <1>1 DEF Clocks
<1>3. /\ p <= 2 * Bits + 3 /\ p <= 1 /\ p # 2 * Bits + 4 /\ p # 2 * Bits + 5 /\ p # 2 * Bits + 6
      /\ (p > 0 <=> p = 1)
  BY BitsPositive
<1> QED BY <1>2, <1>3 DEF Freeing, Modes

LEMMA FreeingClock ==
    ASSUME NEW j \in 1 .. Bits + 1, NEW p, p = 2 * j \/ p = 2 * j + 1, NEW c, NEW x, NEW d
    PROVE  Freeing(p, c, x, d) <=> d.mode \in Modes /\ x = 1 /\ Clocks(j, p, c, d)
<1>1. ASSUME NEW i \in 1 .. Bits + 1, i # j PROVE Clocks(i, p, c, d)
  <2>1. p # 2 * i /\ p # 2 * i + 1
    BY <1>1, BitsPositive
  <2> QED BY <2>1 DEF Clocks
<1>2. /\ p <= 2 * Bits + 3 /\ ~(p <= 1) /\ p # 2 * Bits + 4 /\ p # 2 * Bits + 5 /\ p # 2 * Bits + 6
      /\ p > 0
  BY BitsPositive
<1> QED BY <1>1, <1>2 DEF Freeing, Modes

LEMMA FreeingTail ==
    ASSUME NEW p \in {2 * Bits + 4, 2 * Bits + 5, 2 * Bits + 6}, NEW c, NEW x, NEW d
    PROVE  Freeing(p, c, x, d) <=>
             IF p = 2 * Bits + 6 THEN d.mode = "rest" ELSE x = 0 /\ High(c, d) /\ d.mode = "addr"
<1>1. \A j \in 1 .. Bits + 1 : p # 2 * j /\ p # 2 * j + 1
  BY BitsPositive
<1>2. \A j \in 1 .. Bits + 1 : Clocks(j, p, c, d)
  BY <1>1 DEF Clocks
<1>3. ~(p <= 2 * Bits + 3) /\ ~(p <= 1) /\ (p = 2 * Bits + 6 => p # 2 * Bits + 4 /\ p # 2 * Bits + 5)
  BY BitsPositive
<1> QED BY <1>2, <1>3 DEF Freeing

\* The step of the recovery that its operation after p makes.
RecoverMoves(p, c, x, d, g, q, c1, x1, e, h) ==
    /\ c \in Bit /\ x \in Bit /\ Orderly(d, c) /\ Freeing(p, c, x, d)
    /\ Moves(Recover.ops[p + 1], p, c, x, d, g, q, c1, x1, e, h)

\* Each operation of the recovery takes it on, and the reader with it.
LEMMA FreeingKeepsHead ==
    ASSUME NEW p \in {0, 1}, NEW c, NEW x, NEW d, NEW g, NEW q, NEW c1, NEW x1, NEW e, NEW h,
           RecoverMoves(p, c, x, d, g, q, c1, x1, e, h)
    PROVE  q \in {p, p + 1} /\ Freeing(q, c1, x1, e)
<1> USE DEF RecoverMoves
<1>0. d \in Device /\ (d.mode \in {"getAck", "rest"} => d.sda = 1) /\ d.scl \in Bit /\ (d.mode = "rest" => d.scl = 1)
  BY DEF Orderly, Device
<1>1. /\ d.mode \in Modes /\ (p = 1 => x = 1)
      /\ Left(d) <= Bits + 1 /\ (~High(c, d) => Left(d) <= Bits)
  BY FreeingHead
<1>2. CASE p = 0
  <2>1. Recover.ops[p + 1] = "sda1"
    BY <1>2, RecoverOps
  <2>2. MovesData("sda1", p, c, x, d, g, q, c1, x1, e, h)
    BY <2>1, MovesIs
  <2>3. q = 1 /\ c1 = c /\ x1 = 1 /\ (e = d \/ e = AtRest(d))
    BY <1>2, <2>2 DEF MovesData
  <2>4. CASE e = d
    BY <1>1, <2>3, <2>4, FreeingHead
  <2>5. CASE e = AtRest(d)
    <3>1. e \in Device /\ e.mode = "rest" /\ Left(e) = 0
      BY <1>0, <2>5, AtRestIs, LeftIs
    <3>2. 0 <= Bits + 1 /\ 0 <= Bits
      BY BitsPositive
    <3> QED BY <1>2, <2>3, <3>1, <3>2, FreeingHead DEF Modes
  <2> QED BY <1>2, <2>3, <2>4, <2>5
<1>3. CASE p = 1
  <2>0. p + 1 = 2 * 1 /\ 1 \in 1 .. Bits + 1 /\ Bits \in Nat /\ Bits <= Bits /\ Bits + 1 - 1 = Bits
    BY <1>3, BitsPositive
  <2>1. Recover.ops[p + 1] = "scl0"
    <3>1. Recover.ops[2 * 1] = "scl0"
      BY <2>0, RecoverOps
    <3> QED BY <2>0, <3>1
  <2>2. MovesDown(p, c, x, d, g, q, c1, x1, e, h)
    BY <2>1, MovesIs
  <2>3. q = 2 * 1 /\ q = p + 1 /\ x1 = 1 /\ e.mode \in Modes /\ Left(e) <= Bits
    <3>1. CASE High(c, d)
      BY <1>1, <1>3, <2>0, <2>2, <3>1, LeftFalls DEF MovesDown, Modes
    <3>2. CASE ~High(c, d)
      BY <1>1, <1>3, <2>0, <2>2, <3>2 DEF MovesDown
    <3> QED BY <3>1, <3>2
  <2>4. q # 2 * 1 + 1
    BY <2>3
  <2>5. Clocks(1, q, c1, e)
    BY <2>0, <2>3, <2>4 DEF Clocks
  <2> QED BY <2>0, <2>3, <2>5, FreeingClock
<1> QED BY <1>2, <1>3

LEMMA FreeingKeepsClock ==
    ASSUME NEW j \in 1 .. Bits + 1, NEW p, p = 2 * j \/ p = 2 * j + 1,
           NEW c, NEW x, NEW d, NEW g, NEW q, NEW c1, NEW x1, NEW e, NEW h,
           RecoverMoves(p, c, x, d, g, q, c1, x1, e, h)
    PROVE  q \in {p, p + 1} /\ Freeing(q, c1, x1, e)
<1> USE DEF RecoverMoves
<1>0. d \in Device /\ (d.mode \in {"getAck", "rest"} => d.sda = 1) /\ d.scl \in Bit /\ (d.mode = "rest" => d.scl = 1)
  BY DEF Orderly, Device
<1>1. d.mode \in Modes /\ x = 1 /\ Clocks(j, p, c, d)
  BY FreeingClock
<1>2. CASE p = 2 * j
  <2>1. Recover.ops[p + 1] = "scl1"
    BY <1>2, RecoverOps
  <2>2. MovesUp(p, c, x, d, g, q, c1, x1, e, h)
    BY <2>1, MovesIs
  <2>3. Left(d) <= Bits + 1 - j
    BY <1>1, <1>2 DEF Clocks
  <2>4. q \in {p, p + 1} /\ c1 = 1 /\ x1 = 1 /\ e.mode = d.mode /\ (q = p + 1 => High(c1, e))
    BY <1>1, <1>2, <2>2 DEF MovesUp, Samples, High
  <2>5. Left(e) <= Bits + 1 - j
    <3>1. CASE e = d
      BY <2>3, <3>1
    <3>2. CASE Samples(d, x, e)
      <4>1. CASE d.mode = "send"
        <5>1. e \in Device /\ e.n = d.n /\ e.mode = "send"
          BY <3>2, <4>1 DEF Samples
        <5> QED BY <1>0, <2>3, <4>1, <5>1, LeftIs
      <4>2. CASE d.mode = "getAck"
        <5>1. e \in Device /\ e.mode = "getAck" /\ e.acked = (Level(x, d) = 0) /\ Level(x, d) = 1
          BY <1>0, <1>1, <3>2, <4>2 DEF Samples, Level
        <5>3. Level(x, d) # 0
          BY <5>1
        <5>4. ~e.acked
          BY <5>1, <5>3, Zenon
        <5>2. Left(e) = 0
          BY <5>1, <5>4, LeftIs
        <5> QED BY <5>2, BitsPositive
      <4>3. CASE d.mode = "rest"
        <5>1. e \in Device /\ e.mode = "rest"
          BY <3>2, <4>3 DEF Samples
        <5>2. Left(e) = 0
          BY <5>1, LeftIs
        <5> QED BY <5>2, BitsPositive
      <4> QED BY <1>1, <4>1, <4>2, <4>3 DEF Modes
    <3> QED BY <2>2, <3>1, <3>2 DEF MovesUp
  <2>6. (q = 2 * j \/ q = 2 * j + 1) /\ (q = 2 * j + 1 => q = p + 1)
    BY <1>2, <2>4, BitsPositive
  <2>7. Clocks(j, q, c1, e)
    BY <2>4, <2>5, <2>6 DEF Clocks
  <2> QED BY <1>1, <2>4, <2>6, <2>7, FreeingClock
<1>3. CASE p = 2 * j + 1
  <2>1. Left(d) <= Bits + 1 - j /\ High(c, d)
    BY <1>1, <1>3 DEF Clocks
  <2>2. CASE j < Bits + 1
    <3>0. PICK i \in 1 .. Bits + 1 : i = j + 1 /\ p + 1 = 2 * i /\ p + 1 # 2 * i + 1
      <4>1. j + 1 \in 1 .. Bits + 1 /\ p + 1 = 2 * (j + 1) /\ p + 1 # 2 * (j + 1) + 1
        BY <1>3, <2>2, BitsPositive
      <4> QED BY <4>1
    <3>1. Recover.ops[p + 1] = "scl0"
      BY <3>0, RecoverOps
    <3>2. MovesDown(p, c, x, d, g, q, c1, x1, e, h)
      BY <3>1, MovesIs
    <3>3. q = p + 1 /\ x1 = 1 /\ Falls(e, d)
      BY <1>1, <2>1, <3>2 DEF MovesDown
    <3>4. PICK m \in Nat : m = Bits - j /\ m <= Bits /\ Left(d) <= m + 1 /\ m = Bits + 1 - i
      <4>1. /\ Bits - j \in Nat /\ Bits - j <= Bits /\ Left(d) <= (Bits - j) + 1
            /\ Bits - j = Bits + 1 - i
        BY <1>0, <2>1, <2>2, <3>0, LeftIs, BitsPositive
      <4> QED BY <4>1
    <3>5. e.mode \in Modes /\ Left(e) <= m
      BY <1>1, <3>3, <3>4, LeftFalls DEF Modes
    <3>6. Clocks(i, q, c1, e)
      BY <3>0, <3>3, <3>4, <3>5 DEF Clocks
    <3> QED BY <3>0, <3>3, <3>5, <3>6, FreeingClock
  <2>3. CASE j = Bits + 1
    <3>0. p + 1 = 2 * Bits + 4 /\ 2 * Bits + 4 # 2 * Bits + 6
      BY <1>3, <2>3, BitsPositive
    <3>1. Recover.ops[p + 1] = "sda0"
      BY <3>0, RecoverOps
    <3>2. MovesData("sda0", p, c, x, d, g, q, c1, x1, e, h)
      BY <3>1, MovesIs
    <3>3. Left(d) = 0
      BY <1>0, <2>1, <2>3, LeftIs, BitsPositive
    <3>4. d.mode # "send"
      BY <1>0, <3>3, LeftIs, BitsPositive DEF Device
    <3>5. d.sda = 1
      BY <1>0, <1>1, <3>4 DEF Modes
    <3>6. q = p + 1 /\ c1 = c /\ x1 = 0 /\ e = Started(d)
      BY <1>1, <2>1, <3>2, <3>5 DEF MovesData
    <3>7. e.mode = "addr" /\ High(c1, e)
      BY <1>0, <2>1, <3>6, StartedIs DEF High
    <3> QED BY <3>0, <3>6, <3>7, FreeingTail
  <2> QED BY <2>2, <2>3, BitsPositive
<1> QED BY <1>2, <1>3

LEMMA FreeingKeepsTail ==
    ASSUME NEW p \in {2 * Bits + 4, 2 * Bits + 5}, NEW c, NEW x, NEW d, NEW g, NEW q, NEW c1, NEW x1, NEW e, NEW h,
           RecoverMoves(p, c, x, d, g, q, c1, x1, e, h)
    PROVE  q \in {p, p + 1} /\ Freeing(q, c1, x1, e)
<1> USE DEF RecoverMoves
<1>0. d \in Device /\ p # 2 * Bits + 6
  BY BitsPositive DEF Orderly
<1>1. x = 0 /\ High(c, d) /\ d.mode = "addr" /\ d.sda = 1
  BY <1>0, FreeingTail DEF Orderly
<1>2. CASE p = 2 * Bits + 4
  <2>0. p + 1 = 2 * Bits + 5 /\ 2 * Bits + 5 # 2 * Bits + 6
    BY <1>2, BitsPositive
  <2>1. Recover.ops[p + 1] = "scl1"
    BY <2>0, RecoverOps
  <2>2. MovesUp(p, c, x, d, g, q, c1, x1, e, h)
    BY <2>1, MovesIs
  <2>3. q = p + 1 /\ c1 = 1 /\ x1 = 0 /\ e = d
    BY <1>1, <1>2, <2>2, BitsPositive DEF MovesUp, High
  <2> QED BY <1>1, <2>0, <2>3, FreeingTail DEF High
<1>3. CASE p = 2 * Bits + 5
  <2>0. p + 1 = 2 * Bits + 6
    BY <1>3, BitsPositive
  <2>1. Recover.ops[p + 1] = "sda1"
    BY <2>0, RecoverOps
  <2>2. MovesData("sda1", p, c, x, d, g, q, c1, x1, e, h)
    BY <2>1, MovesIs
  <2>3. q = p + 1 /\ e = AtRest(d)
    BY <1>1, <2>2 DEF MovesData
  <2>4. e.mode = "rest"
    BY <1>0, <2>3, AtRestIs
  <2> QED BY <2>0, <2>3, <2>4, FreeingTail
<1> QED BY <1>2, <1>3

\* The positions of the recovery; together, any of its operations.
LEMMA FreeingPositions ==
    ASSUME NEW p \in 0 .. 2 * Bits + 6
    PROVE  \/ p \in {0, 1}
           \/ \E j \in 1 .. Bits + 1 : p = 2 * j \/ p = 2 * j + 1
           \/ p \in {2 * Bits + 4, 2 * Bits + 5, 2 * Bits + 6}
<1>1. CASE p >= 2 /\ p <= 2 * Bits + 3
  <2>1. p \div 2 \in 1 .. Bits + 1 /\ (p = 2 * (p \div 2) \/ p = 2 * (p \div 2) + 1)
    BY <1>1, BitsPositive
  <2> QED BY <2>1
<1> QED BY <1>1, BitsPositive

LEMMA FreeingKeeps ==
    ASSUME NEW p \in 0 .. 2 * Bits + 5, NEW c, NEW x, NEW d, NEW g, NEW q, NEW c1, NEW x1, NEW e, NEW h,
           RecoverMoves(p, c, x, d, g, q, c1, x1, e, h)
    PROVE  q \in {p, p + 1} /\ Freeing(q, c1, x1, e)
<1>1. p \in 0 .. 2 * Bits + 6 /\ p # 2 * Bits + 6
  BY BitsPositive
<1>2. CASE p \in {0, 1}
  BY <1>2, FreeingKeepsHead
<1>3. CASE \E j \in 1 .. Bits + 1 : p = 2 * j \/ p = 2 * j + 1
  BY <1>3, FreeingKeepsClock
<1>4. CASE p \in {2 * Bits + 4, 2 * Bits + 5}
  BY <1>4, FreeingKeepsTail
<1> QED BY <1>1, <1>2, <1>3, <1>4, FreeingPositions

\* A reader that lets go of the clock stays on its way out.
LEMMA FreeingReleased ==
    ASSUME NEW p \in 0 .. 2 * Bits + 6, NEW c \in Bit, NEW x \in Bit, NEW d, NEW e, Orderly(d, c),
           Releases(c, x, d, e), Freeing(p, c, x, d)
    PROVE  Freeing(p, c, x, e)
<1>0. /\ d \in Device /\ e \in Device /\ ~High(c, d) /\ d.mode # "rest" /\ e.mode = d.mode
      /\ d.mode = "getAck" => d.sda = 1
  BY DEF Orderly, Releases, High, Samples, Stays
<1>1. d.mode = "send" => Left(e) = Left(d)
  <2>1. d.mode = "send" => e.n = d.n
    BY DEF Releases, Samples, Stays
  <2> QED BY <1>0, <2>1, LeftIs
<1>2. d.mode = "getAck" /\ (x = 1 \/ c = 0) => Left(e) = 0
  <2>1. ASSUME d.mode = "getAck", c = 0 PROVE ~e.acked
    <3>1. ~d.acked
      BY <2>1 DEF Orderly
    <3> QED BY <2>1, <3>1 DEF Releases, Stays
  <2>2. ASSUME d.mode = "getAck", c = 1, x = 1 PROVE ~e.acked
    <3>1. e.acked = (Level(x, d) = 0) /\ Level(x, d) = 1
      BY <1>0, <2>2 DEF Releases, Samples, Level
    <3>2. Level(x, d) # 0
      BY <3>1
    <3> QED BY <3>1, <3>2, Zenon
  <2> QED BY <1>0, <2>1, <2>2, LeftIs DEF Bit
<1>3. CASE p \in {0, 1}
  <2>1. d.mode \in Modes /\ (p = 1 => x = 1) /\ Left(d) <= Bits
    BY <1>0, <1>3, FreeingHead
  <2>2. Left(e) <= Bits + 1
    BY <1>0, LeftIs, BitsPositive
  <2>3. c = 0 => Left(e) <= Bits
    <3>1. 0 <= Bits
      BY BitsPositive
    <3> QED BY <1>0, <1>1, <1>2, <2>1, <3>1 DEF Modes
  <2>4. ~High(c, e) => c = 0
    BY DEF High, Releases, Bit
  <2> QED BY <1>0, <1>3, <2>1, <2>2, <2>3, <2>4, FreeingHead
<1>4. ASSUME NEW j \in 1 .. Bits + 1, p = 2 * j \/ p = 2 * j + 1 PROVE Freeing(p, c, x, e)
  <2>1. d.mode \in Modes /\ x = 1 /\ Clocks(j, p, c, d)
    BY <1>4, FreeingClock
  <2>2. p = 2 * j /\ p # 2 * j + 1
    BY <1>0, <1>4, <2>1 DEF Clocks
  <2>3. Left(e) <= Bits + 1 - j
    <3>1. 0 <= Bits + 1 - j
      BY BitsPositive
    <3>2. Left(d) <= Bits + 1 - j
      BY <2>1, <2>2 DEF Clocks
    <3> QED BY <1>0, <1>1, <1>2, <2>1, <3>1, <3>2 DEF Modes
  <2>4. Clocks(j, p, c, e)
    BY <2>2, <2>3 DEF Clocks
  <2> QED BY <1>0, <1>4, <2>1, <2>4, FreeingClock
<1>5. CASE p \in {2 * Bits + 4, 2 * Bits + 5, 2 * Bits + 6}
  <2>1. FALSE
    BY <1>0, <1>5, FreeingTail
  <2> QED BY <2>1
<1> QED BY <1>3, <1>4, <1>5, FreeingPositions

-----------------------------------------------------------------------------
(* The plans. *)

\* The rest of a sequence, its head and its tail.
LEMMA RestIs ==
    ASSUME NEW S, NEW s \in Seq(S), NEW k \in 0 .. Len(s)
    PROVE  /\ Len(Rest(s, k + 1)) = Len(s) - k
           /\ k < Len(s) => /\ Rest(s, k + 1) # <<>> /\ Head(Rest(s, k + 1)) = s[k + 1]
                            /\ Tail(Rest(s, k + 1)) = Rest(s, k + 1 + 1)
           /\ k = Len(s) => Rest(s, k + 1) = <<>>
<1> DEFINE t == SubSeq(s, k + 1, Len(s))
<1>1. t \in Seq(S) /\ Len(t) = Len(s) - k /\ \A i \in 1 .. Len(s) - k : t[i] = s[k + i]
  OBVIOUS
<1>2. CASE k < Len(s)
  <2> DEFINE u == SubSeq(s, k + 1 + 1, Len(s))
  <2>1. u \in Seq(S) /\ Len(u) = Len(s) - k - 1 /\ \A i \in 1 .. Len(s) - k - 1 : u[i] = s[k + 1 + i]
    BY <1>2
  <2> HIDE DEF t, u
  <2>2. t # <<>> /\ Head(t) = t[1] /\ t[1] = s[k + 1]
    BY <1>1, <1>2
  <2>3. Tail(t) \in Seq(S) /\ Len(Tail(t)) = Len(s) - k - 1 /\ \A i \in 1 .. Len(s) - k - 1 : Tail(t)[i] = t[i + 1]
    BY <1>1, <1>2, <2>2
  <2>4. \A i \in 1 .. Len(s) - k - 1 : Tail(t)[i] = u[i]
    <3> TAKE i \in 1 .. Len(s) - k - 1
    <3>1. i + 1 \in 1 .. Len(s) - k /\ k + (i + 1) = k + 1 + i
      BY <1>2
    <3> QED BY <1>1, <2>1, <2>3, <3>1
  <2>5. Tail(t) = u
    BY <2>1, <2>3, <2>4
  <2>6. t = Rest(s, k + 1) /\ u = Rest(s, k + 1 + 1)
    BY DEF t, u, Rest
  <2> QED BY <1>1, <1>2, <2>2, <2>5, <2>6
<1>3. CASE k = Len(s)
  <2>1. t = <<>>
    BY <1>1, <1>3
  <2> QED BY <1>1, <1>3, <2>1 DEF Rest
<1> QED BY <1>2, <1>3

\* The address byte: for the target when the address is its own.
LEMMA AddressedIs ==
    ASSUME NEW a \in Addr, NEW w \in Bit
    PROVE  Addressed(a, w) \in Byte /\ Addressed(a, w)[Bits] = w /\ (ForOwn(Addressed(a, w)) <=> a = Own)
<1>1. a \in Seq(Bit) /\ Len(a) = Bits - 1
  BY BitsPositive DEF Addr
<1>2. /\ Append(a, w) \in Seq(Bit) /\ Len(Append(a, w)) = Bits /\ Append(a, w)[Bits] = w
      /\ SubSeq(Append(a, w), 1, Bits - 1) = a
  BY <1>1, BitsPositive
<1> QED BY <1>2, BytesAre DEF Addressed, ForOwn

\* A probe sends the address byte.
LEMMA ProbeOps ==
    ASSUME NEW a \in Addr
    PROVE  /\ Probe(a).kind = "probe" /\ Probe(a).addr = a /\ SendsByte(Probe(a).ops, Addressed(a, 0))
           /\ Addressed(a, 0) \in Byte
<1>1. Addressed(a, 0) \in Byte
  BY AddressedIs DEF Bit
<1> QED BY <1>1, SendOps DEF Probe

\* What the stage i of a plan does not change.
Same(r, i) == Sent(r, i) = Sent(r, i - 1) /\ Came(r, i) = Came(r, i - 1) /\ Probed(r, i) = Probed(r, i - 1)

\* What may follow a byte written.
Continues(s) == s = Start \/ s = Stop \/ \E b \in Byte : s = Send(b, "-EIO")

\* The stages, with what follows each in the plan of r.
AtRecover(r, i) ==
    /\ i = 1 /\ PlanOf(r)[i] = Recover
    /\ i < Len(PlanOf(r)) => PlanOf(r)[i + 1] = Start
    /\ Sent(r, 1) = <<>> /\ Came(r, 1) = 0 /\ Probed(r, 1) = 0
AtStart(r, i) ==
    /\ i > 1 /\ (r.op # "scan" => i # 3) /\ PlanOf(r)[i] = Start /\ Same(r, i)
    /\ i < Len(PlanOf(r))
    /\ \/ \E b \in Byte : PlanOf(r)[i + 1] = Send(b, "-ENODEV")
       \/ \E a \in Addr : PlanOf(r)[i + 1] = Probe(a)
AtAddress(r, i) ==
    /\ i > 2 /\ r.op # "scan" /\ PlanOf(r)[i] = Send(ByteAt(r, i), "-ENODEV") /\ Same(r, i)
    /\ ByteAt(r, i) \in Byte /\ (ForOwn(ByteAt(r, i)) <=> r.addr = Own)
    /\ i < Len(PlanOf(r))
    /\ IF ByteAt(r, i)[Bits] = 1
       THEN \E ack \in BOOLEAN : PlanOf(r)[i + 1] = Receive(ack) ELSE Continues(PlanOf(r)[i + 1])
AtWritten(r, i) ==
    /\ i > 3 /\ r.op # "scan" /\ PlanOf(r)[i] = Send(ByteAt(r, i), "-EIO")
    /\ ByteAt(r, i) \in Byte
    /\ Sent(r, i) = Append(Sent(r, i - 1), ByteAt(r, i)) /\ Came(r, i) = Came(r, i - 1)
    /\ Probed(r, i) = Probed(r, i - 1)
    /\ i < Len(PlanOf(r)) /\ Continues(PlanOf(r)[i + 1])
AtProbe(r, i) ==
    /\ i > 2 /\ r.op = "scan"
    /\ \E a \in Addr :
         /\ PlanOf(r)[i] = Probe(a) /\ ByteAt(r, i) = Addressed(a, 0)
         /\ Probed(r, i) \in Nat \ {0} /\ Probed(r, i) <= Len(ScanList)
         /\ a = ScanList[Probed(r, i)] /\ Probed(r, i - 1) = Probed(r, i) - 1
    /\ Sent(r, i) = Sent(r, i - 1) /\ Came(r, i) = Came(r, i - 1)
    /\ i < Len(PlanOf(r)) /\ PlanOf(r)[i + 1] = Stop
AtReceived(r, i) ==
    /\ i > 3 /\ r.op # "scan"
    /\ \E ack \in BOOLEAN :
         /\ PlanOf(r)[i] = Receive(ack)
         /\ IF ack THEN \E next \in BOOLEAN : PlanOf(r)[i + 1] = Receive(next) ELSE PlanOf(r)[i + 1] = Stop
    /\ Sent(r, i) = Sent(r, i - 1) /\ Came(r, i) = Came(r, i - 1) + 1 /\ Probed(r, i) = Probed(r, i - 1)
    /\ i < Len(PlanOf(r))
AtStop(r, i) ==
    /\ i > 3 /\ PlanOf(r)[i] = Stop /\ Same(r, i)
    /\ i < Len(PlanOf(r)) => PlanOf(r)[i + 1] = Start
Placed(r, i) ==
    \/ AtRecover(r, i) \/ AtStart(r, i) \/ AtAddress(r, i) \/ AtWritten(r, i) \/ AtProbe(r, i)
    \/ AtReceived(r, i) \/ AtStop(r, i)

\* What a whole plan has sent, received and probed.
Fulfilled(r, n) ==
    /\ Sent(r, n) = r.tx \/ r.op = "scan"
    /\ Came(r, n) = r.len
    /\ r.op = "scan" => Probed(r, n) = Len(ScanList)
    /\ r.op # "scan" => n >= 3

Stages == {Start, Stop, Recover} \cup {Send(b, e) : b \in Byte, e \in {"-ENODEV", "-EIO"}}
          \cup {Probe(a) : a \in Addr} \cup {Receive(ack) : ack \in BOOLEAN}

GluesIn(S, q, s, t) ==
    /\ q \in Seq(S) /\ Len(q) = Len(s) + Len(t)
    /\ \A i \in 1 .. Len(s) : q[i] = s[i]
    /\ \A i \in 1 .. Len(t) : q[Len(s) + i] = t[i]

\* Plans put together, and the parts they are made of.
LEMMA GluedStages ==
    ASSUME NEW s \in Seq(Stages), NEW t \in Seq(Stages)
    PROVE  GluesIn(Stages, s \o t, s, t)
BY DEF GluesIn

LEMMA WrittenIs ==
    ASSUME NEW tx \in Seq(Byte)
    PROVE  /\ Written(tx) \in Seq(Stages) /\ Len(Written(tx)) = Len(tx)
           /\ \A j \in 1 .. Len(tx) : Written(tx)[j] = Send(tx[j], "-EIO")
<1>1. Written(tx) = [i \in 1 .. Len(tx) |-> Send(tx[i], "-EIO")]
  BY DEF Written
<1>2. ASSUME NEW i \in 1 .. Len(tx) PROVE Send(tx[i], "-EIO") \in Stages
  BY DEF Stages
<1> QED BY <1>1, <1>2

LEMMA ReceivedIs ==
    ASSUME NEW n \in Nat
    PROVE  /\ Received(n) \in Seq(Stages) /\ Len(Received(n)) = n
           /\ \A j \in 1 .. n : Received(n)[j] = Receive(j < n)
<1>1. Received(n) = [i \in 1 .. n |-> Receive(i < n)]
  BY DEF Received
<1>2. ASSUME NEW i \in 1 .. n PROVE Receive(i < n) \in Stages
  <2>1. (i < n) \in BOOLEAN
    OBVIOUS
  <2>2. \A ack \in BOOLEAN : Receive(ack) \in Stages
    BY DEF Stages
  <2> QED BY <2>1, <2>2, Zenon
<1> QED BY <1>1, <1>2

\* The three stages that begin each call.
Opens(P, b) == P[1] = Recover /\ P[2] = Start /\ P[3] = Send(b, "-ENODEV")

LEMMA OpeningIs ==
    ASSUME NEW b \in Byte
    PROVE  LET s == <<Recover, Start, Send(b, "-ENODEV")>>
           IN s \in Seq(Stages) /\ Len(s) = 3 /\ Opens(s, b)
<1>1. Recover \in Stages /\ Start \in Stages /\ Send(b, "-ENODEV") \in Stages
  BY DEF Stages
<1> QED BY <1>1 DEF Opens

LEMMA StopIs == <<Stop>> \in Seq(Stages) /\ Len(<<Stop>>) = 1 /\ <<Stop>>[1] = Stop
<1>1. Stop \in Stages
  BY DEF Stages
<1> QED BY <1>1

WriteShape(P, a, tx) ==
    /\ P \in Seq(Stages) /\ Len(P) = Len(tx) + 4 /\ Opens(P, Addressed(a, 0))
    /\ \A j \in 1 .. Len(tx) : P[3 + j] = Send(tx[j], "-EIO")
    /\ P[Len(tx) + 4] = Stop
ReadShape(P, a, n) ==
    /\ P \in Seq(Stages) /\ Len(P) = n + 4 /\ Opens(P, Addressed(a, 1))
    /\ \A j \in 1 .. n : P[3 + j] = Receive(j < n)
    /\ P[n + 4] = Stop
WriteReadShape(P, a, tx, n) ==
    /\ P \in Seq(Stages) /\ Len(P) = Len(tx) + n + 6 /\ Opens(P, Addressed(a, 0))
    /\ \A j \in 1 .. Len(tx) : P[3 + j] = Send(tx[j], "-EIO")
    /\ P[Len(tx) + 4] = Start /\ P[Len(tx) + 5] = Send(Addressed(a, 1), "-ENODEV")
    /\ \A j \in 1 .. n : P[Len(tx) + 5 + j] = Receive(j < n)
    /\ P[Len(tx) + n + 6] = Stop

LEMMA Bits01 == 0 \in Bit /\ 1 \in Bit
BY DEF Bit

\* A write's plan, and a read's, stage by stage.
LEMMA WritePlanIs ==
    ASSUME NEW a \in Addr, NEW tx \in Seq(Byte)
    PROVE  WriteShape(WritePlan(a, tx), a, tx)
<1> DEFINE b == Addressed(a, 0)
           s == <<Recover, Start, Send(b, "-ENODEV")>>
           t == Written(tx)
           u == s \o t
           n == Len(tx)
<1>0. b \in Byte /\ n \in Nat
  BY AddressedIs, Bits01
<1>1. s \in Seq(Stages) /\ Len(s) = 3 /\ Opens(s, b)
  BY <1>0, OpeningIs
<1>2. t \in Seq(Stages) /\ Len(t) = n /\ \A j \in 1 .. n : t[j] = Send(tx[j], "-EIO")
  BY WrittenIs
<1>3. WritePlan(a, tx) = u \o <<Stop>>
  BY DEF WritePlan
<1>4. \A v : v = b => Opens(s, v) BY <1>1
<1> HIDE DEF s, t, n
<1>5. u \in Seq(Stages) /\ Len(u) = 3 + n /\ (\A i \in 1 .. 3 : u[i] = s[i]) /\ (\A j \in 1 .. n : u[3 + j] = t[j])
  <2>1. GluesIn(Stages, u, s, t)
    BY <1>1, <1>2, GluedStages
  <2> HIDE DEF u
  <2> QED BY <1>1, <1>2, <2>1 DEF GluesIn
<1> HIDE DEF u
<1>6. /\ u \o <<Stop>> \in Seq(Stages) /\ Len(u \o <<Stop>>) = n + 4
      /\ \A i \in 1 .. 3 + n : (u \o <<Stop>>)[i] = u[i]
      /\ (u \o <<Stop>>)[n + 4] = Stop
  <2>1. GluesIn(Stages, u \o <<Stop>>, u, <<Stop>>)
    BY <1>5, StopIs, GluedStages
  <2>2. 1 \in 1 .. 1 /\ (3 + n) + 1 = n + 4
    BY <1>0
  <2> QED BY <1>0, <1>5, <2>1, <2>2, StopIs DEF GluesIn
<1> DEFINE P == u \o <<Stop>>
<1> HIDE DEF P
<1>7. /\ P \in Seq(Stages) /\ Len(P) = n + 4 /\ P[n + 4] = Stop
      /\ \A i \in 1 .. 3 + n : P[i] = u[i]
  BY <1>6 DEF P
<1>8. Opens(P, b)
  <2>1. 1 \in 1 .. 3 /\ 2 \in 1 .. 3 /\ 3 \in 1 .. 3 /\ 1 \in 1 .. 3 + n /\ 2 \in 1 .. 3 + n /\ 3 \in 1 .. 3 + n
    BY <1>0
  <2> QED BY <1>1, <1>5, <1>7, <2>1 DEF Opens
<1>9. \A j \in 1 .. n : P[3 + j] = Send(tx[j], "-EIO")
  <2> TAKE j \in 1 .. n
  <2>1. 3 + j \in 1 .. 3 + n
    BY <1>0
  <2> QED BY <1>2, <1>5, <1>7, <2>1
<1> QED BY <1>3, <1>7, <1>8, <1>9 DEF P, n, WriteShape

LEMMA ReadPlanIs ==
    ASSUME NEW a \in Addr, NEW n \in Nat
    PROVE  ReadShape(ReadPlan(a, n), a, n)
<1> DEFINE b == Addressed(a, 1)
           s == <<Recover, Start, Send(b, "-ENODEV")>>
           t == Received(n)
           u == s \o t
<1>0. b \in Byte
  BY AddressedIs, Bits01
<1>1. s \in Seq(Stages) /\ Len(s) = 3 /\ Opens(s, b)
  BY <1>0, OpeningIs
<1>2. t \in Seq(Stages) /\ Len(t) = n /\ \A j \in 1 .. n : t[j] = Receive(j < n)
  BY ReceivedIs
<1>3. ReadPlan(a, n) = u \o <<Stop>>
  BY DEF ReadPlan
<1> HIDE DEF s, t
<1>5. u \in Seq(Stages) /\ Len(u) = 3 + n /\ (\A i \in 1 .. 3 : u[i] = s[i]) /\ (\A j \in 1 .. n : u[3 + j] = t[j])
  <2>1. GluesIn(Stages, u, s, t)
    BY <1>1, <1>2, GluedStages
  <2> HIDE DEF u
  <2> QED BY <1>1, <1>2, <2>1 DEF GluesIn
<1> HIDE DEF u
<1>6. /\ u \o <<Stop>> \in Seq(Stages) /\ Len(u \o <<Stop>>) = n + 4
      /\ \A i \in 1 .. 3 + n : (u \o <<Stop>>)[i] = u[i]
      /\ (u \o <<Stop>>)[n + 4] = Stop
  <2>1. GluesIn(Stages, u \o <<Stop>>, u, <<Stop>>)
    BY <1>5, StopIs, GluedStages
  <2>2. 1 \in 1 .. 1 /\ (3 + n) + 1 = n + 4
    OBVIOUS
  <2> QED BY <1>5, <2>1, <2>2, StopIs DEF GluesIn
<1> DEFINE P == u \o <<Stop>>
<1> HIDE DEF P
<1>7. /\ P \in Seq(Stages) /\ Len(P) = n + 4 /\ P[n + 4] = Stop
      /\ \A i \in 1 .. 3 + n : P[i] = u[i]
  BY <1>6 DEF P
<1>8. Opens(P, b)
  <2>1. 1 \in 1 .. 3 /\ 2 \in 1 .. 3 /\ 3 \in 1 .. 3 /\ 1 \in 1 .. 3 + n /\ 2 \in 1 .. 3 + n /\ 3 \in 1 .. 3 + n
    OBVIOUS
  <2> QED BY <1>1, <1>5, <1>7, <2>1 DEF Opens
<1>9. \A j \in 1 .. n : P[3 + j] = t[j]
  <2> TAKE j \in 1 .. n
  <2>1. 3 + j \in 1 .. 3 + n
    OBVIOUS
  <2> QED BY <1>5, <1>7, <2>1
<1>10. \A j \in 1 .. n : P[3 + j] = Receive(j < n)
  BY <1>2, <1>9, Zenon
<1> QED BY <1>3, <1>7, <1>8, <1>10, Zenon DEF P, ReadShape

\* The plan of a write and a read, stage by stage.
LEMMA WriteReadPlanIs ==
    ASSUME NEW a \in Addr, NEW tx \in Seq(Byte), NEW m \in Nat
    PROVE  WriteReadShape(WriteReadPlan(a, tx, m), a, tx, m)
<1> DEFINE b == Addressed(a, 0)
           s == <<Recover, Start, Send(b, "-ENODEV")>>
           t == Written(tx)
           n == Len(tx)
           w == <<Start, Send(Addressed(a, 1), "-ENODEV")>>
           r == Received(m)
           u == s \o t
           v == u \o w
           z == v \o r
<1>0. b \in Byte /\ n \in Nat /\ Addressed(a, 1) \in Byte
  BY AddressedIs, Bits01
<1>1. s \in Seq(Stages) /\ Len(s) = 3 /\ Opens(s, b)
  BY <1>0, OpeningIs
<1>2. t \in Seq(Stages) /\ Len(t) = n /\ \A j \in 1 .. n : t[j] = Send(tx[j], "-EIO")
  BY WrittenIs
<1>3. r \in Seq(Stages) /\ Len(r) = m /\ \A j \in 1 .. m : r[j] = Receive(j < m)
  BY ReceivedIs
<1>4. w \in Seq(Stages) /\ Len(w) = 2 /\ w[1] = Start /\ w[2] = Send(Addressed(a, 1), "-ENODEV")
  <2>1. Start \in Stages /\ Send(Addressed(a, 1), "-ENODEV") \in Stages
    BY <1>0 DEF Stages
  <2> QED BY <2>1
<1>5. WriteReadPlan(a, tx, m) = z \o <<Stop>>
  BY DEF WriteReadPlan
<1> HIDE DEF s, t, n, w, r
<1>6. u \in Seq(Stages) /\ Len(u) = 3 + n /\ (\A i \in 1 .. 3 : u[i] = s[i]) /\ (\A j \in 1 .. n : u[3 + j] = t[j])
  <2>1. GluesIn(Stages, u, s, t)
    BY <1>1, <1>2, GluedStages
  <2> HIDE DEF u
  <2> QED BY <1>1, <1>2, <2>1 DEF GluesIn
<1> HIDE DEF u
<1>7. /\ v \in Seq(Stages) /\ Len(v) = n + 5
      /\ \A i \in 1 .. 3 + n : v[i] = u[i]
      /\ v[n + 4] = Start /\ v[n + 5] = Send(Addressed(a, 1), "-ENODEV")
  <2>1. GluesIn(Stages, v, u, w)
    BY <1>4, <1>6, GluedStages
  <2> HIDE DEF v
  <2>2. 1 \in 1 .. 2 /\ 2 \in 1 .. 2 /\ (3 + n) + 1 = n + 4 /\ (3 + n) + 2 = n + 5
    BY <1>0
  <2> QED BY <1>0, <1>4, <1>6, <2>1, <2>2 DEF GluesIn
<1> HIDE DEF v
<1>8. /\ z \in Seq(Stages) /\ Len(z) = n + 5 + m
      /\ \A i \in 1 .. n + 5 : z[i] = v[i]
      /\ \A j \in 1 .. m : z[n + 5 + j] = r[j]
  <2>1. GluesIn(Stages, z, v, r)
    BY <1>3, <1>7, GluedStages
  <2> HIDE DEF z
  <2> QED BY <1>0, <1>3, <1>7, <2>1 DEF GluesIn
<1> HIDE DEF z
<1>9. /\ z \o <<Stop>> \in Seq(Stages) /\ Len(z \o <<Stop>>) = n + m + 6
      /\ \A i \in 1 .. n + 5 + m : (z \o <<Stop>>)[i] = z[i]
      /\ (z \o <<Stop>>)[n + m + 6] = Stop
  <2>1. GluesIn(Stages, z \o <<Stop>>, z, <<Stop>>)
    BY <1>8, StopIs, GluedStages
  <2>2. 1 \in 1 .. 1 /\ (n + 5 + m) + 1 = n + m + 6
    BY <1>0
  <2> QED BY <1>0, <1>8, <2>1, <2>2, StopIs DEF GluesIn
<1> DEFINE P == z \o <<Stop>>
<1> HIDE DEF P
<1>10. /\ P \in Seq(Stages) /\ Len(P) = n + m + 6 /\ P[n + m + 6] = Stop
       /\ \A i \in 1 .. n + 5 + m : P[i] = z[i]
  BY <1>9 DEF P
<1>11. \A i \in 1 .. n + 5 : P[i] = v[i]
  BY <1>0, <1>8, <1>10
<1>12. \A i \in 1 .. n + 3 : P[i] = u[i]
  BY <1>0, <1>7, <1>11
<1>13. Opens(P, b)
  <2>1. 1 \in 1 .. 3 /\ 2 \in 1 .. 3 /\ 3 \in 1 .. 3 /\ 1 \in 1 .. n + 3 /\ 2 \in 1 .. n + 3 /\ 3 \in 1 .. n + 3
    BY <1>0
  <2> QED BY <1>1, <1>6, <1>12, <2>1 DEF Opens
<1>14. \A j \in 1 .. n : P[3 + j] = Send(tx[j], "-EIO")
  <2> TAKE j \in 1 .. n
  <2>1. 3 + j \in 1 .. n + 3
    BY <1>0
  <2> QED BY <1>2, <1>6, <1>12, <2>1
<1>15. P[n + 4] = Start /\ P[n + 5] = Send(Addressed(a, 1), "-ENODEV")
  <2>1. n + 4 \in 1 .. n + 5 /\ n + 5 \in 1 .. n + 5
    BY <1>0
  <2> QED BY <1>7, <1>11, <2>1
<1>16. \A j \in 1 .. m : P[n + 5 + j] = r[j]
  <2> TAKE j \in 1 .. m
  <2>1. n + 5 + j \in 1 .. n + 5 + m
    BY <1>0
  <2> QED BY <1>8, <1>10, <2>1
<1>17. \A j \in 1 .. m : P[n + 5 + j] = Receive(j < m)
  BY <1>3, <1>16, Zenon
<1> QED BY <1>5, <1>10, <1>13, <1>14, <1>15, <1>17, Zenon DEF P, n, WriteReadShape

ScanShape(P) ==
    /\ P \in Seq(Stages) /\ Len(P) = 3 * Len(ScanList) + 1 /\ P[1] = Recover
    /\ \A j \in 1 .. Len(ScanList) :
         P[3 * j - 1] = Start /\ P[3 * j] = Probe(ScanList[j]) /\ P[3 * j + 1] = Stop

\* A scan's plan, stage by stage.
LEMMA ScanPlanIs == ScanShape(ScanPlan)
<1> DEFINE n == Len(ScanList)
           F(k) == CASE k % 3 = 1 -> Start
                     [] k % 3 = 2 -> Probe(ScanList[(k + 1) \div 3])
                     [] k % 3 = 0 -> Stop
           s == [k \in 1 .. 3 * n |-> F(k)]
<1>0. n \in Nat /\ \A j \in 1 .. n : ScanList[j] \in Addr
  BY BusAssumption
<1>1. ASSUME NEW k \in 1 .. 3 * n PROVE F(k) \in Stages
  <2>1. k % 3 = 0 \/ k % 3 = 1 \/ k % 3 = 2
    BY <1>0
  <2>2. CASE k % 3 = 1
    BY <2>2 DEF Stages
  <2>3. CASE k % 3 = 2
    <3>1. (k + 1) \div 3 \in 1 .. n
      BY <1>0, <2>3
    <3> QED BY <1>0, <2>3, <3>1 DEF Stages
  <2>4. CASE k % 3 = 0
    BY <2>4 DEF Stages
  <2> QED BY <2>1, <2>2, <2>3, <2>4
<1>2. ASSUME NEW j \in 1 .. n
      PROVE  /\ 3 * j - 2 \in 1 .. 3 * n /\ F(3 * j - 2) = Start
             /\ 3 * j - 1 \in 1 .. 3 * n /\ F(3 * j - 1) = Probe(ScanList[j])
             /\ 3 * j \in 1 .. 3 * n /\ F(3 * j) = Stop
  <2>1. /\ (3 * j - 2) % 3 = 1 /\ (3 * j - 1) % 3 = 2 /\ (3 * j) % 3 = 0
        /\ ((3 * j - 1) + 1) \div 3 = j
    BY <1>0
  <2>2. 3 * j - 2 \in 1 .. 3 * n /\ 3 * j - 1 \in 1 .. 3 * n /\ 3 * j \in 1 .. 3 * n
    BY <1>0
  <2>3. F(3 * j - 2) = Start
    BY <2>1
  <2>4. F(3 * j - 1) = Probe(ScanList[j])
    BY <2>1
  <2>5. F(3 * j) = Stop
    BY <2>1
  <2> QED BY <2>2, <2>3, <2>4, <2>5
<1>3. ScanPlan = <<Recover>> \o s
  BY DEF ScanPlan
<1> HIDE DEF F
<1>4. s \in Seq(Stages) /\ Len(s) = 3 * n /\ \A k \in 1 .. 3 * n : s[k] = F(k)
  BY <1>0, <1>1
<1>5. <<Recover>> \in Seq(Stages) /\ Len(<<Recover>>) = 1 /\ <<Recover>>[1] = Recover
  <2>1. Recover \in Stages
    BY DEF Stages
  <2> QED BY <2>1
<1> HIDE DEF s
<1> DEFINE P == <<Recover>> \o s
<1>6. GluesIn(Stages, P, <<Recover>>, s)
  BY <1>4, <1>5, GluedStages
<1> HIDE DEF P
<1>7. /\ P \in Seq(Stages) /\ Len(P) = 3 * n + 1 /\ P[1] = Recover
      /\ \A k \in 1 .. 3 * n : P[1 + k] = F(k)
  <2>1. 1 \in 1 .. 1
    OBVIOUS
  <2> QED BY <1>0, <1>4, <1>5, <1>6, <2>1 DEF GluesIn
<1>8. ASSUME NEW j \in 1 .. n
      PROVE  P[3 * j - 1] = Start /\ P[3 * j] = Probe(ScanList[j]) /\ P[3 * j + 1] = Stop
  <2>1. 1 + (3 * j - 2) = 3 * j - 1 /\ 1 + (3 * j - 1) = 3 * j /\ 1 + 3 * j = 3 * j + 1
    BY <1>0
  <2> QED BY <1>2, <1>7, <2>1
<1> QED BY <1>3, <1>7, <1>8 DEF P, ScanShape

\* What the stages of a plan have sent, as they go by.
LEMMA TakenBytes ==
    ASSUME NEW tx \in Seq(Byte)
    PROVE  /\ SubSeq(tx, 1, 0) = <<>> /\ SubSeq(tx, 1, Len(tx)) = tx
           /\ \A j \in 1 .. Len(tx) : SubSeq(tx, 1, j) = Append(SubSeq(tx, 1, j - 1), tx[j])
OBVIOUS

LEMMA SentIs ==
    ASSUME NEW r \in Request, NEW i \in Nat
    PROVE  /\ r.op \in {"write", "write_read"} =>
                /\ i <= 3 => Sent(r, i) = <<>>
                /\ i \in 4 .. 3 + Len(r.tx) => Sent(r, i) = Append(Sent(r, i - 1), r.tx[i - 3])
                /\ i >= 3 + Len(r.tx) => Sent(r, i) = r.tx
           /\ r.op \notin {"write", "write_read"} => Sent(r, i) = <<>>
<1> DEFINE n == Len(r.tx)
<1>0. r.tx \in Seq(Byte) /\ n \in Nat
  BY DEF Request
<1>1. CASE r.op \notin {"write", "write_read"}
  BY <1>1 DEF Sent
<1>2. CASE r.op \in {"write", "write_read"}
  <2>0. \A k \in Nat : Sent(r, k) = SubSeq(r.tx, 1, Clamped(k - 3, n))
    BY <1>2 DEF Sent
  <2>1. CASE i <= 3
    <3>1. Clamped(i - 3, n) = 0
      BY <1>0, <2>1 DEF Clamped
    <3>2. Sent(r, i) = <<>>
      BY <1>0, <2>0, <3>1, TakenBytes
    <3>3. i >= 3 + n => r.tx = <<>>
      BY <1>0, <2>1
    <3> QED BY <1>0, <1>2, <2>1, <3>2, <3>3
  <2>2. CASE i > 3 /\ i <= 3 + n
    <3>1. Clamped(i - 3, n) = i - 3 /\ Clamped(i - 1 - 3, n) = i - 3 - 1 /\ i - 3 \in 1 .. n /\ i - 1 \in Nat
      BY <1>0, <2>2 DEF Clamped
    <3>2. Sent(r, i) = SubSeq(r.tx, 1, i - 3) /\ Sent(r, i - 1) = SubSeq(r.tx, 1, i - 3 - 1)
      BY <2>0, <3>1
    <3>3. SubSeq(r.tx, 1, i - 3) = Append(SubSeq(r.tx, 1, i - 3 - 1), r.tx[i - 3])
      BY <1>0, <3>1, TakenBytes
    <3>4. i = 3 + n => Sent(r, i) = r.tx
      <4>1. i = 3 + n => i - 3 = n
        BY <1>0
      <4> QED BY <1>0, <3>2, <4>1, TakenBytes
    <3> QED BY <1>0, <1>2, <2>2, <3>2, <3>3, <3>4
  <2>3. CASE i > 3 + n
    <3>1. Clamped(i - 3, n) = n
      BY <1>0, <2>3 DEF Clamped
    <3>2. Sent(r, i) = r.tx
      BY <1>0, <2>0, <3>1, TakenBytes
    <3> QED BY <1>0, <1>2, <2>3, <3>2
  <2> QED BY <1>0, <2>1, <2>2, <2>3
<1> QED BY <1>1, <1>2

\* Every stage of a write has its place.
LEMMA WritePlaced ==
    ASSUME NEW r, Proper(r), r.op = "write", NEW i \in 1 .. Len(PlanOf(r))
    PROVE  Placed(r, i)
<1> DEFINE n == Len(r.tx)  P == PlanOf(r)
<1>0. r \in Request /\ r.tx \in Seq(Byte) /\ r.addr \in Addr /\ n \in Nat
  BY DEF Proper, Request
<1>1. P = WritePlan(r.addr, r.tx)
  BY DEF PlanOf
<1>2. WriteShape(P, r.addr, r.tx)
  BY <1>0, <1>1, WritePlanIs
<1>3. Len(P) = n + 4
  BY <1>2 DEF WriteShape
<1>4. P[1] = Recover /\ P[2] = Start /\ P[3] = Send(Addressed(r.addr, 0), "-ENODEV")
  BY <1>2 DEF WriteShape, Opens
<1>5. \A k \in Nat : Came(r, k) = 0 /\ Probed(r, k) = 0
  BY DEF Came, Probed
<1>6. /\ i \in Nat /\ i - 1 \in Nat
      /\ Sent(r, 0) = <<>> /\ Sent(r, 1) = <<>> /\ Sent(r, 2) = <<>> /\ Sent(r, 3) = <<>>
  BY <1>0, SentIs
<1>7. Addressed(r.addr, 0) \in Byte
  BY <1>0, AddressedIs, Bits01
\* What follows the address, or the byte k.
<1>8. ASSUME NEW k \in 3 .. n + 3 PROVE Continues(P[k + 1])
  <2>1. CASE k = n + 3
    <3>1. P[k + 1] = Stop
      BY <1>0, <1>2, <2>1 DEF WriteShape
    <3> QED BY <3>1 DEF Continues
  <2>2. CASE k < n + 3
    <3>1. (k + 1) - 3 \in 1 .. n /\ 3 + ((k + 1) - 3) = k + 1
      BY <1>0, <2>2
    <3>2. P[k + 1] = Send(r.tx[(k + 1) - 3], "-EIO")
      BY <1>2, <3>1 DEF WriteShape
    <3>3. r.tx[(k + 1) - 3] \in Byte
      BY <1>0, <3>1
    <3> QED BY <3>2, <3>3 DEF Continues
  <2> QED BY <1>0, <2>1, <2>2
<1> HIDE DEF P, n
<1>9. CASE i = 1
  <2>1. AtRecover(r, i)
    BY <1>4, <1>5, <1>6, <1>9 DEF AtRecover, P
  <2> QED BY <2>1 DEF Placed
<1>10. CASE i = 2
  <2>1. Same(r, i)
    BY <1>5, <1>6, <1>10 DEF Same
  <2>2. i < Len(P) /\ i + 1 = 3
    BY <1>0, <1>3, <1>10
  <2>3. AtStart(r, i)
    BY <1>4, <1>7, <1>10, <2>1, <2>2 DEF AtStart, P
  <2> QED BY <2>3 DEF Placed
<1>11. CASE i = 3
  <2>1. Same(r, i)
    BY <1>5, <1>6, <1>11 DEF Same
  <2>2. i < Len(P) /\ i \in 3 .. n + 3
    BY <1>0, <1>3, <1>11
  <2>3. ByteAt(r, i) = Addressed(r.addr, 0)
    BY <1>11 DEF ByteAt
  <2>4. ByteAt(r, i)[Bits] # 1 /\ (ForOwn(ByteAt(r, i)) <=> r.addr = Own)
    BY <1>0, <2>3, AddressedIs, Bits01
  <2>5. Continues(P[i + 1])
    BY <1>8, <2>2
  <2>6. AtAddress(r, i)
    BY <1>4, <1>7, <1>11, <2>1, <2>2, <2>3, <2>4, <2>5 DEF AtAddress, P
  <2> QED BY <2>6 DEF Placed
<1>12. CASE i > 3 /\ i <= n + 3
  <2>1. i < Len(P) /\ i \in 3 .. n + 3 /\ i \in 4 .. 3 + n /\ i - 3 \in 1 .. n /\ 3 + (i - 3) = i
    BY <1>0, <1>3, <1>12
  <2>2. ByteAt(r, i) = r.tx[i - 3]
    BY <1>12 DEF ByteAt
  <2>3. P[i] = Send(r.tx[i - 3], "-EIO")
    BY <1>2, <2>1 DEF WriteShape, n
  <2>4. r.tx[i - 3] \in Byte
    BY <1>0, <2>1 DEF n
  <2>5. Sent(r, i) = Append(Sent(r, i - 1), ByteAt(r, i))
    BY <1>0, <1>6, <2>1, <2>2, SentIs DEF n
  <2>6. Continues(P[i + 1])
    BY <1>8, <2>1
  <2>7. AtWritten(r, i)
    BY <1>5, <1>6, <1>12, <2>1, <2>2, <2>3, <2>4, <2>5, <2>6 DEF AtWritten, P
  <2> QED BY <2>7 DEF Placed
<1>13. CASE i = n + 4
  <2>1. i - 1 >= 3 + n /\ i >= 3 + n /\ i > 3 /\ ~(i < Len(P))
    BY <1>0, <1>3, <1>13
  <2>2. Sent(r, i) = r.tx /\ Sent(r, i - 1) = r.tx
    BY <1>0, <1>6, <2>1, SentIs DEF n
  <2>3. P[i] = Stop
    BY <1>2, <1>13 DEF WriteShape, n
  <2>4. AtStop(r, i)
    BY <1>5, <1>6, <2>1, <2>2, <2>3 DEF AtStop, Same, P
  <2> QED BY <2>4 DEF Placed
<1>14. i <= n + 4 /\ i >= 1 /\ i \in Nat
  BY <1>0, <1>3 DEF P
<1> QED BY <1>0, <1>9, <1>10, <1>11, <1>12, <1>13, <1>14

LEMMA ClampedIs ==
    ASSUME NEW k \in Int, NEW n \in Nat
    PROVE  /\ k <= 0 => Clamped(k, n) = 0
           /\ k >= n => Clamped(k, n) = n
           /\ k > 0 /\ k <= n => Clamped(k, n) = Clamped(k - 1, n) + 1
BY DEF Clamped

\* What the stages of a plan have received, as they go by.
LEMMA CameIs ==
    ASSUME NEW r \in Request, NEW i \in Nat
    PROVE  /\ r.op = "read" =>
                /\ i <= 3 => Came(r, i) = 0
                /\ i > 3 /\ i <= 3 + r.len => Came(r, i) = Came(r, i - 1) + 1
                /\ i >= 3 + r.len => Came(r, i) = r.len
           /\ r.op = "write_read" =>
                /\ i <= 5 + Len(r.tx) => Came(r, i) = 0
                /\ i > 5 + Len(r.tx) /\ i <= 5 + Len(r.tx) + r.len => Came(r, i) = Came(r, i - 1) + 1
                /\ i >= 5 + Len(r.tx) + r.len => Came(r, i) = r.len
<1> DEFINE n == Len(r.tx)
<1>0. n \in Nat /\ r.len \in Nat
  BY DEF Request
<1>1. CASE r.op = "read"
  <2>1. \A k \in Int : Came(r, k) = Clamped(k - 3, r.len)
    BY <1>1 DEF Came
  <2>2. i - 3 \in Int /\ i - 1 \in Int /\ i - 1 - 3 = i - 3 - 1
    OBVIOUS
  <2>3. Came(r, i) = Clamped(i - 3, r.len) /\ Came(r, i - 1) = Clamped(i - 3 - 1, r.len)
    BY <2>1, <2>2
  <2> QED BY <1>0, <1>1, <2>2, <2>3, ClampedIs
<1>2. CASE r.op = "write_read"
  <2>1. Came(r, i) = Clamped(i - 5 - n, r.len) /\ Came(r, i - 1) = Clamped(i - 1 - 5 - n, r.len)
    BY <1>2 DEF Came
  <2> HIDE DEF n
  <2> DEFINE m == i - 5 - n
  <2>2. m \in Int /\ i - 1 - 5 - n = m - 1
    BY <1>0
  <2>3. /\ i <= 5 + n <=> m <= 0
        /\ i > 5 + n /\ i <= 5 + n + r.len <=> m > 0 /\ m <= r.len
        /\ i >= 5 + n + r.len <=> m >= r.len
    BY <1>0
  <2>4. Came(r, i) = Clamped(m, r.len) /\ Came(r, i - 1) = Clamped(m - 1, r.len)
    BY <2>1, <2>2
  <2> HIDE DEF m
  <2>5. /\ m <= 0 => Clamped(m, r.len) = 0
        /\ m >= r.len => Clamped(m, r.len) = r.len
        /\ m > 0 /\ m <= r.len => Clamped(m, r.len) = Clamped(m - 1, r.len) + 1
    BY <1>0, <2>2, ClampedIs
  <2>6. /\ i <= 5 + n => Came(r, i) = 0
        /\ i > 5 + n /\ i <= 5 + n + r.len => Came(r, i) = Came(r, i - 1) + 1
        /\ i >= 5 + n + r.len => Came(r, i) = r.len
    BY <2>3, <2>4, <2>5
  <2> QED BY <1>2, <2>6 DEF n
<1> QED BY <1>1, <1>2

\* Every stage of a read has its place.
LEMMA ReadPlaced ==
    ASSUME NEW r, Proper(r), r.op = "read", NEW i \in 1 .. Len(PlanOf(r))
    PROVE  Placed(r, i)
<1> DEFINE n == r.len  P == PlanOf(r)
<1>0. r \in Request /\ r.addr \in Addr /\ n \in Nat /\ n > 0
  BY DEF Proper, Request
<1>1. P = ReadPlan(r.addr, n)
  BY DEF PlanOf
<1>2. ReadShape(P, r.addr, n)
  BY <1>0, <1>1, ReadPlanIs
<1>3. Len(P) = n + 4
  BY <1>2 DEF ReadShape
<1>4. P[1] = Recover /\ P[2] = Start /\ P[3] = Send(Addressed(r.addr, 1), "-ENODEV")
  BY <1>2 DEF ReadShape, Opens
<1>5. \A k \in Nat : Sent(r, k) = <<>> /\ Probed(r, k) = 0
  BY DEF Sent, Probed
<1>6. /\ i \in Nat /\ i - 1 \in Nat
      /\ Came(r, 0) = 0 /\ Came(r, 1) = 0 /\ Came(r, 2) = 0 /\ Came(r, 3) = 0
  BY <1>0, CameIs
<1>7. Addressed(r.addr, 1) \in Byte
  BY <1>0, AddressedIs, Bits01
<1>8. ASSUME NEW k \in 4 .. n + 3
      PROVE  P[k] = Receive(k < n + 3)
  <2>1. k - 3 \in 1 .. n /\ 3 + (k - 3) = k /\ (k - 3 < n) = (k < n + 3)
    BY <1>0
  <2>2. P[3 + (k - 3)] = Receive(k - 3 < n)
    BY <1>2, <2>1, Zenon DEF ReadShape
  <2> QED BY <2>1, <2>2, Zenon
<1> HIDE DEF P, n
<1>9. CASE i = 1
  <2>1. AtRecover(r, i)
    BY <1>4, <1>5, <1>6, <1>9 DEF AtRecover, P
  <2> QED BY <2>1 DEF Placed
<1>10. CASE i = 2
  <2>1. Same(r, i)
    BY <1>5, <1>6, <1>10 DEF Same
  <2>2. i < Len(P) /\ i + 1 = 3
    BY <1>0, <1>3, <1>10
  <2>3. AtStart(r, i)
    BY <1>4, <1>7, <1>10, <2>1, <2>2 DEF AtStart, P
  <2> QED BY <2>3 DEF Placed
<1>11. CASE i = 3
  <2>1. Same(r, i)
    BY <1>5, <1>6, <1>11 DEF Same
  <2>2. i < Len(P) /\ i + 1 \in 4 .. n + 3
    BY <1>0, <1>3, <1>11
  <2>3. ByteAt(r, i) = Addressed(r.addr, 1)
    BY <1>11 DEF ByteAt
  <2>4. ByteAt(r, i)[Bits] = 1 /\ (ForOwn(ByteAt(r, i)) <=> r.addr = Own)
    BY <1>0, <2>3, AddressedIs, Bits01
  <2>5. \E ack \in BOOLEAN : P[i + 1] = Receive(ack)
    <3>1. P[i + 1] = Receive(i + 1 < n + 3)
      BY <1>8, <2>2, Zenon
    <3>2. (i + 1 < n + 3) \in BOOLEAN
      OBVIOUS
    <3> QED BY <3>1, <3>2, Zenon
  <2>6. AtAddress(r, i)
    BY <1>4, <1>7, <1>11, <2>1, <2>2, <2>3, <2>4, <2>5 DEF AtAddress, P
  <2> QED BY <2>6 DEF Placed
<1>12. CASE i > 3 /\ i <= n + 3
  <2>1. i < Len(P) /\ i \in 4 .. n + 3
    BY <1>0, <1>3, <1>12
  <2>2. Came(r, i) = Came(r, i - 1) + 1
    BY <1>0, <1>6, <1>12, CameIs DEF n
  <2>3. \E ack \in BOOLEAN :
         /\ P[i] = Receive(ack)
         /\ IF ack THEN \E next \in BOOLEAN : P[i + 1] = Receive(next) ELSE P[i + 1] = Stop
    <3>1. CASE i < n + 3
      <4>1. i + 1 \in 4 .. n + 3
        BY <1>0, <3>1, <2>1
      <4>2. P[i + 1] = Receive(i + 1 < n + 3)
        BY <1>8, <4>1, Zenon
      <4>3. (i + 1 < n + 3) \in BOOLEAN /\ (i < n + 3) = TRUE
        BY <3>1
      <4>4. P[i] = Receive(TRUE)
        BY <1>8, <2>1, <4>3, Zenon
      <4> QED BY <4>2, <4>3, <4>4, Zenon
    <3>2. CASE i = n + 3
      <4>1. ~(i < n + 3) /\ i + 1 = n + 4
        BY <1>0, <3>2
      <4>2. P[i] = Receive(FALSE)
        <5>1. (i < n + 3) = FALSE
          BY <4>1
        <5> QED BY <1>8, <2>1, <5>1, Zenon
      <4>3. P[i + 1] = Stop
        BY <1>2, <4>1 DEF ReadShape
      <4> QED BY <4>2, <4>3, Zenon
    <3> QED BY <1>0, <1>12, <3>1, <3>2
  <2>4. AtReceived(r, i)
    BY <1>5, <1>6, <1>12, <2>1, <2>2, <2>3 DEF AtReceived, P
  <2> QED BY <2>4 DEF Placed
<1>13. CASE i = n + 4
  <2>1. i - 1 >= 3 + n /\ i >= 3 + n /\ i > 3 /\ ~(i < Len(P))
    BY <1>0, <1>3, <1>13
  <2>2. Came(r, i) = n /\ Came(r, i - 1) = n
    BY <1>0, <1>6, <2>1, CameIs DEF n
  <2>3. P[i] = Stop
    BY <1>2, <1>13 DEF ReadShape
  <2>4. AtStop(r, i)
    BY <1>5, <1>6, <2>1, <2>2, <2>3 DEF AtStop, Same, P
  <2> QED BY <2>4 DEF Placed
<1>14. i <= n + 4 /\ i >= 1 /\ i \in Nat
  BY <1>0, <1>3 DEF P
<1> QED BY <1>0, <1>9, <1>10, <1>11, <1>12, <1>13, <1>14

\* Every stage of a write and read has its place.
LEMMA WriteReadPlaced ==
    ASSUME NEW r, Proper(r), r.op = "write_read", NEW i \in 1 .. Len(PlanOf(r))
    PROVE  Placed(r, i)
<1> DEFINE n == Len(r.tx)  m == r.len  P == PlanOf(r)
<1>0. r \in Request /\ r.tx \in Seq(Byte) /\ r.addr \in Addr /\ n \in Nat /\ m \in Nat /\ m > 0
  BY DEF Proper, Request
<1>1. P = WriteReadPlan(r.addr, r.tx, m)
  BY DEF PlanOf
<1>2. WriteReadShape(P, r.addr, r.tx, m)
  BY <1>0, <1>1, WriteReadPlanIs
<1>3. /\ Len(P) = n + m + 6 /\ P[n + 4] = Start /\ P[n + 5] = Send(Addressed(r.addr, 1), "-ENODEV")
      /\ P[n + m + 6] = Stop
  BY <1>2 DEF WriteReadShape
<1>4. P[1] = Recover /\ P[2] = Start /\ P[3] = Send(Addressed(r.addr, 0), "-ENODEV")
  BY <1>2 DEF WriteReadShape, Opens
<1>5. \A k \in Nat : Probed(r, k) = 0
  BY DEF Probed
<1>6. /\ i \in Nat /\ i - 1 \in Nat
      /\ Sent(r, 0) = <<>> /\ Sent(r, 1) = <<>> /\ Sent(r, 2) = <<>> /\ Sent(r, 3) = <<>>
      /\ Came(r, 0) = 0 /\ Came(r, 1) = 0 /\ Came(r, 2) = 0 /\ Came(r, 3) = 0
  BY <1>0, SentIs, CameIs
<1>7. Addressed(r.addr, 0) \in Byte /\ Addressed(r.addr, 1) \in Byte
  BY <1>0, AddressedIs, Bits01
<1>8. ASSUME NEW k \in 3 .. n + 3 PROVE Continues(P[k + 1])
  <2>1. CASE k = n + 3
    <3>1. k + 1 = n + 4
      BY <1>0, <2>1
    <3> QED BY <1>3, <3>1 DEF Continues
  <2>2. CASE k < n + 3
    <3>1. (k + 1) - 3 \in 1 .. n /\ 3 + ((k + 1) - 3) = k + 1
      BY <1>0, <2>2
    <3>2. P[k + 1] = Send(r.tx[(k + 1) - 3], "-EIO")
      BY <1>2, <3>1 DEF WriteReadShape
    <3>3. r.tx[(k + 1) - 3] \in Byte
      BY <1>0, <3>1
    <3> QED BY <3>2, <3>3 DEF Continues
  <2> QED BY <1>0, <2>1, <2>2
<1>9. ASSUME NEW k \in n + 6 .. n + m + 5
      PROVE  P[k] = Receive(k < n + m + 5)
  <2>1. k - (n + 5) \in 1 .. m /\ n + 5 + (k - (n + 5)) = k /\ (k - (n + 5) < m) = (k < n + m + 5)
    <3> HIDE DEF n, m, P
    <3> QED BY <1>0
  <2>2. P[n + 5 + (k - (n + 5))] = Receive(k - (n + 5) < m)
    BY <1>2, <2>1, Zenon DEF WriteReadShape
  <2> QED BY <2>1, <2>2, Zenon
<1>10. \A k \in 0 .. n + 5 : Came(r, k) = 0
  BY <1>0, CameIs
<1>11. \A k \in Nat : k >= n + 3 => Sent(r, k) = r.tx
  BY <1>0, SentIs
<1> HIDE DEF P, n, m
<1>12. CASE i = 1
  <2>1. AtRecover(r, i)
    BY <1>4, <1>5, <1>6, <1>12 DEF AtRecover, P
  <2> QED BY <2>1 DEF Placed
<1>13. CASE i = 2
  <2>1. Same(r, i)
    BY <1>5, <1>6, <1>13 DEF Same
  <2>2. i < Len(P) /\ i + 1 = 3
    BY <1>0, <1>3, <1>13
  <2>3. AtStart(r, i)
    BY <1>4, <1>7, <1>13, <2>1, <2>2 DEF AtStart, P
  <2> QED BY <2>3 DEF Placed
<1>14. CASE i = 3
  <2>1. Same(r, i)
    BY <1>5, <1>6, <1>14 DEF Same
  <2>2. i < Len(P) /\ i \in 3 .. n + 3 /\ i # 5 + n
    BY <1>0, <1>3, <1>14
  <2>3. ByteAt(r, i) = Addressed(r.addr, 0)
    BY <1>14 DEF ByteAt
  <2>4. ByteAt(r, i)[Bits] # 1 /\ (ForOwn(ByteAt(r, i)) <=> r.addr = Own)
    BY <1>0, <2>3, AddressedIs, Bits01
  <2>5. Continues(P[i + 1])
    BY <1>8, <2>2
  <2>6. AtAddress(r, i)
    BY <1>4, <1>7, <1>14, <2>1, <2>2, <2>3, <2>4, <2>5 DEF AtAddress, P
  <2> QED BY <2>6 DEF Placed
<1>15. CASE i > 3 /\ i <= n + 3
  <2>1. /\ i < Len(P) /\ i \in 3 .. n + 3 /\ i \in 4 .. 3 + n /\ i - 3 \in 1 .. n /\ 3 + (i - 3) = i
        /\ i # 5 + n /\ i \in 0 .. n + 5 /\ i - 1 \in 0 .. n + 5
    BY <1>0, <1>3, <1>15
  <2>2. ByteAt(r, i) = r.tx[i - 3]
    BY <1>15, <2>1 DEF ByteAt, n
  <2>3. P[i] = Send(r.tx[i - 3], "-EIO")
    BY <1>2, <2>1 DEF WriteReadShape, n
  <2>4. r.tx[i - 3] \in Byte
    BY <1>0, <2>1 DEF n
  <2>5. Sent(r, i) = Append(Sent(r, i - 1), ByteAt(r, i))
    BY <1>0, <1>6, <2>1, <2>2, SentIs DEF n
  <2>6. Continues(P[i + 1])
    BY <1>8, <2>1
  <2>7. Came(r, i) = Came(r, i - 1)
    BY <1>10, <2>1
  <2>8. AtWritten(r, i)
    BY <1>5, <1>6, <1>15, <2>1, <2>2, <2>3, <2>4, <2>5, <2>6, <2>7 DEF AtWritten, P
  <2> QED BY <2>8 DEF Placed
<1>16. CASE i = n + 4
  <2>1. /\ i < Len(P) /\ i + 1 = n + 5 /\ i > 1 /\ i # 3 /\ i >= n + 3
        /\ i - 1 >= n + 3 /\ i \in 0 .. n + 5 /\ i - 1 \in 0 .. n + 5
    BY <1>0, <1>3, <1>16
  <2>2. Same(r, i)
    BY <1>5, <1>6, <1>10, <1>11, <2>1 DEF Same
  <2>3. P[i + 1] = Send(Addressed(r.addr, 1), "-ENODEV") /\ P[i] = Start
    BY <1>3, <1>16, <2>1
  <2>4. AtStart(r, i)
    BY <1>7, <2>1, <2>2, <2>3 DEF AtStart, P
  <2> QED BY <2>4 DEF Placed
<1>17. CASE i = n + 5
  <2>1. /\ i < Len(P) /\ i + 1 \in n + 6 .. n + m + 5 /\ i > 3 /\ i >= n + 3 /\ i - 1 >= n + 3
        /\ i \in 0 .. n + 5 /\ i - 1 \in 0 .. n + 5 /\ i = 5 + n
    BY <1>0, <1>3, <1>17
  <2>2. Same(r, i)
    BY <1>5, <1>6, <1>10, <1>11, <2>1 DEF Same
  <2>3. ByteAt(r, i) = Addressed(r.addr, 1)
    BY <2>1 DEF ByteAt, n
  <2>4. ByteAt(r, i)[Bits] = 1 /\ (ForOwn(ByteAt(r, i)) <=> r.addr = Own)
    BY <1>0, <2>3, AddressedIs, Bits01
  <2>5. \E ack \in BOOLEAN : P[i + 1] = Receive(ack)
    <3>1. P[i + 1] = Receive(i + 1 < n + m + 5)
      BY <1>9, <2>1, Zenon
    <3>2. (i + 1 < n + m + 5) \in BOOLEAN
      OBVIOUS
    <3> QED BY <3>1, <3>2, Zenon
  <2>6. AtAddress(r, i)
    <3>1. P[i] = Send(Addressed(r.addr, 1), "-ENODEV")
      BY <1>3, <1>17
    <3> QED BY <1>7, <2>1, <2>2, <2>3, <2>4, <2>5, <3>1 DEF AtAddress, P
  <2> QED BY <2>6 DEF Placed
<1>18. CASE i > n + 5 /\ i <= n + m + 5
  <2>1. /\ i < Len(P) /\ i \in n + 6 .. n + m + 5 /\ i > 3 /\ i >= n + 3 /\ i - 1 >= n + 3
        /\ i > 5 + n /\ i <= 5 + n + m
    BY <1>0, <1>3, <1>18
  <2>2. Came(r, i) = Came(r, i - 1) + 1
    BY <1>0, <1>6, <2>1, CameIs DEF n, m
  <2>3. \E ack \in BOOLEAN :
         /\ P[i] = Receive(ack)
         /\ IF ack THEN \E next \in BOOLEAN : P[i + 1] = Receive(next) ELSE P[i + 1] = Stop
    <3>1. CASE i < n + m + 5
      <4>1. i + 1 \in n + 6 .. n + m + 5
        BY <1>0, <3>1, <2>1
      <4>2. P[i + 1] = Receive(i + 1 < n + m + 5)
        BY <1>9, <4>1, Zenon
      <4>3. (i + 1 < n + m + 5) \in BOOLEAN /\ (i < n + m + 5) = TRUE
        BY <3>1
      <4>4. P[i] = Receive(TRUE)
        BY <1>9, <2>1, <4>3, Zenon
      <4> QED BY <4>2, <4>3, <4>4, Zenon
    <3>2. CASE i = n + m + 5
      <4>1. ~(i < n + m + 5) /\ i + 1 = n + m + 6
        BY <1>0, <3>2
      <4>2. P[i] = Receive(FALSE)
        <5>1. (i < n + m + 5) = FALSE
          BY <4>1
        <5> QED BY <1>9, <2>1, <5>1, Zenon
      <4>3. P[i + 1] = Stop
        BY <1>3, <4>1
      <4> QED BY <4>2, <4>3, Zenon
    <3> QED BY <1>0, <1>18, <3>1, <3>2
  <2>4. Sent(r, i) = Sent(r, i - 1)
    BY <1>6, <1>11, <2>1
  <2>5. AtReceived(r, i)
    BY <1>5, <1>6, <2>1, <2>2, <2>3, <2>4 DEF AtReceived, P
  <2> QED BY <2>5 DEF Placed
<1>19. CASE i = n + m + 6
  <2>1. i - 1 >= n + 3 /\ i >= n + 3 /\ i > 3 /\ ~(i < Len(P)) /\ i - 1 >= 5 + n + m /\ i >= 5 + n + m
    BY <1>0, <1>3, <1>19
  <2>2. Came(r, i) = m /\ Came(r, i - 1) = m
    BY <1>0, <1>6, <2>1, CameIs DEF n, m
  <2>3. Sent(r, i) = Sent(r, i - 1)
    BY <1>6, <1>11, <2>1
  <2>4. P[i] = Stop
    BY <1>3, <1>19
  <2>5. AtStop(r, i)
    BY <1>5, <1>6, <2>1, <2>2, <2>3, <2>4 DEF AtStop, Same, P
  <2> QED BY <2>5 DEF Placed
<1>20. i <= n + m + 6 /\ i >= 1 /\ i \in Nat
  BY <1>0, <1>3 DEF P
<1>21. \/ i = 1 \/ i = 2 \/ i = 3 \/ (i > 3 /\ i <= n + 3) \/ i = n + 4 \/ i = n + 5
       \/ (i > n + 5 /\ i <= n + m + 5) \/ i = n + m + 6
  BY <1>0, <1>20
<1> QED BY <1>12, <1>13, <1>14, <1>15, <1>16, <1>17, <1>18, <1>19, <1>21

\* Every stage of a scan has its place; so has that of any call.
LEMMA ScanPlaced ==
    ASSUME NEW r, Proper(r), r.op = "scan", NEW i \in 1 .. Len(PlanOf(r))
    PROVE  Placed(r, i)
<1> DEFINE n == Len(ScanList)  P == PlanOf(r)
<1>0. n \in Nat /\ \A j \in 1 .. n : ScanList[j] \in Addr
  BY BusAssumption
<1>1. P = ScanPlan
  BY DEF PlanOf
<1>2. ScanShape(P)
  BY <1>1, ScanPlanIs
<1>3. Len(P) = 3 * n + 1 /\ P[1] = Recover
  BY <1>2 DEF ScanShape
<1>4. \A j \in 1 .. n : P[3 * j - 1] = Start /\ P[3 * j] = Probe(ScanList[j]) /\ P[3 * j + 1] = Stop
  BY <1>2 DEF ScanShape
<1>5. \A k \in Nat : Sent(r, k) = <<>> /\ Came(r, k) = 0 /\ Probed(r, k) = k \div 3
  BY DEF Sent, Came, Probed
<1>6. i \in Nat /\ i - 1 \in Nat /\ i >= 1 /\ i <= 3 * n + 1
  BY <1>0, <1>3
<1> HIDE DEF P, n
<1>7. CASE i = 1
  <2>1. i < Len(P) => P[2] = Start
    <3>1. i < Len(P) => 1 \in 1 .. n
      BY <1>0, <1>3, <1>7
    <3>2. 3 * 1 - 1 = 2
      OBVIOUS
    <3> QED BY <1>4, <3>1, <3>2
  <2>2. Sent(r, 1) = <<>> /\ Came(r, 1) = 0 /\ Probed(r, 1) = 0
    BY <1>5
  <2>3. i + 1 = 2
    BY <1>7
  <2>4. AtRecover(r, i)
    BY <1>3, <1>7, <2>1, <2>2, <2>3 DEF AtRecover, P
  <2> QED BY <2>4 DEF Placed
<1>8. CASE i > 1
  <2>1. PICK j \in 1 .. n : i = 3 * j - 1 \/ i = 3 * j \/ i = 3 * j + 1
    <3>1. (i + 1) \div 3 \in 1 .. n /\ LET k == (i + 1) \div 3 IN i = 3 * k - 1 \/ i = 3 * k \/ i = 3 * k + 1
      BY <1>0, <1>6, <1>8
    <3> QED BY <3>1
  <2>2. j \in Nat /\ j >= 1 /\ j <= n
    BY <1>0, <2>1
  <2>3. CASE i = 3 * j - 1
    <3>1. /\ i < Len(P) /\ i + 1 = 3 * j /\ i \div 3 = j - 1 /\ (i - 1) \div 3 = j - 1
      BY <1>0, <1>3, <2>2, <2>3
    <3>2. Same(r, i)
      BY <1>5, <1>6, <3>1 DEF Same
    <3>3. P[i] = Start /\ P[i + 1] = Probe(ScanList[j]) /\ ScanList[j] \in Addr
      BY <1>0, <1>4, <2>3, <3>1 DEF n
    <3>4. AtStart(r, i)
      BY <1>8, <3>1, <3>2, <3>3 DEF AtStart, P
    <3> QED BY <3>4 DEF Placed
  <2>4. CASE i = 3 * j
    <3>1. /\ i < Len(P) /\ i + 1 = 3 * j + 1 /\ i \div 3 = j /\ (i - 1) \div 3 = j - 1 /\ i > 2
      BY <1>0, <1>3, <2>2, <2>4
    <3>2. Probed(r, i) = j /\ Probed(r, i - 1) = j - 1
      BY <1>5, <1>6, <3>1
    <3>3. P[i] = Probe(ScanList[j]) /\ P[i + 1] = Stop /\ ScanList[j] \in Addr
      BY <1>0, <1>4, <2>4, <3>1 DEF n
    <3>4. ByteAt(r, i) = Addressed(ScanList[j], 0)
      BY <3>1 DEF ByteAt
    <3>5. Sent(r, i) = Sent(r, i - 1) /\ Came(r, i) = Came(r, i - 1)
      BY <1>5, <1>6
    <3>6. AtProbe(r, i)
      BY <2>2, <3>1, <3>2, <3>3, <3>4, <3>5 DEF AtProbe, P, n
    <3> QED BY <3>6 DEF Placed
  <2>5. CASE i = 3 * j + 1
    <3>1. /\ i > 3 /\ i \div 3 = j /\ (i - 1) \div 3 = j
      BY <2>2, <2>5
    <3>2. Same(r, i)
      BY <1>5, <1>6, <3>1 DEF Same
    <3>3. P[i] = Stop
      BY <1>4, <2>5
    <3>4. i < Len(P) => P[i + 1] = Start
      <4>1. i < Len(P) => j + 1 \in 1 .. n /\ i + 1 = 3 * (j + 1) - 1
        BY <1>0, <1>3, <2>2, <2>5
      <4> QED BY <1>4, <4>1
    <3>5. AtStop(r, i)
      BY <3>1, <3>2, <3>3, <3>4 DEF AtStop, P
    <3> QED BY <3>5 DEF Placed
  <2> QED BY <2>1, <2>3, <2>4, <2>5
<1> QED BY <1>6, <1>7, <1>8

LEMMA PlanPlaced ==
    ASSUME NEW r, Proper(r), NEW i \in 1 .. Len(PlanOf(r))
    PROVE  Placed(r, i)
<1>1. r.op \in {"write", "read", "write_read", "scan"}
  BY DEF Proper, Request
<1> QED BY <1>1, WritePlaced, ReadPlaced, WriteReadPlaced, ScanPlaced

\* A plan starts with a recovery, and does what the call asks for.
LEMMA PlanIs ==
    ASSUME NEW r, Proper(r)
    PROVE  /\ PlanOf(r) \in Seq(Stages) /\ Len(PlanOf(r)) >= 1 /\ PlanOf(r)[1] = Recover
           /\ Fulfilled(r, Len(PlanOf(r)))
<1>0. /\ r \in Request /\ r.addr \in Addr /\ r.tx \in Seq(Byte) /\ r.len \in Nat /\ Len(r.tx) \in Nat
      /\ r.op \in {"write", "read", "write_read", "scan"} /\ Len(ScanList) \in Nat
  BY BusAssumption DEF Proper, Request
<1>1. CASE r.op = "write"
  <2>1. WriteShape(PlanOf(r), r.addr, r.tx)
    BY <1>0, <1>1, WritePlanIs DEF PlanOf
  <2>2. PlanOf(r) \in Seq(Stages) /\ Len(PlanOf(r)) = Len(r.tx) + 4 /\ PlanOf(r)[1] = Recover
    BY <2>1 DEF WriteShape, Opens
  <2>3. Came(r, Len(PlanOf(r))) = r.len
    BY <1>1 DEF Came, Proper
  <2>4. Sent(r, Len(PlanOf(r))) = r.tx
    BY <1>0, <1>1, <2>2, SentIs
  <2> QED BY <1>0, <1>1, <2>2, <2>3, <2>4 DEF Fulfilled
<1>2. CASE r.op = "read"
  <2>1. ReadShape(PlanOf(r), r.addr, r.len)
    BY <1>0, <1>2, ReadPlanIs DEF PlanOf
  <2>2. PlanOf(r) \in Seq(Stages) /\ Len(PlanOf(r)) = r.len + 4 /\ PlanOf(r)[1] = Recover
    BY <2>1 DEF ReadShape, Opens
  <2>3. Came(r, Len(PlanOf(r))) = r.len
    BY <1>0, <1>2, <2>2, CameIs
  <2>4. Sent(r, Len(PlanOf(r))) = r.tx
    BY <1>2 DEF Sent, Proper
  <2> QED BY <1>0, <1>2, <2>2, <2>3, <2>4 DEF Fulfilled
<1>3. CASE r.op = "write_read"
  <2>1. WriteReadShape(PlanOf(r), r.addr, r.tx, r.len)
    BY <1>0, <1>3, WriteReadPlanIs DEF PlanOf
  <2>2. PlanOf(r) \in Seq(Stages) /\ Len(PlanOf(r)) = Len(r.tx) + r.len + 6 /\ PlanOf(r)[1] = Recover
    BY <2>1 DEF WriteReadShape, Opens
  <2>3. Came(r, Len(PlanOf(r))) = r.len
    BY <1>0, <1>3, <2>2, CameIs
  <2>4. Sent(r, Len(PlanOf(r))) = r.tx
    BY <1>0, <1>3, <2>2, SentIs
  <2> QED BY <1>0, <1>3, <2>2, <2>3, <2>4 DEF Fulfilled
<1>4. CASE r.op = "scan"
  <2>1. ScanShape(PlanOf(r))
    BY <1>4, ScanPlanIs DEF PlanOf
  <2>2. PlanOf(r) \in Seq(Stages) /\ Len(PlanOf(r)) = 3 * Len(ScanList) + 1 /\ PlanOf(r)[1] = Recover
    BY <2>1 DEF ScanShape
  <2>3. Came(r, Len(PlanOf(r))) = r.len
    BY <1>4 DEF Came, Proper
  <2>4. Probed(r, Len(PlanOf(r))) = Len(ScanList)
    <3>1. (3 * Len(ScanList) + 1) \div 3 = Len(ScanList)
      BY <1>0
    <3> QED BY <1>4, <2>2, <3>1 DEF Probed
  <2> QED BY <1>0, <1>4, <2>2, <2>3, <2>4 DEF Fulfilled
<1> QED BY <1>0, <1>1, <1>2, <1>3, <1>4

Kinds == {"start", "stop", "recover", "send", "probe", "receive"}

\* The kind of a stage tells what it is.
LEMMA StageIs ==
    ASSUME NEW s \in Stages
    PROVE  /\ s.kind \in Kinds /\ s.ops \in Seq(LineOps)
           /\ s.kind = "start" => s = Start
           /\ s.kind = "stop" => s = Stop
           /\ s.kind = "recover" => s = Recover
           /\ s.kind = "send" => \E b \in Byte, e \in {"-ENODEV", "-EIO"} : s = Send(b, e)
           /\ s.kind = "probe" => \E a \in Addr : s = Probe(a)
           /\ s.kind = "receive" => \E ack \in BOOLEAN : s = Receive(ack)
<1>1. CASE s \in {Start, Stop, Recover}
  BY <1>1, StartOps, StopOps, RecoverOps DEF Kinds
<1>2. CASE \E b \in Byte, e \in {"-ENODEV", "-EIO"} : s = Send(b, e)
  BY <1>2, SendOps DEF Kinds, SendsByte
<1>3. CASE \E a \in Addr : s = Probe(a)
  BY <1>3, ProbeOps DEF Kinds, SendsByte
<1>4. CASE \E ack \in BOOLEAN : s = Receive(ack)
  BY <1>4, ReceiveOps DEF Kinds, ReceivesByte
<1> QED BY <1>1, <1>2, <1>3, <1>4 DEF Stages

LEMMA OtherStages ==
    /\ Idle.kind = "idle" /\ Between.kind = "between" /\ Done.kind = "done"
    /\ Idle.ops = <<>> /\ Between.ops = <<>> /\ Done.ops = <<>>
    /\ Stop \in Stages /\ Stop.kind = "stop"
BY DEF Idle, Between, Done, Stop, Stages

\* The stage that runs is one of the plan, or the stop after a failure.
LEMMA RunningStage ==
    ASSUME InPlan, Running
    PROVE  /\ stage \in Stages /\ stage.ops \in Seq(LineOps)
           /\ ret = "0" => Begun \in 1 .. Len(PlanOf(call)) /\ stage = PlanOf(call)[Begun]
           /\ ret # "0" => stage = Stop
           /\ Proper(call)
<1>1. Proper(call)
  BY DEF InPlan, Running
<1>2. CASE ret = "0"
  <2>1. /\ Begun \in 0 .. Len(PlanOf(call)) /\ Begun > 0 /\ stage = PlanOf(call)[Begun]
    BY <1>1, <1>2 DEF InPlan, Running
  <2>2. Begun \in 1 .. Len(PlanOf(call)) /\ PlanOf(call) \in Seq(Stages)
    BY <1>1, <2>1, PlanIs
  <2>3. stage \in Stages
    BY <2>1, <2>2
  <2> QED BY <1>1, <1>2, <2>1, <2>2, <2>3, StageIs
<1>3. CASE ret # "0"
  <2>1. stage \in {Stop, Between, Done}
    BY <1>3 DEF InPlan
  <2>2. stage = Stop
    BY <2>1, OtherStages DEF Running
  <2> QED BY <1>1, <1>3, <2>2, OtherStages, StageIs
<1> QED BY <1>2, <1>3

LEMMA PendingIs ==
    ASSUME InPlan, NEW o, Pending(o)
    PROVE  /\ Running /\ At \in Nat /\ At < Len(stage.ops) /\ stage.ops[At + 1] = o
           /\ Go /\ stage' = stage => At' = At + 1 /\ todo' = Rest(stage.ops, At' + 1)
           /\ At + 1 \in 0 .. Len(stage.ops)
<1>1. Running
  BY DEF Pending, InPlan
<1>2. stage.ops \in Seq(LineOps)
  BY <1>1, RunningStage
<1>3. At \in 0 .. Len(stage.ops) /\ todo = Rest(stage.ops, At + 1)
  BY <1>1 DEF InPlan
<1> DEFINE s == stage.ops  k == At
<1>4. s \in Seq(LineOps) /\ k \in 0 .. Len(s) /\ todo = Rest(s, k + 1)
  BY <1>2, <1>3
<1>5. At = k /\ stage.ops = s /\ (stage' = stage => At' = Len(s) - Len(todo'))
  BY DEF At
<1> HIDE DEF s, k
<1>6. k # Len(s)
  BY <1>4, RestIs DEF Pending
<1>7. k < Len(s) /\ Head(todo) = s[k + 1] /\ Tail(todo) = Rest(s, k + 1 + 1) /\ Len(todo) = Len(s) - k
  BY <1>4, <1>6, RestIs
<1>8. k + 1 \in 0 .. Len(s) /\ Len(Rest(s, k + 1 + 1)) = Len(s) - (k + 1)
  <2>1. k + 1 \in 0 .. Len(s)
    BY <1>4, <1>7
  <2> QED BY <1>4, <2>1, RestIs
<1>9. Len(s) - Len(Rest(s, k + 1 + 1)) = k + 1
  <2>1. Len(s) \in Nat /\ k \in Nat
    BY <1>4
  <2> QED BY <1>8, <2>1
<1>10. ASSUME Go, stage' = stage PROVE At' = At + 1 /\ todo' = Rest(stage.ops, At' + 1)
  <2>1. todo' = Rest(s, k + 1 + 1)
    BY <1>7, <1>10 DEF Go
  <2>2. At' = k + 1
    BY <1>5, <1>9, <1>10, <2>1
  <2> QED BY <1>5, <2>1, <2>2
<1>11. Head(todo) = o /\ k \in Nat
  BY <1>4 DEF Pending
<1> QED BY <1>1, <1>5, <1>7, <1>8, <1>10, <1>11

\* One operation on a line, of the stage that runs.
LineMoves ==
    /\ Running /\ At \in Nat /\ At < Len(stage.ops)
    /\ Moves(stage.ops[At + 1], At, scl, sda, dev, got, At', scl', sda', dev', got')
    /\ At' \in {At, At + 1} /\ At' \in 0 .. Len(stage.ops) /\ todo' = Rest(stage.ops, At' + 1)
    /\ UNCHANGED <<call, plan, stage, ret, rx, found, was, clean, late>>
    /\ scl' \in Bit /\ sda' \in Bit /\ Orderly(dev', scl')

\* Each operation of the model on a line is an operation of the stage that runs.
LEMMA SdaMoves ==
    ASSUME Typed, SdaLow \/ SdaRelease
    PROVE  LineMoves
<1>1. PICK o \in {"sda0", "sda1"} :
        /\ Pending(o) /\ Drive(scl, IF o = "sda1" THEN 1 ELSE 0) /\ Go
        /\ UNCHANGED <<same_call, got, history>>
  BY DEF SdaLow, SdaRelease
<1> DEFINE x == IF o = "sda1" THEN 1 ELSE 0
<1>2. scl \in Bit /\ sda \in Bit /\ Orderly(dev, scl) /\ InPlan /\ x \in Bit
  BY Bits01 DEF Typed
<1>3. UNCHANGED <<call, plan, stage, ret, rx, found, was, clean, late, got>>
  BY <1>1 DEF same_call, history
<1>4. /\ Running /\ At \in Nat /\ At < Len(stage.ops) /\ stage.ops[At + 1] = o
      /\ At' = At + 1 /\ todo' = Rest(stage.ops, At' + 1) /\ At + 1 \in 0 .. Len(stage.ops)
  BY <1>1, <1>2, <1>3, PendingIs
<1>5. /\ scl' = scl /\ sda' = x /\ Orderly(dev', scl') /\ Edge(dev, scl, sda, scl, x, dev')
  BY <1>1, <1>2, DriveIs
<1>6. MovesData(o, At, scl, sda, dev, got, At', scl', sda', dev', got')
  <2>1. scl = 0 \/ dev.scl = 0 => dev' = dev
    BY <1>5 DEF Edge
  <2>2. High(scl, dev) => dev' = IF dev.sda = 0 \/ sda = x THEN dev ELSE IF x = 0 THEN Started(dev) ELSE AtRest(dev)
    BY <1>5 DEF Edge, High
  <2>3. ~High(scl, dev) => scl = 0 \/ dev.scl = 0
    BY <1>2 DEF High, Bit, Orderly, Device
  <2> QED BY <1>3, <1>4, <1>5, <2>1, <2>2, <2>3 DEF MovesData
<1>7. Moves(stage.ops[At + 1], At, scl, sda, dev, got, At', scl', sda', dev', got')
  BY <1>4, <1>6 DEF Moves
<1> QED BY <1>2, <1>3, <1>4, <1>5, <1>7 DEF LineMoves

LEMMA SclLowMoves ==
    ASSUME Typed, SclLow
    PROVE  LineMoves
<1>1. Pending("scl0") /\ Drive(0, sda) /\ Go
  BY DEF SclLow
<1>2. scl \in Bit /\ sda \in Bit /\ Orderly(dev, scl) /\ InPlan /\ 0 \in Bit
  BY Bits01 DEF Typed
<1>3. UNCHANGED <<call, plan, stage, ret, rx, found, was, clean, late, got>>
  BY DEF same_call, history, SclLow
<1>4. /\ Running /\ At \in Nat /\ At < Len(stage.ops) /\ stage.ops[At + 1] = "scl0"
      /\ At' = At + 1 /\ todo' = Rest(stage.ops, At' + 1) /\ At + 1 \in 0 .. Len(stage.ops)
  BY <1>1, <1>2, <1>3, PendingIs
<1>5. /\ scl' = 0 /\ sda' = sda /\ Orderly(dev', scl') /\ Edge(dev, scl, sda, 0, sda, dev')
  BY <1>1, <1>2, DriveIs
<1>6. MovesDown(At, scl, sda, dev, got, At', scl', sda', dev', got')
  <2>1. CASE High(scl, dev)
    <3>1. dev' \in Fallen(dev) /\ dev.scl = 1
      BY <1>5, <2>1 DEF Edge, High
    <3>2. Falls(dev', dev)
      BY <1>2, <3>1, FallenIs
    <3> QED BY <1>3, <1>4, <1>5, <2>1, <3>2 DEF MovesDown
  <2>2. CASE ~High(scl, dev)
    <3>1. dev.scl = 0 \/ scl = 0
      BY <1>2, <2>2 DEF High, Bit, Orderly, Device
    <3>2. dev' = dev
      BY <1>5, <3>1 DEF Edge
    <3> QED BY <1>3, <1>4, <1>5, <2>2, <3>2 DEF MovesDown
  <2> QED BY <2>1, <2>2
<1>7. Moves(stage.ops[At + 1], At, scl, sda, dev, got, At', scl', sda', dev', got')
  BY <1>4, <1>6 DEF Moves
<1> QED BY <1>2, <1>3, <1>4, <1>5, <1>7 DEF LineMoves

LEMMA SclReleaseMoves ==
    ASSUME Typed, SclRelease
    PROVE  LineMoves
<1>1. Pending("scl1") /\ (scl = 0 \/ dev.scl = 1) /\ Drive(1, sda) /\ IF dev.scl = 1 THEN Go ELSE UNCHANGED todo
  BY DEF SclRelease
<1>2. scl \in Bit /\ sda \in Bit /\ Orderly(dev, scl) /\ InPlan /\ 1 \in Bit /\ dev \in Device /\ dev.scl \in Bit
  BY Bits01 DEF Typed, Orderly, Device
<1>3. UNCHANGED <<call, plan, stage, ret, rx, found, was, clean, late, got>>
  BY DEF same_call, history, SclRelease
<1>4. /\ Running /\ At \in Nat /\ At < Len(stage.ops) /\ stage.ops[At + 1] = "scl1"
      /\ Go => At' = At + 1 /\ todo' = Rest(stage.ops, At' + 1)
      /\ At + 1 \in 0 .. Len(stage.ops) /\ At \in 0 .. Len(stage.ops)
  BY <1>1, <1>2, <1>3, PendingIs
<1>5. /\ scl' = 1 /\ sda' = sda /\ Orderly(dev', scl') /\ Edge(dev, scl, sda, 1, sda, dev')
  BY <1>1, <1>2, DriveIs
<1>6. CASE dev.scl = 0
  <2>1. todo' = todo /\ At' = At /\ todo = Rest(stage.ops, At + 1)
    BY <1>1, <1>3, <1>4, <1>6 DEF At, InPlan, Typed
  <2>2. dev' = dev /\ scl = 0
    BY <1>1, <1>5, <1>6 DEF Edge
  <2>3. MovesUp(At, scl, sda, dev, got, At', scl', sda', dev', got')
    BY <1>3, <1>5, <1>6, <2>1, <2>2 DEF MovesUp
  <2>4. Moves(stage.ops[At + 1], At, scl, sda, dev, got, At', scl', sda', dev', got')
    BY <1>4, <2>3 DEF Moves
  <2> QED BY <1>2, <1>3, <1>4, <1>5, <2>1, <2>4 DEF LineMoves
<1>7. CASE dev.scl = 1
  <2>1. At' = At + 1 /\ todo' = Rest(stage.ops, At' + 1)
    BY <1>1, <1>4, <1>7
  <2>2. CASE scl = 1
    <3>1. dev' = dev
      BY <1>5, <1>7, <2>2 DEF Edge
    <3> QED BY <1>2, <1>3, <1>4, <1>5, <1>7, <2>1, <2>2, <3>1 DEF LineMoves, Moves, MovesUp
  <2>3. CASE scl = 0
    <3> DEFINE level == IF sda = 1 /\ dev.sda = 1 THEN 1 ELSE 0
    <3>1. dev' = Clocked(dev, level)
      BY <1>5, <1>7, <2>3 DEF Edge
    <3>2. level \in Bit /\ Level(sda, dev) = level
      BY Bits01 DEF Level
    <3>3. dev.mode \in {"addr", "recv"} => dev.n < Bits /\ Len(dev.byte) = dev.n
      BY <1>2, <2>3 DEF Orderly
    <3> HIDE DEF level
    <3>4. /\ dev' \in Device /\ dev'.mode = dev.mode /\ dev'.sda = dev.sda /\ dev'.scl = dev.scl
          /\ dev'.in = dev.in /\ dev'.out = dev.out
          /\ dev.mode \in {"addr", "recv"} => dev'.n = dev.n + 1 /\ dev'.byte = Append(dev.byte, level)
          /\ dev.mode \notin {"addr", "recv"} => dev'.n = dev.n /\ dev'.byte = dev.byte
          /\ dev'.acked = IF dev.mode = "getAck" THEN level = 0 ELSE dev.acked
      BY <1>2, <3>1, <3>2, <3>3, ClockedIs
    <3>5. Samples(dev, sda, dev')
      BY <3>2, <3>3, <3>4 DEF Samples
    <3>6. MovesUp(At, scl, sda, dev, got, At', scl', sda', dev', got')
      BY <1>3, <1>5, <1>7, <2>1, <2>3, <3>4, <3>5 DEF MovesUp
    <3>7. Moves(stage.ops[At + 1], At, scl, sda, dev, got, At', scl', sda', dev', got')
      BY <1>4, <3>6 DEF Moves
    <3> QED BY <1>2, <1>3, <1>4, <1>5, <2>1, <3>7 DEF LineMoves
  <2> QED BY <1>2, <2>2, <2>3 DEF Bit
<1> QED BY <1>2, <1>6, <1>7 DEF Bit

LEMMA ReadMoves ==
    ASSUME Typed, ReadSda
    PROVE  LineMoves
<1>1. Pending("read") /\ got' = Append(got, sda * dev.sda) /\ Go
  BY DEF ReadSda
<1>2. scl \in Bit /\ sda \in Bit /\ Orderly(dev, scl) /\ InPlan /\ dev.sda \in Bit
  BY DEF Typed, Orderly, Device
<1>3. UNCHANGED <<call, plan, stage, ret, rx, found, was, clean, late, scl, sda, dev>>
  BY DEF same_call, history, lines, ReadSda
<1>4. /\ Running /\ At \in Nat /\ At < Len(stage.ops) /\ stage.ops[At + 1] = "read"
      /\ At' = At + 1 /\ todo' = Rest(stage.ops, At' + 1) /\ At + 1 \in 0 .. Len(stage.ops)
  BY <1>1, <1>2, <1>3, PendingIs
<1>5. sda * dev.sda = Level(sda, dev)
  BY <1>2, WiredAnd DEF Level, Bit
<1>6. Moves(stage.ops[At + 1], At, scl, sda, dev, got, At', scl', sda', dev', got')
  BY <1>1, <1>3, <1>4, <1>5 DEF Moves, Reads
<1> QED BY <1>2, <1>3, <1>4, <1>6 DEF LineMoves

\* The model's target that lets go of the clock.
LEMMA LetsGoReleases ==
    ASSUME Typed, LetsGo
    PROVE  Releases(scl, sda, dev, dev') /\ Orderly(dev', scl)
<1>1. scl \in Bit /\ sda \in Bit /\ Orderly(dev, scl)
  BY DEF Typed
<1>2. /\ Orderly(dev', scl) /\ dev' \in Device /\ dev.scl = 0 /\ dev'.scl = 1
      /\ dev'.mode = dev.mode /\ dev'.sda = dev.sda /\ dev'.in = dev.in /\ dev'.out = dev.out
      /\ IF scl = 1 /\ dev.mode \in {"addr", "recv"}
         THEN /\ dev.n < Bits /\ dev'.n = dev.n + 1
              /\ dev'.byte = Append(dev.byte, IF sda = 1 /\ dev.sda = 1 THEN 1 ELSE 0)
         ELSE dev'.n = dev.n /\ dev'.byte = dev.byte
      /\ dev'.acked = IF scl = 1 /\ dev.mode = "getAck" THEN ~(sda = 1 /\ dev.sda = 1) ELSE dev.acked
  BY <1>1, LetsGoIs
<1>3. CASE scl = 1
  <2>1. (Level(sda, dev) = 0) = ~(sda = 1 /\ dev.sda = 1)
    BY DEF Level
  <2>2. dev'.acked = IF dev.mode = "getAck" THEN Level(sda, dev) = 0 ELSE dev.acked
    BY <1>2, <1>3, <2>1
  <2>3. Samples(dev, sda, dev')
    BY <1>2, <1>3, <2>2 DEF Samples, Level
  <2> QED BY <1>2, <1>3, <2>3 DEF Releases
<1>4. CASE scl # 1
  BY <1>2, <1>4 DEF Releases, Stays
<1> QED BY <1>2, <1>3, <1>4

LEMMA LevelIs == \A x, d : Level(x, d) \in Bit
BY Bits01 DEF Level

\* A stage reads when it is due to.
Counts(s, p) == Due(s, p + 1) = Due(s, p) + (IF s.ops[p + 1] = "read" THEN 1 ELSE 0)

\* A stage reads when it is due to: a byte sent, a byte received, any stage.
LEMMA SendCounts ==
    ASSUME NEW s, NEW b, SendsByte(s.ops, b), s.kind \in {"send", "probe"}, NEW p \in Nat, p < 3 * Bits + 4
    PROVE  Counts(s, p)
<1>1. CASE p < 3 * Bits
  <2>1. PICK k \in Nat : k >= 1 /\ (p + 1 = 3 * k - 2 \/ p + 1 = 3 * k - 1 \/ p + 1 = 3 * k)
    <3>1. p + 1 \in Nat \ {0}
      OBVIOUS
    <3> QED BY <3>1, ByThree
  <2>2. k \in 1 .. Bits
    BY <1>1, <2>1, BitsPositive
  <2>3. s.ops[p + 1] # "read"
    BY <2>1, <2>2 DEF SendsByte
  <2>4. ~(p > 3 * Bits + 2) /\ ~(p + 1 > 3 * Bits + 2)
    BY <1>1, BitsPositive
  <2> QED BY <2>3, <2>4 DEF Counts, Due
<1>2. CASE p >= 3 * Bits
  <2>1. p = 3 * Bits \/ p = 3 * Bits + 1 \/ p = 3 * Bits + 2 \/ p = 3 * Bits + 3
    BY <1>2, BitsPositive
  <2>2. /\ p = 3 * Bits + 2 <=> p + 1 > 3 * Bits + 2 /\ ~(p > 3 * Bits + 2)
        /\ p = 3 * Bits + 3 <=> p > 3 * Bits + 2
        /\ p = 3 * Bits + 3 => p + 1 > 3 * Bits + 2
    BY <2>1, BitsPositive
  <2>3. s.ops[p + 1] = "read" <=> p = 3 * Bits + 2
    <3>1. /\ p = 3 * Bits => p + 1 = 3 * Bits + 1
          /\ p = 3 * Bits + 1 => p + 1 = 3 * Bits + 2
          /\ p = 3 * Bits + 2 => p + 1 = 3 * Bits + 3
          /\ p = 3 * Bits + 3 => p + 1 = 3 * Bits + 4
          /\ p # 3 * Bits + 2 <=> p = 3 * Bits \/ p = 3 * Bits + 1 \/ p = 3 * Bits + 3
      BY <2>1, BitsPositive
    <3> QED BY <2>1, <3>1 DEF SendsByte
  <2>4. CASE p = 3 * Bits + 2
    BY <2>2, <2>3, <2>4 DEF Counts, Due
  <2>5. CASE p = 3 * Bits + 3
    <3>1. p # 3 * Bits + 2
      BY <2>5, BitsPositive
    <3> QED BY <2>2, <2>3, <2>5, <3>1 DEF Counts, Due
  <2>6. CASE p = 3 * Bits \/ p = 3 * Bits + 1
    <3>1. ~(p > 3 * Bits + 2) /\ ~(p + 1 > 3 * Bits + 2) /\ p # 3 * Bits + 2
      BY <2>6, BitsPositive
    <3> QED BY <2>3, <3>1 DEF Counts, Due
  <2> QED BY <2>1, <2>4, <2>5, <2>6
<1> QED BY <1>1, <1>2, BitsPositive

LEMMA ReceiveCounts ==
    ASSUME NEW s, NEW ack, ReceivesByte(s.ops, ack), s.kind = "receive", NEW p \in Nat, p < 3 * Bits + 5
    PROVE  Counts(s, p)
<1>1. CASE p = 0
  <2>1. s.ops[p + 1] = "sda1"
    BY <1>1 DEF ReceivesByte
  <2>2. p <= 3 * Bits /\ p + 1 <= 3 * Bits /\ p \div 3 = 0 /\ (p + 1) \div 3 = 0
    BY <1>1, BitsPositive
  <2> QED BY <2>1, <2>2 DEF Counts, Due
<1>2. CASE p > 0 /\ p <= 3 * Bits
  <2>1. PICK k \in Nat : k >= 1 /\ (p = 3 * k - 2 \/ p = 3 * k - 1 \/ p = 3 * k)
    BY <1>2, ByThree
  <2>2. k \in 1 .. Bits
    BY <1>2, <2>1, BitsPositive
  <2>3. CASE p = 3 * k - 2
    <3>1. p + 1 = 3 * k - 1 /\ p + 1 <= 3 * Bits /\ p \div 3 = k - 1 /\ (p + 1) \div 3 = k - 1
      BY <2>2, <2>3, BitsPositive
    <3>2. s.ops[p + 1] = "scl1"
      BY <2>2, <3>1 DEF ReceivesByte
    <3> QED BY <1>2, <3>1, <3>2, BitsPositive DEF Counts, Due
  <2>4. CASE p = 3 * k - 1
    <3>1. p + 1 = 3 * k /\ p + 1 <= 3 * Bits /\ p \div 3 = k - 1 /\ (p + 1) \div 3 = k
      BY <2>2, <2>4, BitsPositive
    <3>2. s.ops[p + 1] = "read"
      BY <2>2, <3>1 DEF ReceivesByte
    <3> QED BY <1>2, <2>2, <3>1, <3>2, BitsPositive DEF Counts, Due
  <2>5. CASE p = 3 * k
    <3>1. /\ p + 1 = 3 * k + 1 /\ p \div 3 = k
          /\ p + 1 <= 3 * Bits => (p + 1) \div 3 = k
          /\ ~(p + 1 <= 3 * Bits) => k = Bits
      BY <2>2, <2>5, BitsPositive
    <3>2. s.ops[p + 1] = "scl0"
      BY <2>2, <3>1 DEF ReceivesByte
    <3> QED BY <1>2, <2>2, <3>1, <3>2, BitsPositive DEF Counts, Due
  <2> QED BY <2>1, <2>3, <2>4, <2>5
<1>3. CASE p > 3 * Bits
  <2>1. p = 3 * Bits + 1 \/ p = 3 * Bits + 2 \/ p = 3 * Bits + 3 \/ p = 3 * Bits + 4
    BY <1>3, BitsPositive
  <2>2. /\ p = 3 * Bits + 1 => p + 1 = 3 * Bits + 2
        /\ p = 3 * Bits + 2 => p + 1 = 3 * Bits + 3
        /\ p = 3 * Bits + 3 => p + 1 = 3 * Bits + 4
        /\ p = 3 * Bits + 4 => p + 1 = 3 * Bits + 5
    BY BitsPositive
  <2>3. s.ops[p + 1] # "read"
    BY <2>1, <2>2 DEF ReceivesByte
  <2>4. ~(p <= 3 * Bits) /\ ~(p + 1 <= 3 * Bits)
    BY <1>3, BitsPositive
  <2> QED BY <2>3, <2>4, BitsPositive DEF Counts, Due
<1> QED BY <1>1, <1>2, <1>3, BitsPositive

LEMMA StageCounts ==
    ASSUME NEW s \in Stages, NEW p \in Nat, p < Len(s.ops)
    PROVE  Counts(s, p)
<1>1. CASE s.kind = "start"
  <2>0. s = Start /\ Len(s.ops) = 4
    BY <1>1, StageIs, StartOps
  <2>1. s = Start /\ p \in {0, 1, 2, 3}
    BY <2>0
  <2>2. s.ops[p + 1] # "read"
    BY <2>1, StartOps
  <2> QED BY <1>1, <2>2 DEF Counts, Due
<1>2. CASE s.kind = "stop"
  <2>0. s = Stop /\ Len(s.ops) = 3
    BY <1>2, StageIs, StopOps
  <2>1. s = Stop /\ p \in {0, 1, 2}
    BY <2>0
  <2>2. s.ops[p + 1] # "read"
    BY <2>1, StopOps
  <2> QED BY <1>2, <2>2 DEF Counts, Due
<1>3. CASE s.kind = "recover"
  <2>1. s = Recover /\ p \in 0 .. 2 * Bits + 5
    BY <1>3, StageIs, RecoverOps, BitsPositive
  <2>2. s.ops[p + 1] # "read"
    <3>0. p + 1 \in 0 .. 2 * Bits + 6
      BY <2>1, BitsPositive
    <3>1. CASE p + 1 \in {0, 1}
      <4>1. p + 1 = 1
        BY <2>1, <3>1
      <4> QED BY <2>1, <4>1, RecoverOps
    <3>2. CASE \E j \in 1 .. Bits + 1 : p + 1 = 2 * j \/ p + 1 = 2 * j + 1
      <4>1. PICK j \in 1 .. Bits + 1 : p + 1 = 2 * j \/ p + 1 = 2 * j + 1
        BY <3>2
      <4>2. CASE p + 1 = 2 * j
        BY <2>1, <4>2, RecoverOps
      <4>3. CASE p + 1 = 2 * j + 1
        BY <2>1, <4>3, RecoverOps
      <4> QED BY <4>1, <4>2, <4>3
    <3>3. CASE p + 1 \in {2 * Bits + 4, 2 * Bits + 5, 2 * Bits + 6}
      BY <2>1, <3>3, RecoverOps
    <3> QED BY <3>0, <3>1, <3>2, <3>3, FreeingPositions
  <2> QED BY <1>3, <2>2 DEF Counts, Due
<1>4. CASE s.kind = "send"
  <2>1. PICK b \in Byte, e \in {"-ENODEV", "-EIO"} : s = Send(b, e)
    BY <1>4, StageIs
  <2>2. SendsByte(s.ops, b)
    BY <2>1, SendOps
  <2> QED BY <1>4, <2>2, SendCounts DEF SendsByte
<1>5. CASE s.kind = "probe"
  <2>1. PICK a \in Addr : s = Probe(a)
    BY <1>5, StageIs
  <2>2. SendsByte(s.ops, Addressed(a, 0))
    BY <2>1, ProbeOps
  <2> QED BY <1>5, <2>2, SendCounts DEF SendsByte
<1>6. CASE s.kind = "receive"
  <2>1. PICK ack \in BOOLEAN : s = Receive(ack)
    BY <1>6, StageIs
  <2>2. ReceivesByte(s.ops, ack)
    BY <2>1, ReceiveOps
  <2> QED BY <1>6, <2>2, ReceiveCounts DEF ReceivesByte
<1> QED BY <1>1, <1>2, <1>3, <1>4, <1>5, <1>6, StageIs DEF Kinds

\* What a stage that is over has read.
LEMMA Over ==
    ASSUME InPlan, Running, todo = <<>>
    PROVE  At = Len(stage.ops)
<1> DEFINE s == stage.ops  k == At
<1>1. s \in Seq(LineOps) /\ k \in 0 .. Len(s) /\ todo = Rest(s, k + 1)
  BY RunningStage DEF InPlan
<1> HIDE DEF s, k
<1>2. k = Len(s)
  BY <1>1, RestIs
<1> QED BY <1>2 DEF s, k

\* A stage that is over has read its byte, or its acknowledgement.
LEMMA WholeRead ==
    /\ \A ack \in BOOLEAN : Due(Receive(ack), Len(Receive(ack).ops)) = Bits
    /\ \A s : s.kind \in {"send", "probe"} => Due(s, 3 * Bits + 4) = 1
<1>1. ASSUME NEW ack \in BOOLEAN PROVE Due(Receive(ack), Len(Receive(ack).ops)) = Bits
  <2>1. Receive(ack).kind = "receive" /\ Len(Receive(ack).ops) = 3 * Bits + 5
    BY ReceiveOps DEF ReceivesByte
  <2>2. ~(3 * Bits + 5 <= 3 * Bits)
    BY BitsPositive
  <2> QED BY <2>1, <2>2 DEF Due
<1>2. 3 * Bits + 4 > 3 * Bits + 2
  BY BitsPositive
<1> QED BY <1>1, <1>2 DEF Due

\* The types, and the place in the plan, through each action.
LEMMA LineTyped ==
    ASSUME Typed, LineMoves
    PROVE  Typed'
<1> USE DEF LineMoves
<1>1. InPlan /\ Sampled
  BY DEF Typed
<1>2. InPlan'
  BY <1>1 DEF InPlan, Running, Begun, At
<1>3. stage \in Stages /\ stage.ops \in Seq(LineOps)
  BY <1>1, RunningStage
<1>4. Counts(stage, At)
  BY <1>3, StageCounts
<1>5. Sampled'
  <2> DEFINE o == stage.ops[At + 1]
  <2>1. got \in Seq(Bit) /\ Len(got) = Due(stage, At)
    BY <1>1 DEF Sampled
  <2>2. CASE o = "read"
    <3>1. At' = At + 1 /\ got' = Append(got, Level(sda, dev))
      BY <2>2, MovesIs DEF Reads
    <3>2. got' \in Seq(Bit) /\ Len(got') = Len(got) + 1
      BY <2>1, <3>1, LevelIs
    <3>3. Len(got') = Due(stage', At')
      BY <1>4, <2>1, <2>2, <3>1, <3>2 DEF Counts
    <3> QED BY <3>2, <3>3 DEF Sampled
  <2>3. CASE o # "read"
    <3>0. o \in LineOps
      <4>1. At + 1 \in 1 .. Len(stage.ops)
        OBVIOUS
      <4> QED BY <1>3, <4>1
    <3>1. got' = got
      <4> HIDE DEF o
      <4>1. Moves(o, At, scl, sda, dev, got, At', scl', sda', dev', got')
        BY DEF o
      <4>2. o = "sda0" \/ o = "sda1" \/ o = "scl0" \/ o = "scl1"
        BY <2>3, <3>0 DEF LineOps
      <4> QED BY <4>1, <4>2, MovesIs DEF MovesData, MovesUp, MovesDown
    <3>2. Due(stage, At + 1) = Due(stage, At) + 0
      BY <1>4, <2>3 DEF Counts
    <3>3. Due(stage, At) \in Nat
      BY <2>1
    <3>4. Len(got') = Due(stage', At')
      BY <2>1, <3>1, <3>2, <3>3
    <3> QED BY <2>1, <3>1, <3>4 DEF Sampled
  <2> QED BY <2>2, <2>3
<1> QED BY <1>2, <1>5 DEF Typed

LEMMA StretchTyped ==
    ASSUME Typed, StretchTimeout
    PROVE  Typed' /\ late' = TRUE
<1>0. /\ Pending("scl1") /\ Go /\ late' = TRUE
      /\ UNCHANGED <<call, plan, stage, ret, rx, found, scl, sda, dev, got, was, clean>>
  BY DEF StretchTimeout, same_call, lines
<1>1. InPlan /\ Sampled
  BY DEF Typed
<1>2. /\ Running /\ At \in Nat /\ At < Len(stage.ops) /\ stage.ops[At + 1] = "scl1"
      /\ At' = At + 1 /\ todo' = Rest(stage.ops, At' + 1) /\ At + 1 \in 0 .. Len(stage.ops)
  BY <1>0, <1>1, PendingIs
<1>3. InPlan'
  BY <1>0, <1>1, <1>2 DEF InPlan, Running, Begun, At
<1>4. Counts(stage, At)
  BY <1>1, <1>2, RunningStage, StageCounts
<1>5. Sampled'
  BY <1>0, <1>1, <1>2, <1>4 DEF Sampled, Counts, Running
<1> QED BY <1>0, <1>3, <1>5 DEF Typed

LEMMA LetsGoTyped ==
    ASSUME Typed, LetsGo
    PROVE  Typed'
<1>1. UNCHANGED <<call, plan, stage, todo, ret, rx, found, scl, sda, got, was, clean, late>>
  BY DEF LetsGo, lines, history
<1>2. Orderly(dev', scl)
  BY LetsGoReleases
<1> QED BY <1>1, <1>2 DEF Typed, InPlan, Sampled, Running, Begun, At

LEMMA RestWhole ==
    ASSUME NEW S, NEW s \in Seq(S)
    PROVE  Rest(s, 1) = s
<1>1. SubSeq(s, 1, Len(s)) = s
  OBVIOUS
<1> QED BY <1>1 DEF Rest

LEMMA SamePlace ==
    ASSUME NEW d, NEW c, Orderly(d, c), NEW e \in Device,
           e.mode = d.mode, e.n = d.n, e.byte = d.byte, e.scl = d.scl, e.sda = d.sda, e.acked = d.acked
    PROVE  Orderly(e, c)
BY DEF Orderly

\* The target with its tallies cleared, by a call that begins or a recovery that ends.
LEMMA ClearedIs ==
    ASSUME NEW d, NEW c, Orderly(d, c)
    PROVE  /\ Orderly([d EXCEPT !.in = <<>>, !.out = <<>>], c)
           /\ Orderly([d EXCEPT !.holds = 0, !.in = <<>>, !.out = <<>>], c)
<1>1. d \in Device
  BY DEF Orderly
<1>2. <<>> \in Seq(Byte) /\ 0 \in Nat
  OBVIOUS
<1> DEFINE e == [d EXCEPT !.in = <<>>, !.out = <<>>]  f == [d EXCEPT !.holds = 0, !.in = <<>>, !.out = <<>>]
<1>3. /\ e \in Device /\ e.mode = d.mode /\ e.n = d.n /\ e.byte = d.byte /\ e.scl = d.scl /\ e.sda = d.sda
      /\ e.acked = d.acked
  BY <1>1, <1>2 DEF Device
<1>4. /\ f \in Device /\ f.mode = d.mode /\ f.n = d.n /\ f.byte = d.byte /\ f.scl = d.scl /\ f.sda = d.sda
      /\ f.acked = d.acked
  BY <1>1, <1>2 DEF Device
<1> HIDE DEF e, f
<1>5. Orderly(e, c) /\ Orderly(f, c)
  BY <1>3, <1>4, SamePlace
<1> QED BY <1>5 DEF e, f

\* Each kind of stage has its place in a plan.
PlacedByKind(r, i) ==
    LET s == PlanOf(r)[i]
    IN /\ s \in Stages
       /\ s.kind = "recover" => AtRecover(r, i)
       /\ s.kind = "start" => AtStart(r, i)
       /\ s.kind = "send" => AtAddress(r, i) \/ AtWritten(r, i)
       /\ s.kind = "probe" => AtProbe(r, i)
       /\ s.kind = "receive" => AtReceived(r, i)
       /\ s.kind = "stop" => AtStop(r, i)

\* Each kind of stage is found where the plan has it.
LEMMA KindPlaced ==
    ASSUME NEW r, Proper(r), NEW i \in 1 .. Len(PlanOf(r))
    PROVE  PlacedByKind(r, i)
<1> DEFINE s == PlanOf(r)[i]
<1>1. s \in Stages
  BY PlanIs
<1>2. Placed(r, i)
  BY PlanPlaced
<1>3. AtRecover(r, i) => s.kind = "recover"
  BY RecoverOps DEF AtRecover
<1>4. AtStart(r, i) => s.kind = "start"
  BY StartOps DEF AtStart
<1>5. AtAddress(r, i) \/ AtWritten(r, i) => s.kind = "send"
  BY SendOps DEF AtAddress, AtWritten
<1>6. AtProbe(r, i) => s.kind = "probe"
  BY ProbeOps DEF AtProbe
<1>7. AtReceived(r, i) => s.kind = "receive"
  <2>1. AtReceived(r, i) => \E ack \in BOOLEAN : s = Receive(ack)
    BY DEF AtReceived
  <2> QED BY <2>1, ReceiveOps
<1>8. AtStop(r, i) => s.kind = "stop"
  BY StopOps DEF AtStop
<1>9. \/ AtRecover(r, i) \/ AtStart(r, i) \/ AtAddress(r, i) \/ AtWritten(r, i) \/ AtProbe(r, i)
      \/ AtReceived(r, i) \/ AtStop(r, i)
  BY <1>2 DEF Placed
<1> HIDE DEF s
<1>10. /\ s.kind = "recover" => AtRecover(r, i)
       /\ s.kind = "start" => AtStart(r, i)
       /\ s.kind = "send" => AtAddress(r, i) \/ AtWritten(r, i)
       /\ s.kind = "probe" => AtProbe(r, i)
       /\ s.kind = "receive" => AtReceived(r, i)
       /\ s.kind = "stop" => AtStop(r, i)
  BY <1>3, <1>4, <1>5, <1>6, <1>7, <1>8, <1>9
<1> QED BY <1>1, <1>10 DEF s, PlacedByKind

\* The stage that runs in a call that has not failed is in its place in the plan.
LEMMA RunningPlaced ==
    ASSUME InPlan, Running, ret = "0"
    PROVE  /\ Proper(call) /\ stage = PlanOf(call)[Begun] /\ Begun \in 1 .. Len(PlanOf(call))
           /\ stage \in Stages /\ PlacedByKind(call, Begun)
BY RunningStage, KindPlaced

\* A stage that ends leaves the call in its plan, or with a stop to come.
LEMMA StageEndsTyped ==
    ASSUME Typed, StageEnds
    PROVE  Typed'
<1>1. InPlan /\ Sampled /\ Orderly(dev, scl)
  BY DEF Typed
<1>2. /\ Running /\ todo = <<>> /\ stage' = Between /\ got' = <<>>
      /\ UNCHANGED <<scl, sda, call, todo, was, late>>
      /\ stage.kind # "recover" => dev' = dev /\ clean' = clean
      /\ stage.kind = "recover" => dev' = [dev EXCEPT !.in = <<>>, !.out = <<>>] /\ clean' = (dev.mode = "rest")
      /\ rx' = IF stage.kind = "receive" THEN Append(rx, got) ELSE rx
      /\ found' = IF stage.kind = "probe" /\ got[1] = 0 THEN Append(found, stage.addr) ELSE found
      /\ IF stage.kind = "send" /\ got[1] = 1
         THEN plan' = <<Stop>> /\ ret' = stage.error ELSE plan' = plan /\ ret' = ret
  BY DEF StageEnds, Running, lines
<1>3. /\ stage \in Stages /\ At = Len(stage.ops) /\ got \in Seq(Bit) /\ Len(got) = Due(stage, At) /\ Proper(call)
  BY <1>1, <1>2, RunningStage, Over DEF Sampled
<1>4. Orderly(dev', scl')
  BY <1>1, <1>2, ClearedIs
<1>5. rx' \in Seq(Byte)
  <2>1. rx \in Seq(Byte)
    BY DEF Typed
  <2>2. CASE stage.kind = "receive"
    <3>1. PICK ack \in BOOLEAN : stage = Receive(ack)
      BY <1>3, <2>2, StageIs
    <3>2. Len(got) = Bits
      BY <1>3, <3>1, WholeRead
    <3>3. got \in Byte
      BY <1>3, <3>2, BytesAre
    <3> QED BY <1>2, <2>1, <2>2, <3>3
  <2> QED BY <1>2, <2>1, <2>2
<1>6. found' \in Seq(Addr)
  <2>1. found \in Seq(Addr)
    BY DEF Typed
  <2>2. CASE stage.kind = "probe"
    <3>1. PICK a \in Addr : stage = Probe(a)
      BY <1>3, <2>2, StageIs
    <3>2. stage.addr \in Addr
      BY <3>1, ProbeOps
    <3> QED BY <1>2, <2>1, <3>2
  <2> QED BY <1>2, <2>1, <2>2
<1>7. clean' \in BOOLEAN
  BY <1>2 DEF Typed
<1>8. ~Running' /\ stage'.kind = "between" /\ stage'.kind # "idle" /\ stage'.kind # "done"
  BY <1>2, OtherStages DEF Running
<1>9. InPlan'
  <2>1. CASE stage.kind = "send" /\ got[1] = 1
    <3>1. stage.kind # "stop"
      BY <2>1
    <3>2. ret = "0"
      BY <1>1, <1>2, <3>1, RunningStage, OtherStages
    <3>3. PICK b \in Byte, e \in {"-ENODEV", "-EIO"} : stage = Send(b, e)
      BY <1>3, <2>1, StageIs
    <3>4. stage.error \in {"-ENODEV", "-EIO"}
      BY <3>3, SendOps
    <3>5. call.op # "scan"
      BY <1>1, <1>2, <2>1, <3>2, RunningPlaced DEF PlacedByKind, AtAddress, AtWritten
    <3> QED BY <1>2, <1>3, <1>8, <2>1, <3>4, <3>5 DEF InPlan
  <2>2. CASE ~(stage.kind = "send" /\ got[1] = 1)
    <3>1. plan' = plan /\ ret' = ret
      BY <1>2, <2>2
    <3>2. CASE ret = "0"
      <4>1. /\ Begun \in 0 .. Len(PlanOf(call)) /\ plan = Rest(PlanOf(call), Begun + 1)
        BY <1>1, <1>2, <3>2 DEF InPlan, Running
      <4>2. Begun' = Begun
        BY <1>2, <3>1 DEF Begun
      <4> QED BY <1>2, <1>3, <1>8, <3>1, <3>2, <4>1, <4>2 DEF InPlan
    <3>3. CASE ret # "0"
      <4>1. ret \in {"-ENODEV", "-EIO"} /\ call.op # "scan" /\ plan = <<>>
        BY <1>1, <1>2, <3>3, OtherStages DEF InPlan, Running
      <4> QED BY <1>2, <1>3, <1>8, <3>1, <3>3, <4>1 DEF InPlan
    <3> QED BY <3>2, <3>3
  <2> QED BY <2>1, <2>2
<1>10. Sampled'
  BY <1>2, <1>8 DEF Sampled
<1> QED BY <1>2, <1>4, <1>5, <1>6, <1>7, <1>9, <1>10 DEF Typed

\* A stage begins: the next of the plan, or the stop.
LEMMA BeginsIs ==
    ASSUME Typed, StageBegins
    PROVE  /\ stage = Between /\ stage' \in Stages /\ Running' /\ At' = 0 /\ todo' = Rest(stage'.ops, At' + 1)
           /\ stage' = Head(plan)
           /\ UNCHANGED <<scl, sda, dev, call, got, ret, rx, found, was, clean, late>> /\ got = <<>>
           /\ ret = "0" => /\ Begun \in 0 .. Len(PlanOf(call)) /\ Begun' = Begun + 1
                           /\ Begun' \in 1 .. Len(PlanOf(call))
                           /\ stage' = PlanOf(call)[Begun'] /\ plan' = Rest(PlanOf(call), Begun' + 1)
           /\ ret # "0" => stage' = Stop /\ plan' = <<>>
           /\ Proper(call)
<1>1. InPlan
  BY DEF Typed
<1>2. /\ stage.kind = "between" /\ plan # <<>> /\ stage' = Head(plan) /\ todo' = Head(plan).ops /\ plan' = Tail(plan)
      /\ UNCHANGED <<scl, sda, dev, call, got, ret, rx, found, was, clean, late>>
  BY DEF StageBegins, lines, history
<1>3. stage = Between /\ Proper(call) /\ got = <<>>
  BY <1>1, <1>2 DEF InPlan, Running
<1>4. ASSUME ret = "0"
      PROVE  /\ Begun \in 0 .. Len(PlanOf(call)) /\ Begun' = Begun + 1 /\ Begun' \in 1 .. Len(PlanOf(call))
             /\ stage' = PlanOf(call)[Begun'] /\ plan' = Rest(PlanOf(call), Begun' + 1) /\ stage' \in Stages
  <2> DEFINE P == PlanOf(call)  k == Begun
  <2>1. P \in Seq(Stages)
    BY <1>3, PlanIs
  <2>2. k \in 0 .. Len(P) /\ plan = Rest(P, k + 1)
    BY <1>1, <1>2, <1>4 DEF InPlan
  <2>3. Begun' = Len(P) - Len(plan')
    BY <1>2 DEF Begun
  <2> HIDE DEF P, k
  <2>4. k # Len(P)
    BY <1>2, <2>1, <2>2, RestIs
  <2>5. k < Len(P) /\ k + 1 \in 0 .. Len(P) /\ k + 1 \in 1 .. Len(P)
    BY <2>1, <2>2, <2>4
  <2>6. Head(plan) = P[k + 1] /\ Tail(plan) = Rest(P, k + 1 + 1)
    BY <2>1, <2>2, <2>5, RestIs
  <2>7. Len(Rest(P, k + 1 + 1)) = Len(P) - (k + 1)
    BY <2>1, <2>5, RestIs
  <2>8. Begun' = k + 1
    <3>1. Len(P) \in Nat /\ k \in Nat
      BY <2>1, <2>2
    <3> QED BY <1>2, <2>3, <2>6, <2>7, <3>1
  <2>9. P[k + 1] \in Stages
    BY <2>1, <2>5
  <2>10. /\ k \in 0 .. Len(P) /\ Begun' = k + 1 /\ Begun' \in 1 .. Len(P)
         /\ stage' = P[Begun'] /\ plan' = Rest(P, Begun' + 1)
         /\ stage' \in Stages
    BY <1>2, <2>2, <2>5, <2>6, <2>8, <2>9
  <2> QED BY <2>10 DEF P, k
<1>5. ASSUME ret # "0" PROVE stage' = Stop /\ plan' = <<>> /\ stage' \in Stages
  <2>1. plan = <<Stop>>
    BY <1>1, <1>2, <1>5 DEF InPlan
  <2> QED BY <1>2, <2>1, OtherStages
<1>6. stage' \in Stages
  BY <1>4, <1>5
<1>7. stage'.kind \in Kinds /\ stage'.ops \in Seq(LineOps) /\ todo' = stage'.ops
  BY <1>2, <1>6, StageIs
<1>8. Running'
  BY <1>7 DEF Running, Kinds
<1>9. At' = 0 /\ todo' = Rest(stage'.ops, At' + 1)
  <2>1. At' = 0
    <3>1. Len(stage'.ops) \in Nat
      BY <1>7
    <3> QED BY <1>7, <3>1 DEF At
  <2> QED BY <1>7, <2>1, RestWhole
<1> QED BY <1>2, <1>3, <1>4, <1>5, <1>6, <1>8, <1>9

\* The stage that begins is at its first operation; a call that returns has none.
LEMMA StageBeginsTyped ==
    ASSUME Typed, StageBegins
    PROVE  Typed'
<1>1. InPlan /\ Sampled
  BY DEF Typed
<1>2. /\ stage = Between /\ stage' \in Stages /\ Running' /\ At' = 0 /\ todo' = Rest(stage'.ops, At' + 1)
      /\ UNCHANGED <<scl, sda, dev, call, got, ret, rx, found, was, clean, late>> /\ got = <<>>
      /\ ret = "0" => /\ Begun' \in 1 .. Len(PlanOf(call))
                      /\ stage' = PlanOf(call)[Begun'] /\ plan' = Rest(PlanOf(call), Begun' + 1)
      /\ ret # "0" => stage' = Stop /\ plan' = <<>>
      /\ Proper(call)
  BY BeginsIs
<1>3. stage'.kind \in Kinds /\ stage'.ops \in Seq(LineOps)
  BY <1>2, StageIs
<1>4. At' \in 0 .. Len(stage'.ops)
  BY <1>2, <1>3
<1>5. ret # "0" => ret \in {"-ENODEV", "-EIO"} /\ call.op # "scan"
  BY <1>1 DEF InPlan
<1>6. InPlan'
  <2>1. stage'.kind # "idle" /\ stage'.kind # "done" /\ stage'.kind # "between"
    BY <1>2 DEF Running
  <2>2. CASE ret = "0"
    <3>1. Begun' > 0 /\ Begun' \in 0 .. Len(PlanOf(call))
      BY <1>2, <2>2
    <3> QED BY <1>2, <1>4, <2>1, <2>2, <3>1 DEF InPlan
  <2>3. CASE ret # "0"
    BY <1>2, <1>4, <1>5, <2>1, <2>3 DEF InPlan
  <2> QED BY <2>2, <2>3
<1>7. Sampled'
  <2>1. Due(stage', At') = 0
    <3>1. 0 \div 3 = 0 /\ 0 <= 3 * Bits /\ ~(0 > 3 * Bits + 2)
      BY BitsPositive
    <3> QED BY <1>2, <3>1 DEF Due
  <2>2. got' = <<>> /\ <<>> \in Seq(Bit) /\ Len(<<>>) = 0
    BY <1>2
  <2> QED BY <2>1, <2>2 DEF Sampled
<1> QED BY <1>2, <1>6, <1>7 DEF Typed

LEMMA ReturnTyped ==
    ASSUME Typed, Return
    PROVE  Typed' /\ stage = Between /\ stage' = Done /\ Begun' = Begun
<1>1. InPlan /\ Sampled
  BY DEF Typed
<1>2. /\ stage.kind = "between" /\ plan = <<>> /\ stage' = Done
      /\ UNCHANGED <<scl, sda, dev, call, plan, todo, got, ret, rx, found, was, clean, late>>
  BY DEF Return, lines, history
<1>3. Begun' = Begun
  BY <1>2 DEF Begun
<1>4. stage = Between /\ ~Running /\ ~Running' /\ stage'.kind = "done"
  BY <1>1, <1>2, OtherStages DEF InPlan, Running
<1>5. InPlan'
  BY <1>1, <1>2, <1>3, <1>4 DEF InPlan
<1>6. Sampled'
  BY <1>1, <1>2, <1>4 DEF Sampled
<1> QED BY <1>2, <1>3, <1>4, <1>5, <1>6 DEF Typed

\* A call begins.
Begins ==
    /\ Proper(call') /\ plan' = PlanOf(call') /\ stage' = Between /\ todo' = <<>> /\ got' = <<>>
    /\ ret' = "0" /\ rx' = <<>> /\ found' = <<>> /\ was' = dev.mode /\ clean' = FALSE /\ late' = FALSE
    /\ dev' = [dev EXCEPT !.holds = 0, !.in = <<>>, !.out = <<>>] /\ UNCHANGED <<scl, sda>>

LEMMA BeginBegins ==
    ASSUME NEW c, NEW stages, Begin(c, stages), Proper(c), stages = PlanOf(c)
    PROVE  Begins
BY DEF Begin, Begins, lines

\* Each of the four calls begins with its plan.
LEMMA CallBegins ==
    ASSUME Write \/ Read \/ WriteRead \/ Scan
    PROVE  Begins
<1>0. <<>> \in Seq(Byte) /\ Payloads \subseteq Seq(Byte) /\ Lengths \subseteq Nat \ {0} /\ 0 \in Nat /\ Own \in Addr
  BY BusAssumption
<1>1. CASE Write
  <2>1. PICK a \in Addr, form \in {"bytes", "numbers"}, said \in Payloads :
          Begin([op |-> "write", addr |-> a, said |-> said, tx |-> Parsed(form, said), len |-> 0],
                WritePlan(a, Parsed(form, said)))
    BY <1>1 DEF Write
  <2> DEFINE tx == Parsed(form, said)
             c == [op |-> "write", addr |-> a, said |-> said, tx |-> tx, len |-> 0]
  <2>2. tx \in Seq(Byte) /\ said \in Seq(Byte)
    <3>1. said # <<>> => Head(said) \in Byte
      BY <1>0
    <3>2. said # <<>> => Spelled[Head(said)] \in Seq(Byte)
      BY <3>1, BusAssumption
    <3> QED BY <1>0, <3>2 DEF Parsed
  <2> HIDE DEF tx
  <2>3. Proper(c) /\ PlanOf(c) = WritePlan(a, tx)
    BY <1>0, <2>2 DEF Proper, Request, PlanOf
  <2>4. Begin(c, PlanOf(c))
    BY <2>1, <2>3 DEF tx
  <2> QED BY <2>3, <2>4, BeginBegins
<1>2. CASE Read
  <2>1. PICK a \in Addr, len \in Lengths :
          Begin([op |-> "read", addr |-> a, said |-> <<>>, tx |-> <<>>, len |-> len], ReadPlan(a, len))
    BY <1>2 DEF Read
  <2> DEFINE c == [op |-> "read", addr |-> a, said |-> <<>>, tx |-> <<>>, len |-> len]
  <2>2. len \in Nat /\ len > 0
    BY <1>0
  <2>3. Proper(c) /\ PlanOf(c) = ReadPlan(a, len)
    BY <1>0, <2>2 DEF Proper, Request, PlanOf
  <2>4. Begin(c, PlanOf(c))
    BY <2>1, <2>3
  <2> QED BY <2>3, <2>4, BeginBegins
<1>3. CASE WriteRead
  <2>1. PICK a \in Addr, tx \in Payloads, len \in Lengths :
          Begin([op |-> "write_read", addr |-> a, said |-> tx, tx |-> tx, len |-> len], WriteReadPlan(a, tx, len))
    BY <1>3 DEF WriteRead
  <2> DEFINE c == [op |-> "write_read", addr |-> a, said |-> tx, tx |-> tx, len |-> len]
  <2>2. len \in Nat /\ len > 0 /\ tx \in Seq(Byte)
    BY <1>0
  <2>3. Proper(c) /\ PlanOf(c) = WriteReadPlan(a, tx, len)
    BY <2>2 DEF Proper, Request, PlanOf
  <2>4. Begin(c, PlanOf(c))
    BY <2>1, <2>3
  <2> QED BY <2>3, <2>4, BeginBegins
<1>4. CASE Scan
  <2> DEFINE c == [op |-> "scan", addr |-> Own, said |-> <<>>, tx |-> <<>>, len |-> 0]
  <2>1. Proper(c) /\ PlanOf(c) = ScanPlan
    BY <1>0 DEF Proper, Request, PlanOf
  <2>2. Begin(c, PlanOf(c))
    BY <1>4, <2>1 DEF Scan
  <2> QED BY <2>1, <2>2, BeginBegins
<1> QED BY <1>1, <1>2, <1>3, <1>4

\* A call that begins, and a chip that restarts.
LEMMA BeginsTyped ==
    ASSUME Typed, Begins
    PROVE  Typed' /\ Begun' = 0 /\ ~Running' /\ stage'.kind = "between"
<1> USE DEF Begins
<1>1. InPlan /\ Sampled /\ Orderly(dev, scl)
  BY DEF Typed
<1>2. PlanOf(call') \in Seq(Stages)
  BY PlanIs
<1>3. Begun' = 0 /\ Rest(PlanOf(call'), 1) = PlanOf(call') /\ 0 \in 0 .. Len(PlanOf(call'))
  <2>1. Len(PlanOf(call')) \in Nat
    BY <1>2
  <2>2. Begun' = Len(PlanOf(call')) - Len(PlanOf(call'))
    BY DEF Begun
  <2> QED BY <1>2, <2>1, <2>2, RestWhole
<1>4. ~Running' /\ stage'.kind = "between"
  BY OtherStages DEF Running
<1>5. InPlan'
  <2>1. Begun' + 1 = 1
    BY <1>3
  <2> QED BY <1>3, <1>4, <2>1 DEF InPlan
<1>6. Sampled'
  BY <1>4 DEF Sampled
<1>7. Orderly(dev', scl')
  BY <1>1, ClearedIs
<1>8. was' \in {"rest", "addr", "ackAddr", "recv", "ackData", "send", "getAck"}
  BY <1>1 DEF Orderly, Device
<1>9. rx' \in Seq(Byte) /\ found' \in Seq(Addr)
  OBVIOUS
<1> QED BY <1>3, <1>4, <1>5, <1>6, <1>7, <1>8, <1>9 DEF Typed

LEMMA RestartTyped ==
    ASSUME Typed, Restart
    PROVE  Typed' /\ stage'.kind = "idle"
<1>1. InPlan /\ Orderly(dev, scl) /\ scl \in Bit /\ sda \in Bit /\ 1 \in Bit
  BY Bits01 DEF Typed
<1>2. Orderly(dev', 1)
  <2>1. ASSUME NEW d, NEW c0 \in Bit, NEW d0 \in Bit, NEW c1 \in Bit, NEW d1 \in Bit, Orderly(d, c0),
               NEW e \in React(d, c0, d0, c1, d1)
        PROVE  Orderly(e, c1)
    <3>1. d \in Device
      BY <2>1 DEF Orderly
    <3>2. Edge(d, c0, d0, c1, d1, e)
      BY <2>1, <3>1, ReactIs
    <3> QED BY <2>1, <3>2, EdgeOrderly
  <2>2. CASE \E d \in React(dev, scl, sda, 1, sda) : dev' \in React(d, 1, sda, 1, 1)
    BY <1>1, <2>1, <2>2
  <2>3. CASE \E d \in React(dev, scl, sda, scl, 1) : dev' \in React(d, scl, 1, 1, 1)
    BY <1>1, <2>1, <2>3
  <2> QED BY <2>2, <2>3 DEF Restart
<1>3. stage'.kind = "idle" /\ ~Running'
  BY OtherStages DEF Restart, Running
<1>4. InPlan'
  BY <1>3, OtherStages DEF InPlan, Restart
<1>5. Sampled'
  BY <1>3 DEF Sampled, Restart
<1>6. rx' \in Seq(Byte) /\ found' \in Seq(Addr) /\ scl' = 1 /\ sda' = 1 /\ UNCHANGED <<was, clean, late>>
  BY DEF Restart, history
<1> QED BY <1>1, <1>2, <1>3, <1>4, <1>5, <1>6 DEF Typed

\* A reader is on its way out, or has gone, through each action.
LEMMA FreedLine ==
    ASSUME Typed, Freed, LineMoves
    PROVE  Freed'
<1>1. /\ InPlan /\ Running /\ stage \in Stages /\ stage.kind \in Kinds
      /\ UNCHANGED <<call, plan, stage, ret, was, clean, late>>
      /\ At \in Nat /\ At < Len(stage.ops)
      /\ Moves(stage.ops[At + 1], At, scl, sda, dev, got, At', scl', sda', dev', got')
      /\ scl \in Bit /\ sda \in Bit /\ Orderly(dev, scl)
  BY RunningStage, StageIs DEF Typed, LineMoves
<1> SUFFICES ASSUME late = FALSE, was \in Sending
             PROVE  IF stage.kind = "recover" THEN Freeing(At', scl', sda', dev') ELSE clean
  BY <1>1 DEF Freed, Recovering, Kinds, Typed
<1>2. IF stage.kind = "recover" THEN Freeing(At, scl, sda, dev) ELSE clean
  BY <1>1 DEF Freed, Recovering, Kinds
<1>3. CASE stage.kind = "recover"
  <2>1. stage = Recover /\ At \in 0 .. 2 * Bits + 5
    BY <1>1, <1>3, StageIs, RecoverOps, BitsPositive
  <2>2. RecoverMoves(At, scl, sda, dev, got, At', scl', sda', dev', got')
    BY <1>1, <1>2, <1>3, <2>1 DEF RecoverMoves
  <2> QED BY <1>3, <2>1, <2>2, FreeingKeeps
<1>4. CASE stage.kind # "recover"
  BY <1>2, <1>4
<1> QED BY <1>3, <1>4

LEMMA FreedLetsGo ==
    ASSUME Typed, Freed, LetsGo
    PROVE  Freed'
<1>1. /\ UNCHANGED <<call, plan, stage, todo, ret, rx, found, scl, sda, got, was, clean, late>>
      /\ scl \in Bit /\ sda \in Bit /\ Orderly(dev, scl) /\ InPlan
  BY DEF LetsGo, lines, history, Typed
<1>2. Releases(scl, sda, dev, dev')
  BY LetsGoReleases
<1> DEFINE p == IF stage.kind = "recover" THEN At ELSE 0
<1>3. p \in 0 .. 2 * Bits + 6
  <2>1. CASE stage.kind = "recover"
    <3>1. Running
      BY <2>1 DEF Running
    <3>2. stage = Recover /\ At \in 0 .. Len(stage.ops)
      BY <1>1, <2>1, <3>1, RunningStage, StageIs DEF InPlan
    <3> QED BY <2>1, <3>2, RecoverOps
  <2>2. CASE stage.kind # "recover"
    BY <2>2, BitsPositive
  <2> QED BY <2>1, <2>2
<1>4. Freeing(p, scl, sda, dev) => Freeing(p, scl, sda, dev')
  BY <1>1, <1>2, <1>3, FreeingReleased
<1>5. (Recovering' <=> Recovering) /\ At' = At
  BY <1>1 DEF Recovering, Begun, At
<1> QED BY <1>1, <1>4, <1>5 DEF Freed

\* The recovery ends with the reader at rest.
LEMMA FreedStageEnds ==
    ASSUME Typed, Freed, StageEnds
    PROVE  Freed'
<1>1. InPlan /\ Orderly(dev, scl)
  BY DEF Typed
<1>2. /\ Running /\ todo = <<>> /\ stage' = Between
      /\ UNCHANGED <<scl, sda, call, todo, was, late>>
      /\ stage.kind # "recover" => clean' = clean
      /\ stage.kind = "recover" => clean' = (dev.mode = "rest")
      /\ IF stage.kind = "send" /\ got[1] = 1
         THEN plan' = <<Stop>> /\ ret' = stage.error ELSE plan' = plan /\ ret' = ret
  BY DEF StageEnds, Running, lines
<1>3. stage \in Stages /\ stage.kind \in Kinds /\ At = Len(stage.ops)
  BY <1>1, <1>2, RunningStage, Over, StageIs
<1>4. ~Recovering'
  <2>1. SUFFICES ASSUME ret' = "0" PROVE Begun' # 0
    BY <1>2, OtherStages DEF Recovering
  <2>2. ~(stage.kind = "send" /\ got[1] = 1)
    <3>1. ASSUME stage.kind = "send" PROVE stage.error # "0"
      <4>1. PICK b \in Byte, e \in {"-ENODEV", "-EIO"} : stage = Send(b, e)
        BY <1>3, <3>1, StageIs
      <4> QED BY <4>1, SendOps
    <3> QED BY <1>2, <2>1, <3>1
  <2>3. ret = "0" /\ Begun' = Begun
    BY <1>2, <2>1, <2>2 DEF Begun
  <2> QED BY <1>1, <1>2, <1>3, <2>3 DEF InPlan, Kinds
<1>5. ASSUME ~late, was \in Sending PROVE clean'
  <2>1. stage.kind # "idle" /\ stage.kind # "between"
    BY <1>3 DEF Kinds
  <2>2. CASE stage.kind = "recover"
    <3>1. stage = Recover /\ At = 2 * Bits + 6
      BY <1>3, <2>2, StageIs, RecoverOps
    <3>2. Freeing(At, scl, sda, dev)
      BY <1>5, <2>1, <2>2 DEF Freed, Recovering
    <3>3. dev.mode = "rest"
      BY <3>1, <3>2, FreeingTail
    <3> QED BY <1>2, <2>2, <3>3
  <2>3. CASE stage.kind # "recover"
    BY <1>2, <1>5, <2>1, <2>3 DEF Freed, Recovering
  <2> QED BY <2>2, <2>3
<1>6. UNCHANGED <<was, late>>
  BY <1>2
<1> QED BY <1>4, <1>5, <1>6 DEF Freed

LEMMA FreedStageBegins ==
    ASSUME Typed, Freed, StageBegins
    PROVE  Freed' /\ (Recovering' <=> Recovering)
<1>1. /\ stage = Between /\ stage' \in Stages /\ Running' /\ At' = 0
      /\ UNCHANGED <<scl, sda, dev, call, ret, was, clean, late>>
      /\ ret = "0" => /\ Begun \in 0 .. Len(PlanOf(call)) /\ Begun' = Begun + 1
                      /\ Begun' \in 1 .. Len(PlanOf(call)) /\ stage' = PlanOf(call)[Begun']
      /\ ret # "0" => stage' = Stop
      /\ Proper(call)
  BY BeginsIs
<1>2. Recovering' <=> stage'.kind = "recover"
  BY <1>1 DEF Recovering, Running
<1>3. Recovering <=> ret = "0" /\ Begun = 0
  BY <1>1, OtherStages DEF Recovering
<1>4. stage'.kind = "recover" <=> ret = "0" /\ Begun = 0
  <2>1. CASE ret # "0"
    BY <1>1, <2>1, OtherStages
  <2>2. CASE ret = "0" /\ Begun = 0
    BY <1>1, <2>2, PlanIs, RecoverOps
  <2>3. CASE ret = "0" /\ Begun # 0
    <3>1. Begun' # 1
      BY <1>1, <2>3
    <3>2. PlacedByKind(call, Begun')
      BY <1>1, <2>3, KindPlaced
    <3>3. stage' = PlanOf(call)[Begun'] /\ (PlanOf(call)[Begun'].kind = "recover" => Begun' = 1)
      BY <1>1, <2>3, <3>2 DEF PlacedByKind, AtRecover
    <3> QED BY <2>3, <3>1, <3>3
  <2> QED BY <2>1, <2>2, <2>3
<1>5. Recovering' <=> Recovering
  BY <1>2, <1>3, <1>4
<1>6. stage.kind = "between"
  BY <1>1, OtherStages
<1> QED BY <1>1, <1>2, <1>5, <1>6 DEF Freed

\* A call is over when its plan is.
LEMMA ReturnIs ==
    ASSUME Typed, Return
    PROVE  /\ stage = Between /\ stage' = Done /\ plan = <<>> /\ Proper(call)
           /\ UNCHANGED <<scl, sda, dev, call, plan, ret, rx, found, was, clean, late>> /\ Begun' = Begun
           /\ ret = "0" => Begun = Len(PlanOf(call)) /\ Begun >= 1
           /\ ~Recovering /\ ~Recovering'
<1>1. InPlan
  BY DEF Typed
<1>2. /\ stage.kind = "between" /\ plan = <<>> /\ stage' = Done
      /\ UNCHANGED <<scl, sda, dev, call, plan, todo, got, ret, rx, found, was, clean, late>>
  BY DEF Return, lines, history
<1>3. Begun' = Begun /\ stage = Between /\ stage'.kind = "done" /\ Proper(call)
  BY <1>1, <1>2, OtherStages DEF InPlan, Begun
<1>4. ASSUME ret = "0" PROVE Begun = Len(PlanOf(call)) /\ Begun >= 1
  <2>1. PlanOf(call) \in Seq(Stages) /\ Len(PlanOf(call)) >= 1
    BY <1>3, PlanIs
  <2>2. Begun = Len(PlanOf(call)) - 0
    BY <1>2 DEF Begun
  <2> QED BY <2>1, <2>2
<1>5. ~Recovering
  BY <1>2, <1>4 DEF Recovering
<1>6. ~Recovering'
  BY <1>3 DEF Recovering
<1> QED BY <1>2, <1>3, <1>4, <1>5, <1>6

LEMMA FreedReturn ==
    ASSUME Typed, Freed, Return
    PROVE  Freed'
<1>1. stage.kind # "idle"
  BY DEF Return
<1> QED BY <1>1, ReturnIs DEF Freed

\* A call that begins finds the reader with at most Bits falls to go, or Bits + 1.
LEMMA FreedBegins ==
    ASSUME Typed, Begins
    PROVE  Freed'
<1>1. Begun' = 0 /\ stage'.kind = "between" /\ Orderly(dev, scl) /\ dev \in Device /\ ret' = "0" /\ scl' = scl
  BY BeginsTyped DEF Typed, Orderly, Begins
<1>2. Recovering' /\ stage'.kind # "recover"
  BY <1>1 DEF Recovering
<1> SUFFICES ASSUME was' \in Sending PROVE Freeing(0, scl', sda', dev')
  BY <1>2 DEF Freed
<1>3. dev.mode \in Sending
  BY DEF Begins
<1>4. /\ dev' \in Device /\ dev'.mode = dev.mode /\ dev'.n = dev.n /\ dev'.scl = dev.scl /\ dev'.acked = dev.acked
  <2>1. <<>> \in Seq(Byte) /\ 0 \in Nat
    OBVIOUS
  <2> QED BY <1>1, <2>1 DEF Begins, Device
<1>5. Left(dev') \in 0 .. Bits + 1
  BY <1>4, LeftIs
<1>6. ~High(scl, dev') => Left(dev') <= Bits
  <2>1. CASE dev.mode = "send"
    <3>1. dev.n >= 1 /\ dev.n \in 0 .. Bits
      BY <1>1, <2>1 DEF Orderly, Device
    <3>2. Left(dev') = Bits + 1 - dev.n
      BY <1>4, <2>1, LeftIs
    <3> QED BY <3>1, <3>2, BitsPositive
  <2>2. CASE dev.mode = "getAck"
    <3>1. dev.acked => High(scl, dev')
      BY <1>1, <1>4, <2>2 DEF Orderly, High
    <3>2. ~dev.acked => Left(dev') = 0
      BY <1>4, <2>2, LeftIs
    <3> QED BY <3>1, <3>2, BitsPositive
  <2> QED BY <1>3, <2>1, <2>2 DEF Sending
<1> QED BY <1>1, <1>3, <1>4, <1>5, <1>6, FreeingHead DEF Sending, Modes

\* An operation of the i-th stage s of the call r.
StageMoves(s, r, i, bytes, p, c, x, d, g, q, c1, x1, e, h) ==
    /\ Proper(r) /\ i \in 1 .. Len(PlanOf(r)) /\ s = PlanOf(r)[i]
    /\ p \in Nat /\ p < Len(s.ops) /\ c \in Bit /\ x \in Bit /\ Orderly(d, c)
    /\ g \in Seq(Bit) /\ Len(g) = Due(s, p)
    /\ InStage(s, r, i, bytes, p, c, x, d, g)
    /\ Moves(s.ops[p + 1], p, c, x, d, g, q, c1, x1, e, h)

\* A start or a stop of a call keeps its place in the call.
LEMMA KeepsEnds ==
    ASSUME NEW s, NEW r, NEW i, NEW bytes, NEW p, NEW c, NEW x, NEW d, NEW g, NEW q, NEW c1, NEW x1, NEW e, NEW h,
           StageMoves(s, r, i, bytes, p, c, x, d, g, q, c1, x1, e, h), s.kind \in {"start", "stop"}
    PROVE  InStage(s, r, i, bytes, q, c1, x1, e, h)
<1> USE DEF StageMoves
<1>1. s \in Stages
  BY PlanIs
<1>2. CASE s.kind = "start"
  <2>1. s = Start /\ p \in 0 .. 3
    <3>1. s = Start /\ Len(s.ops) = 4
      BY <1>1, <1>2, StageIs, StartOps
    <3> QED BY <3>1
  <2>2. InStart(p, c, x, d) /\ d.in = Sent(r, i) /\ Spoken(d, bytes)
    BY <1>2 DEF InStage
  <2>4. Moves(Start.ops[p + 1], p, c, x, d, g, q, c1, x1, e, h) /\ c \in Bit /\ x \in Bit /\ Orderly(d, c)
    BY <2>1
  <2>3. InStart(q, c1, x1, e) /\ e.in = d.in /\ e.out = d.out /\ d.mode # "send" /\ e.mode # "send"
    BY ONLY <2>1, <2>2, <2>4, StartKeeps
  <2> QED BY <1>2, <2>2, <2>3 DEF InStage, Spoken
<1>3. CASE s.kind = "stop"
  <2>1. s = Stop /\ p \in 0 .. 2
    <3>1. s = Stop /\ Len(s.ops) = 3
      BY <1>1, <1>3, StageIs, StopOps
    <3> QED BY <3>1
  <2>2. InStop(p, c, x, d) /\ d.in = Sent(r, i) /\ Spoken(d, bytes)
    BY <1>3 DEF InStage
  <2>4. Moves(Stop.ops[p + 1], p, c, x, d, g, q, c1, x1, e, h) /\ c \in Bit /\ x \in Bit /\ Orderly(d, c)
    BY <2>1
  <2>3. InStop(q, c1, x1, e) /\ e.in = d.in /\ e.out = d.out /\ d.mode # "send" /\ e.mode # "send"
    BY ONLY <2>1, <2>2, <2>4, StopKeeps
  <2> QED BY <1>3, <2>2, <2>3 DEF InStage, Spoken
<1> QED BY <1>2, <1>3

\* The byte of a stage that sends one.
SendsHere(s, r, i) ==
    /\ s.kind \in {"send", "probe"} /\ SendsByte(s.ops, ByteAt(r, i)) /\ ByteAt(r, i) \in Byte
    /\ IsAddress(s) \in BOOLEAN
    /\ IF IsAddress(s) THEN Sent(r, i) = Sent(r, i - 1) ELSE Sent(r, i) = Append(Sent(r, i - 1), ByteAt(r, i))

\* A stage that sends has its byte: an address, or one of the call's.
LEMMA SendingStage ==
    ASSUME NEW s, NEW r, NEW i, Proper(r), i \in 1 .. Len(PlanOf(r)), s = PlanOf(r)[i], s.kind \in {"send", "probe"}
    PROVE  /\ SendsHere(s, r, i) /\ Len(s.ops) = 3 * Bits + 4
           /\ AtAddress(r, i) \/ AtProbe(r, i) => IsAddress(s)
           /\ AtWritten(r, i) => ~IsAddress(s)
<1>1. PlacedByKind(r, i)
  BY KindPlaced
<1>0. IsAddress(s) \in BOOLEAN
  BY DEF IsAddress
<1>2. CASE AtAddress(r, i)
  <2>1. s = Send(ByteAt(r, i), "-ENODEV") /\ ByteAt(r, i) \in Byte /\ Sent(r, i) = Sent(r, i - 1)
    BY <1>2 DEF AtAddress, Same
  <2>2. SendsByte(s.ops, ByteAt(r, i)) /\ s.error = "-ENODEV" /\ s.kind = "send"
    BY <2>1, SendOps
  <2>3. ~AtWritten(r, i)
    <3>1. AtWritten(r, i) => s.error = "-EIO"
      BY SendOps DEF AtWritten
    <3> QED BY <2>2, <3>1
  <2> QED BY <1>0, <2>1, <2>2, <2>3 DEF SendsHere, IsAddress, SendsByte
<1>3. CASE AtWritten(r, i)
  <2>1. s = Send(ByteAt(r, i), "-EIO") /\ ByteAt(r, i) \in Byte /\ Sent(r, i) = Append(Sent(r, i - 1), ByteAt(r, i))
    BY <1>3 DEF AtWritten
  <2>2. SendsByte(s.ops, ByteAt(r, i)) /\ s.error = "-EIO" /\ s.kind = "send"
    BY <2>1, SendOps
  <2>3. ~AtAddress(r, i) /\ ~AtProbe(r, i)
    <3>1. AtAddress(r, i) => s.error = "-ENODEV"
      BY SendOps DEF AtAddress
    <3>2. AtProbe(r, i) => s.kind = "probe"
      BY ProbeOps DEF AtProbe
    <3> QED BY <2>2, <3>1, <3>2
  <2>4. ~IsAddress(s)
    BY <2>2 DEF IsAddress
  <2> QED BY <1>0, <2>1, <2>2, <2>3, <2>4 DEF SendsHere, SendsByte
<1>4. CASE AtProbe(r, i)
  <2>1. PICK a \in Addr : s = Probe(a) /\ ByteAt(r, i) = Addressed(a, 0)
    BY <1>4 DEF AtProbe
  <2>2. SendsByte(s.ops, ByteAt(r, i)) /\ s.kind = "probe" /\ ByteAt(r, i) \in Byte
    BY <2>1, ProbeOps
  <2>3. Sent(r, i) = Sent(r, i - 1)
    BY <1>4 DEF AtProbe
  <2>4. ~AtWritten(r, i)
    <3>1. AtWritten(r, i) => s.kind = "send"
      BY SendOps DEF AtWritten
    <3> QED BY <2>2, <3>1
  <2> QED BY <1>0, <2>2, <2>3, <2>4 DEF SendsHere, IsAddress, SendsByte
<1> QED BY <1>1, <1>2, <1>3, <1>4 DEF PlacedByKind

\* A byte sent keeps its place in the call, and is taken once.
LEMMA KeepsSend ==
    ASSUME NEW s, NEW r, NEW i, NEW bytes, NEW p, NEW c, NEW x, NEW d, NEW g, NEW q, NEW c1, NEW x1, NEW e, NEW h,
           StageMoves(s, r, i, bytes, p, c, x, d, g, q, c1, x1, e, h), s.kind \in {"send", "probe"}
    PROVE  InStage(s, r, i, bytes, q, c1, x1, e, h)
<1> USE DEF StageMoves
<1> DEFINE b == ByteAt(r, i)  a == IsAddress(s)
<1>1. SendsHere(s, r, i) /\ Len(s.ops) = 3 * Bits + 4
  BY SendingStage
<1>2. p \in 0 .. 3 * Bits + 3
  BY <1>1, BitsPositive
<1>3. p < 3 * Bits + 3 => g = <<>>
  <2>1. p < 3 * Bits + 3 => ~(p > 3 * Bits + 2)
    BY <1>2, BitsPositive
  <2>2. p < 3 * Bits + 3 => Len(g) = 0
    BY <2>1 DEF Due
  <2> QED BY <2>2
<1>4. /\ InSend(b, a, p, c, x, d, g)
      /\ d.in = Sent(r, IF Taken(p, d, g) THEN i ELSE i - 1) /\ Spoken(d, bytes)
  BY DEF InStage
<1>5. SendMoves(b, a, s.ops, p, c, x, d, g, q, c1, x1, e, h)
  BY <1>1, <1>4 DEF SendMoves, SendsHere
<1>6. SendKept(b, a, p, d, g, q, c1, x1, e, h)
  BY <1>2, <1>3, <1>5, SendKeeps
<1>7. InSend(b, a, q, c1, x1, e, h) /\ Accounts(b, a, p, d, g, q, e, h)
  BY <1>6 DEF SendKept
<1>8. Spoken(e, bytes)
  BY <1>4, <1>7 DEF Spoken, Accounts
<1>9. e.in = Sent(r, IF Taken(q, e, h) THEN i ELSE i - 1)
  <2> HIDE DEF b, a
  <2>1. IF a THEN Sent(r, i) = Sent(r, i - 1) ELSE Sent(r, i) = Append(Sent(r, i - 1), b)
    BY <1>1 DEF SendsHere, a, b
  <2>2. CASE a
    BY <1>4, <1>7, <2>1, <2>2 DEF Accounts
  <2>3. CASE ~a
    <3>1. /\ Taken(p, d, g) => Taken(q, e, h)
          /\ e.in = IF Taken(q, e, h) /\ ~Taken(p, d, g) THEN Append(d.in, b) ELSE d.in
      BY <1>7, <2>3 DEF Accounts
    <3>2. Sent(r, i) = Append(Sent(r, i - 1), b)
      BY <2>1, <2>3
    <3> QED BY <1>4, <3>1, <3>2
  <2> QED BY <2>2, <2>3
<1> QED BY <1>7, <1>8, <1>9 DEF InStage

\* A stage that receives, and whether it acknowledges.
LEMMA ReceivingStage ==
    ASSUME NEW s, NEW ack \in BOOLEAN, s = Receive(ack)
    PROVE  (s = Receive(TRUE)) = ack /\ ReceivesByte(s.ops, ack) /\ s.kind = "receive"
<1>1. (s = Receive(TRUE)) = ack
  BY AcksDiffer, Zenon
<1> QED BY <1>1, ReceiveOps

\* A byte received keeps its place in the call.
LEMMA KeepsReceive ==
    ASSUME NEW s, NEW r, NEW i, NEW bytes, NEW p, NEW c, NEW x, NEW d, NEW g, NEW q, NEW c1, NEW x1, NEW e, NEW h,
           StageMoves(s, r, i, bytes, p, c, x, d, g, q, c1, x1, e, h), s.kind = "receive"
    PROVE  InStage(s, r, i, bytes, q, c1, x1, e, h)
<1> USE DEF StageMoves
<1>1. PICK ack \in BOOLEAN : s = Receive(ack)
  BY PlanIs, StageIs
<1> DEFINE k == s = Receive(TRUE)
<1>2. k = ack /\ ReceivesByte(s.ops, ack)
  BY <1>1, ReceivingStage
<1>3. InReceive(k, p, c, x, d, g) /\ d.in = Sent(r, i) /\ Spoken(d, IF p > 3 * Bits THEN Append(bytes, g) ELSE bytes)
  BY DEF InStage
<1>4. p \in 0 .. 3 * Bits + 4
  BY <1>2, BitsPositive DEF ReceivesByte
<1> HIDE DEF k
<1>5. InReceive(ack, p, c, x, d, g)
  BY <1>2, <1>3
<1>6. ReceiveMoves(ack, s.ops, bytes, p, c, x, d, g, q, c1, x1, e, h)
  BY <1>2, <1>3, <1>5 DEF ReceiveMoves, Heard
<1>7. ReceiveKept(ack, bytes, p, d, q, c1, x1, e, h)
  BY <1>4, <1>6, ReceiveKeeps
<1>8. InReceive(ack, q, c1, x1, e, h) /\ e.in = d.in /\ Spoken(e, IF q > 3 * Bits THEN Append(bytes, h) ELSE bytes)
  BY <1>7 DEF ReceiveKept, Heard
<1>9. InReceive(k, q, c1, x1, e, h)
  BY <1>2, <1>8
<1> QED BY <1>3, <1>8, <1>9 DEF InStage, k

\* An operation keeps the stage.
LEMMA StageKeeps ==
    ASSUME NEW s, NEW r, NEW i, NEW bytes, NEW p, NEW c, NEW x, NEW d, NEW g, NEW q, NEW c1, NEW x1, NEW e, NEW h,
           StageMoves(s, r, i, bytes, p, c, x, d, g, q, c1, x1, e, h)
    PROVE  InStage(s, r, i, bytes, q, c1, x1, e, h)
<1>1. s.kind \in {"start", "stop", "send", "probe", "receive"}
  BY DEF StageMoves, InStage
<1> QED BY <1>1, KeepsEnds, KeepsSend, KeepsReceive

\* So does the target when it lets go of the clock.
LEMMA StageReleased ==
    ASSUME NEW s, NEW r, NEW i, NEW bytes, NEW p, NEW c \in Bit, NEW x \in Bit, NEW d, NEW g, NEW e,
           Proper(r), i \in 1 .. Len(PlanOf(r)), s = PlanOf(r)[i], p \in 0 .. Len(s.ops),
           Orderly(d, c), Releases(c, x, d, e), InStage(s, r, i, bytes, p, c, x, d, g)
    PROVE  InStage(s, r, i, bytes, p, c, x, e, g)
<1>1. ReleasedAlike(p, c, x, d, e)
  BY ReleaseKeepsEnds
<1> USE DEF ReleasedAlike
<1>2. \A heard : Spoken(d, heard) => Spoken(e, heard)
  BY <1>1 DEF Spoken
<1>3. s.kind \in {"start", "stop", "send", "probe", "receive"}
  BY DEF InStage
<1>4. CASE s.kind = "start"
  BY <1>1, <1>2, <1>4 DEF InStage
<1>5. CASE s.kind = "stop"
  BY <1>1, <1>2, <1>5 DEF InStage
<1>6. CASE s.kind \in {"send", "probe"}
  <2> DEFINE b == ByteAt(r, i)  a == IsAddress(s)
  <2>1. SendsHere(s, r, i) /\ Len(s.ops) = 3 * Bits + 4
    BY <1>6, SendingStage
  <2>2. b \in Byte /\ a \in BOOLEAN /\ p \in 0 .. 3 * Bits + 4
    BY <2>1 DEF SendsHere
  <2>3. /\ InSend(b, a, p, c, x, d, g)
        /\ d.in = Sent(r, IF Taken(p, d, g) THEN i ELSE i - 1) /\ Spoken(d, bytes)
    BY <1>6 DEF InStage
  <2> HIDE DEF b, a
  <2>4. InSend(b, a, p, c, x, e, g) /\ Taken(p, e, g) = Taken(p, d, g)
    BY <2>2, <2>3, ReleaseKeepsSend
  <2>5. e.in = Sent(r, IF Taken(p, e, g) THEN i ELSE i - 1)
    BY <1>1, <2>3, <2>4
  <2> QED BY <1>2, <1>6, <2>3, <2>4, <2>5 DEF InStage, a, b
<1>7. CASE s.kind = "receive"
  <2>1. PICK ack \in BOOLEAN : s = Receive(ack)
    BY <1>7, PlanIs, StageIs
  <2> DEFINE k == s = Receive(TRUE)
  <2>2. k = ack /\ ReceivesByte(s.ops, ack)
    BY <2>1, ReceivingStage
  <2>3. /\ InReceive(k, p, c, x, d, g) /\ d.in = Sent(r, i)
        /\ Spoken(d, IF p > 3 * Bits THEN Append(bytes, g) ELSE bytes)
    BY <1>7 DEF InStage
  <2>4. p \in 0 .. 3 * Bits + 5
    BY <2>2 DEF ReceivesByte
  <2> HIDE DEF k
  <2>5. InReceive(ack, p, c, x, e, g)
    BY <2>2, <2>3, <2>4, ReleaseKeepsReceive
  <2>6. InReceive(k, p, c, x, e, g)
    BY <2>2, <2>5
  <2> QED BY <1>1, <1>2, <1>7, <2>3, <2>6 DEF InStage, k
<1> QED BY <1>3, <1>4, <1>5, <1>6, <1>7

-----------------------------------------------------------------------------
(* The end of a stage. *)

\* One more probe, one more answer if the address is the target's own.
LEMMA AnsweringGrows ==
    ASSUME NEW k \in Nat \ {0}
    PROVE  /\ IsFiniteSet(Answering(k - 1))
           /\ Cardinality(Answering(k)) = Cardinality(Answering(k - 1)) + (IF ScanList[k] = Own THEN 1 ELSE 0)
<1> DEFINE A == Answering(k - 1)
<1>1. IsFiniteSet(1 .. k - 1)
  <2>1. k - 1 \in Int /\ 1 \in Int
    OBVIOUS
  <2> QED BY <2>1, FS_Interval
<1>2. A \subseteq 1 .. k - 1
  BY DEF Answering
<1>3. IsFiniteSet(A)
  BY <1>1, <1>2, FS_Subset
<1>4. CASE ScanList[k] = Own
  <2>1. Answering(k) = A \cup {k} /\ k \notin A
    BY <1>4 DEF Answering
  <2>2. Cardinality(A \cup {k}) = Cardinality(A) + 1
    BY <1>3, <2>1, FS_AddElement
  <2> QED BY <1>3, <1>4, <2>1, <2>2
<1>5. CASE ScanList[k] # Own
  <2>1. Answering(k) = A
    BY <1>5 DEF Answering
  <2>2. Cardinality(A) \in Nat
    BY <1>3, FS_CardinalityType
  <2> QED BY <1>3, <1>5, <2>1, <2>2
<1> QED BY <1>4, <1>5

LEMMA AnsweringNone == Cardinality(Answering(0)) = 0
<1>1. Answering(0) = {}
  BY DEF Answering
<1> QED BY <1>1, FS_EmptySet

\* The next stage of a plan, or none.
LEMMA OnwardIs ==
    ASSUME NEW P \in Seq(Stages), NEW i \in 0 .. Len(P), NEW c, NEW x, NEW d
    PROVE  Onward(Rest(P, i + 1), c, x, d) <=> IF i < Len(P) THEN Ready(P[i + 1], c, x, d) ELSE Free(c, x, d)
<1>1. i < Len(P) => Rest(P, i + 1) # <<>> /\ Head(Rest(P, i + 1)) = P[i + 1]
  BY RestIs
<1>2. i = Len(P) => Rest(P, i + 1) = <<>>
  BY RestIs
<1>3. i < Len(P) \/ i = Len(P)
  OBVIOUS
<1> QED BY <1>1, <1>2, <1>3 DEF Onward

\* The first i stages of the call r are behind it.
Passed(r, i, bytes, there, c, x, d) ==
    Onward(Rest(PlanOf(r), i + 1), c, x, d) /\ d.in = Sent(r, i) /\ Spoken(d, bytes) /\ Kept(r, i, bytes, there)

\* The stage s, the i-th of the call r, is over.
Finished(s, r, i, bytes, there, c, x, d, g) ==
    /\ Proper(r) /\ i \in 1 .. Len(PlanOf(r)) /\ s = PlanOf(r)[i] /\ c \in Bit /\ x \in Bit /\ Orderly(d, c)
    /\ g \in Seq(Bit) /\ Len(g) = Due(s, Len(s.ops)) /\ bytes \in Seq(Byte)
    /\ InStage(s, r, i, bytes, Len(s.ops), c, x, d, g) /\ Kept(r, i - 1, bytes, there)

\* A stage that carries nothing leaves what is kept.
LEMMA SameKept ==
    ASSUME NEW r, NEW i \in Nat, NEW bytes, NEW there, Kept(r, i - 1, bytes, there), Same(r, i),
           r.op # "scan" /\ i >= 3 => i > 3 \/ r.addr = Own
    PROVE  Kept(r, i, bytes, there)
<1>1. r.op # "scan" /\ i >= 3 => r.addr = Own
  <2>1. i > 3 => i - 1 >= 3
    OBVIOUS
  <2> QED BY <2>1 DEF Kept
<1> QED BY <1>1 DEF Kept, Same

\* The stage that follows is ready, or there is none.
LEMMA Follows ==
    ASSUME NEW r, Proper(r), NEW i \in 1 .. Len(PlanOf(r)), NEW c, NEW x, NEW d,
           IF i < Len(PlanOf(r)) THEN Ready(PlanOf(r)[i + 1], c, x, d) ELSE Free(c, x, d)
    PROVE  Onward(Rest(PlanOf(r), i + 1), c, x, d)
<1>1. PlanOf(r) \in Seq(Stages) /\ i \in 0 .. Len(PlanOf(r))
  BY PlanIs
<1> QED BY <1>1, OnwardIs

\* Each kind of stage, when it is over, leaves the next one ready: a start, a stop.
LEMMA EndsStart ==
    ASSUME NEW s, NEW r, NEW i, NEW bytes, NEW there, NEW c, NEW x, NEW d, NEW g,
           Finished(s, r, i, bytes, there, c, x, d, g), s.kind = "start"
    PROVE  Passed(r, i, bytes, there, c, x, d)
<1> USE DEF Finished
<1>1. AtStart(r, i)
  BY KindPlaced DEF PlacedByKind
<1>2. s = Start /\ Len(s.ops) = 4 /\ i \in Nat
  BY <1>1, StartOps DEF AtStart
<1>3. InStart(4, c, x, d) /\ d.in = Sent(r, i) /\ Spoken(d, bytes)
  BY <1>2 DEF InStage
<1>4. c = 0 /\ Listens(d, TRUE)
  BY <1>3 DEF InStart
<1>5. i < Len(PlanOf(r)) /\ Ready(PlanOf(r)[i + 1], c, x, d)
  <2> DEFINE t == PlanOf(r)[i + 1]
  <2>1. i < Len(PlanOf(r)) /\ ((\E b \in Byte : t = Send(b, "-ENODEV")) \/ \E a \in Addr : t = Probe(a))
    BY <1>1 DEF AtStart
  <2> HIDE DEF t
  <2>2. (t.kind = "send" /\ t.error = "-ENODEV") \/ t.kind = "probe"
    BY <2>1, SendOps, ProbeOps
  <2>3. IsAddress(t) = TRUE /\ t.kind \in {"send", "probe"}
    BY <2>2 DEF IsAddress
  <2>4. Ready(t, c, x, d)
    BY <1>4, <2>3 DEF Ready
  <2> QED BY <2>1, <2>4 DEF t
<1>6. Kept(r, i, bytes, there)
  <2>1. Same(r, i) /\ (r.op # "scan" /\ i >= 3 => i > 3)
    BY <1>1, <1>2 DEF AtStart
  <2> QED BY <1>2, <2>1, SameKept
<1> QED BY <1>3, <1>5, <1>6, Follows DEF Passed

LEMMA EndsStop ==
    ASSUME NEW s, NEW r, NEW i, NEW bytes, NEW there, NEW c, NEW x, NEW d, NEW g,
           Finished(s, r, i, bytes, there, c, x, d, g), s.kind = "stop"
    PROVE  Passed(r, i, bytes, there, c, x, d)
<1> USE DEF Finished
<1>1. AtStop(r, i)
  BY KindPlaced DEF PlacedByKind
<1>2. s = Stop /\ Len(s.ops) = 3 /\ i \in Nat /\ i > 3
  BY <1>1, StopOps DEF AtStop
<1>3. InStop(3, c, x, d) /\ d.in = Sent(r, i) /\ Spoken(d, bytes)
  BY <1>2 DEF InStage
<1>4. Free(c, x, d)
  BY <1>3 DEF InStop
<1>5. i < Len(PlanOf(r)) => Ready(PlanOf(r)[i + 1], c, x, d)
  <2>1. i < Len(PlanOf(r)) => PlanOf(r)[i + 1] = Start
    BY <1>1 DEF AtStop
  <2>2. Ready(Start, c, x, d)
    BY <1>4, StartOps DEF Ready, Free, Quiet
  <2> QED BY <2>1, <2>2
<1>6. Kept(r, i, bytes, there)
  BY <1>1, <1>2, SameKept DEF AtStop
<1> QED BY <1>3, <1>4, <1>5, <1>6, Follows DEF Passed

\* A byte received is the one that the target has sent.
LEMMA EndsReceive ==
    ASSUME NEW s, NEW r, NEW i, NEW bytes, NEW there, NEW c, NEW x, NEW d, NEW g,
           Finished(s, r, i, bytes, there, c, x, d, g), s.kind = "receive"
    PROVE  Passed(r, i, Append(bytes, g), there, c, x, d)
<1> USE DEF Finished
<1>1. AtReceived(r, i)
  BY KindPlaced DEF PlacedByKind
<1>2. PICK ack \in BOOLEAN :
        /\ s = Receive(ack)
        /\ IF ack THEN \E next \in BOOLEAN : PlanOf(r)[i + 1] = Receive(next) ELSE PlanOf(r)[i + 1] = Stop
  BY <1>1 DEF AtReceived
<1> DEFINE k == s = Receive(TRUE)
<1>3. k = ack /\ Len(s.ops) = 3 * Bits + 5
  BY <1>2, ReceivingStage DEF ReceivesByte
<1>4. InReceive(k, 3 * Bits + 5, c, x, d, g) /\ d.in = Sent(r, i) /\ Spoken(d, Append(bytes, g))
  <2>1. 3 * Bits + 5 > 3 * Bits
    BY BitsPositive
  <2> QED BY <1>3, <2>1 DEF InStage
<1> HIDE DEF k
<1>5. InReceive(ack, 3 * Bits + 5, c, x, d, g)
  BY <1>3, <1>4
<1>6. c = 0 /\ IF ack THEN Speaks(d) ELSE d.mode = "rest"
  <2>1. 3 * Bits + 5 >= 3 * Bits + 4
    BY BitsPositive
  <2> QED BY <1>5, <2>1 DEF InReceive
<1>7. i < Len(PlanOf(r)) /\ Ready(PlanOf(r)[i + 1], c, x, d)
  <2>1. CASE ack
    <3>1. PICK next \in BOOLEAN : PlanOf(r)[i + 1] = Receive(next)
      BY <1>2, <2>1
    <3>2. PlanOf(r)[i + 1].kind = "receive"
      BY <3>1, ReceiveOps
    <3> QED BY <1>1, <1>6, <2>1, <3>2 DEF Ready, AtReceived
  <2>2. CASE ~ack
    <3>1. PlanOf(r)[i + 1] = Stop
      BY <1>2, <2>2
    <3>2. Ready(Stop, c, x, d)
      BY <1>6, <2>2, StopOps DEF Ready, Quiet
    <3> QED BY <1>1, <3>1, <3>2 DEF AtReceived
  <2> QED BY <2>1, <2>2
<1>8. Kept(r, i, Append(bytes, g), there)
  <2>1. i > 3 /\ Came(r, i) = Came(r, i - 1) + 1 /\ Probed(r, i) = Probed(r, i - 1) /\ i - 1 >= 3
    BY <1>1 DEF AtReceived
  <2>2. Len(Append(bytes, g)) = Len(bytes) + 1
    OBVIOUS
  <2> QED BY <2>1, <2>2 DEF Kept
<1> QED BY <1>4, <1>7, <1>8, Follows DEF Passed

\* The stage's byte has been sent, and answered.
ByteSent(s, r, i, bytes, c, x, d, g) ==
    /\ c = 0 /\ x = 1 /\ g[1] \in Bit /\ Answered(ByteAt(r, i), IsAddress(s), d, g[1] = 1)
    /\ (IsAddress(s) \/ g[1] = 0 => d.in = Sent(r, i)) /\ Spoken(d, bytes)

\* A byte that has been sent has an answer, which tells whether it was taken.
LEMMA EndsByte ==
    ASSUME NEW s, NEW r, NEW i, NEW bytes, NEW there, NEW c, NEW x, NEW d, NEW g,
           Finished(s, r, i, bytes, there, c, x, d, g), s.kind \in {"send", "probe"}
    PROVE  ByteSent(s, r, i, bytes, c, x, d, g)
<1> USE DEF Finished
<1> DEFINE b == ByteAt(r, i)  a == IsAddress(s)  p == 3 * Bits + 4
<1>1. SendsHere(s, r, i) /\ Len(s.ops) = p
  BY SendingStage
<1>2. /\ InSend(b, a, p, c, x, d, g)
      /\ d.in = Sent(r, IF Taken(p, d, g) THEN i ELSE i - 1) /\ Spoken(d, bytes)
  BY <1>1 DEF InStage
<1>3. Len(g) = 1
  BY <1>1, WholeRead
<1>4. g[1] \in Bit
  <2>1. g \in Seq(Bit) /\ 1 \in 1 .. Len(g)
    BY <1>3
  <2> QED BY ONLY <2>1
<1>5. c = 0 /\ x = 1 /\ Answered(b, a, d, g[1] = 1)
  <2>1. p \in 3 * Bits .. 3 * Bits + 4 /\ p > 3 * Bits
    BY BitsPositive
  <2> QED BY <1>2, <2>1, SendTail
<1>6. a \/ g[1] = 0 => d.in = Sent(r, i)
  <2>1. Taken(p, d, g) <=> g[1] = 0
    BY DEF Taken
  <2>2. a => Sent(r, i) = Sent(r, i - 1)
    BY <1>1 DEF SendsHere
  <2> QED BY <1>2, <2>1, <2>2
<1> QED BY <1>2, <1>4, <1>5, <1>6 DEF ByteSent

\* A probe has found the target, or nobody.
LEMMA EndsProbe ==
    ASSUME NEW s, NEW r, NEW i, NEW bytes, NEW there, NEW c, NEW x, NEW d, NEW g,
           Finished(s, r, i, bytes, there, c, x, d, g), s.kind = "probe"
    PROVE  Passed(r, i, bytes, IF g[1] = 0 THEN Append(there, s.addr) ELSE there, c, x, d)
<1> USE DEF Finished
<1>1. AtProbe(r, i) /\ IsAddress(s)
  BY KindPlaced DEF PlacedByKind, IsAddress
<1>2. PICK a \in Addr :
         /\ s = Probe(a) /\ ByteAt(r, i) = Addressed(a, 0)
         /\ Probed(r, i) \in Nat \ {0} /\ a = ScanList[Probed(r, i)] /\ Probed(r, i - 1) = Probed(r, i) - 1
  BY <1>1 DEF AtProbe
<1>3. s.addr = a /\ ByteAt(r, i)[Bits] = 0 /\ (ForOwn(ByteAt(r, i)) <=> a = Own)
  BY <1>2, ProbeOps, AddressedIs, Bits01
<1>4. /\ c = 0 /\ g[1] \in Bit /\ Answered(ByteAt(r, i), TRUE, d, g[1] = 1) /\ d.in = Sent(r, i) /\ Spoken(d, bytes)
  <2>1. IsAddress(s) = TRUE
    BY <1>1 DEF IsAddress
  <2>2. ByteSent(s, r, i, bytes, c, x, d, g)
    BY EndsByte
  <2> QED BY <2>1, <2>2 DEF ByteSent
<1>5. /\ g[1] = 1 <=> a # Own
      /\ d.mode \in Quiet
  <2>1. CASE g[1] = 1
    BY <1>3, <1>4, <2>1 DEF Answered, Quiet
  <2>2. CASE g[1] # 1
    BY <1>3, <1>4, <2>2 DEF Answered, Listens, Quiet
  <2> QED BY <2>1, <2>2
<1>6. i < Len(PlanOf(r)) /\ Ready(PlanOf(r)[i + 1], c, x, d)
  <2>1. Ready(Stop, c, x, d)
    BY <1>4, <1>5, StopOps DEF Ready
  <2> QED BY <1>1, <2>1 DEF AtProbe
<1> DEFINE now == IF g[1] = 0 THEN Append(there, s.addr) ELSE there
<1>7. Kept(r, i, bytes, now)
  <2>1. Cardinality(Answering(Probed(r, i))) = Cardinality(Answering(Probed(r, i - 1))) + (IF a = Own THEN 1 ELSE 0)
    BY <1>2, AnsweringGrows
  <2>2. there \in Seq({Own}) /\ Len(there) = Cardinality(Answering(Probed(r, i - 1))) /\ Len(bytes) = Came(r, i - 1)
    BY DEF Kept
  <2>3. r.op = "scan" /\ Came(r, i) = Came(r, i - 1)
    BY <1>1 DEF AtProbe
  <2>4. CASE g[1] = 0
    <3>1. s.addr = Own /\ a = Own
      BY <1>3, <1>5, <2>4
    <3>2. now = Append(there, Own)
      BY <2>4, <3>1
    <3>3. now \in Seq({Own}) /\ Len(now) = Len(there) + 1
      BY <2>2, <3>2
    <3> HIDE DEF now
    <3> QED BY <2>1, <2>2, <2>3, <3>1, <3>3 DEF Kept
  <2>5. CASE g[1] # 0
    <3>1. now = there /\ a # Own
      BY <1>4, <1>5, <2>5 DEF Bit
    <3>2. Len(there) \in Nat
      BY <2>2
    <3> HIDE DEF now
    <3> QED BY <2>1, <2>2, <2>3, <3>1, <3>2 DEF Kept
  <2> QED BY <2>4, <2>5
<1> HIDE DEF now
<1>8. Passed(r, i, bytes, now, c, x, d)
  BY <1>4, <1>6, <1>7, Follows DEF Passed
<1> QED BY <1>8 DEF now

LEMMA ContinuesReady ==
    ASSUME NEW t, Continues(t), NEW c, c = 0, NEW x, x = 1, NEW d, Listens(d, FALSE)
    PROVE  Ready(t, c, x, d)
<1>1. d.mode \in Quiet
  BY DEF Listens, Quiet
<1>2. CASE t = Start
  BY <1>1, <1>2, StartOps DEF Ready
<1>3. CASE t = Stop
  BY <1>1, <1>3, StopOps DEF Ready
<1>4. CASE \E b \in Byte : t = Send(b, "-EIO")
  <2>1. t.kind = "send" /\ t.error = "-EIO"
    BY <1>4, SendOps
  <2>2. IsAddress(t) = FALSE
    BY <2>1 DEF IsAddress
  <2> QED BY <2>1, <2>2 DEF Ready
<1> QED BY <1>2, <1>3, <1>4 DEF Continues

\* An address without an acknowledgement is not the target's.
LEMMA EndsAddress ==
    ASSUME NEW s, NEW r, NEW i, NEW bytes, NEW there, NEW c, NEW x, NEW d, NEW g,
           Finished(s, r, i, bytes, there, c, x, d, g), s.kind = "send", AtAddress(r, i)
    PROVE  IF g[1] = 1 THEN Ready(Stop, c, x, d) /\ (s.error = "-ENODEV" <=> r.addr # Own)
           ELSE Passed(r, i, bytes, there, c, x, d)
<1> USE DEF Finished
<1> DEFINE b == ByteAt(r, i)  t == PlanOf(r)[i + 1]
<1>1. IsAddress(s) = TRUE
  BY SendingStage DEF SendsHere
<1>2. s.error = "-ENODEV" /\ (ForOwn(b) <=> r.addr = Own) /\ b \in Byte
  BY SendOps DEF AtAddress
<1>3. c = 0 /\ x = 1 /\ Answered(b, TRUE, d, g[1] = 1) /\ d.in = Sent(r, i) /\ Spoken(d, bytes)
  <2>1. ByteSent(s, r, i, bytes, c, x, d, g)
    BY EndsByte
  <2> QED BY <1>1, <2>1 DEF ByteSent
<1>4. CASE g[1] = 1
  <2>1. d.mode = "rest" /\ ~ForOwn(b)
    BY <1>3, <1>4 DEF Answered
  <2> QED BY <1>2, <1>3, <1>4, <2>1, StopOps DEF Ready, Quiet
<1>5. CASE g[1] # 1
  <2>1. ForOwn(b) /\ IF b[Bits] = 1 THEN Speaks(d) ELSE Listens(d, FALSE)
    BY <1>3, <1>5 DEF Answered
  <2>2. i < Len(PlanOf(r))
    BY DEF AtAddress
  <2>3. Ready(t, c, x, d)
    <3>1. CASE b[Bits] = 1
      <4>1. PICK ack \in BOOLEAN : t = Receive(ack)
        BY <3>1 DEF AtAddress
      <4>2. t.kind = "receive"
        BY <4>1, ReceiveOps
      <4> QED BY <1>3, <2>1, <3>1, <4>2 DEF Ready
    <3>2. CASE b[Bits] # 1
      <4>1. Continues(t) /\ Listens(d, FALSE)
        BY <2>1, <3>2 DEF AtAddress
      <4> QED BY <1>3, <4>1, ContinuesReady
    <3> QED BY <3>1, <3>2
  <2>4. Kept(r, i, bytes, there)
    BY <1>2, <2>1, SameKept DEF AtAddress
  <2> QED BY <1>3, <1>5, <2>2, <2>3, <2>4, Follows DEF Passed
<1> QED BY <1>4, <1>5

\* A byte without an acknowledgement was not taken, by a target that is there.
LEMMA EndsWritten ==
    ASSUME NEW s, NEW r, NEW i, NEW bytes, NEW there, NEW c, NEW x, NEW d, NEW g,
           Finished(s, r, i, bytes, there, c, x, d, g), s.kind = "send", AtWritten(r, i)
    PROVE  IF g[1] = 1 THEN Ready(Stop, c, x, d) /\ (s.error = "-ENODEV" <=> r.addr # Own)
           ELSE Passed(r, i, bytes, there, c, x, d)
<1> USE DEF Finished
<1> DEFINE b == ByteAt(r, i)  t == PlanOf(r)[i + 1]
<1>1. IsAddress(s) = FALSE
  BY SendingStage DEF SendsHere
<1>2. s.error = "-EIO" /\ i > 3 /\ i - 1 >= 3 /\ r.op # "scan"
  BY SendOps DEF AtWritten
<1>3. /\ c = 0 /\ x = 1 /\ Answered(b, FALSE, d, g[1] = 1) /\ (g[1] = 0 => d.in = Sent(r, i)) /\ Spoken(d, bytes)
      /\ g[1] \in Bit
  <2>1. ByteSent(s, r, i, bytes, c, x, d, g)
    BY EndsByte
  <2> QED BY <1>1, <2>1 DEF ByteSent
<1>4. r.addr = Own
  BY <1>2 DEF Kept
<1>5. CASE g[1] = 1
  <2>1. d.mode = "rest"
    BY <1>3, <1>5 DEF Answered
  <2> QED BY <1>2, <1>3, <1>4, <1>5, <2>1, StopOps DEF Ready, Quiet
<1>6. CASE g[1] # 1
  <2>1. Listens(d, FALSE)
    BY <1>3, <1>6 DEF Answered
  <2>2. i < Len(PlanOf(r)) /\ Continues(t)
    BY DEF AtWritten
  <2>3. Ready(t, c, x, d)
    BY <1>3, <2>1, <2>2, ContinuesReady
  <2>4. d.in = Sent(r, i)
    BY <1>3, <1>6 DEF Bit
  <2>5. Kept(r, i, bytes, there)
    BY <1>4 DEF AtWritten, Kept
  <2> QED BY <1>3, <1>6, <2>2, <2>3, <2>4, <2>5, Follows DEF Passed
<1> QED BY <1>5, <1>6

-----------------------------------------------------------------------------
(* Each step keeps what a call that began well has done. *)

\* After the recovery's last two operations.
LEMMA RecoverTail ==
    ASSUME NEW p \in Nat, p < Len(Recover.ops)
    PROVE  /\ p + 1 >= 2 * Bits + 5 => p = 2 * Bits + 4 \/ p = 2 * Bits + 5
           /\ p = 2 * Bits + 4 => Recover.ops[p + 1] = "scl1" /\ p + 1 # 2 * Bits + 6 /\ ~(p >= 2 * Bits + 5)
           /\ p = 2 * Bits + 5 => Recover.ops[p + 1] = "sda1" /\ p >= 2 * Bits + 5
<1>1. p \in 0 .. 2 * Bits + 5
  BY RecoverOps, BitsPositive
<1>2. /\ p = 2 * Bits + 4 => p + 1 = 2 * Bits + 5
      /\ p = 2 * Bits + 5 => p + 1 = 2 * Bits + 6
  BY BitsPositive
<1>3. /\ p = 2 * Bits + 4 => Recover.ops[p + 1] = "scl1"
      /\ p = 2 * Bits + 5 => Recover.ops[p + 1] = "sda1"
  BY <1>2, RecoverOps
<1>4. /\ p + 1 >= 2 * Bits + 5 => p = 2 * Bits + 4 \/ p = 2 * Bits + 5
      /\ p = 2 * Bits + 4 => p + 1 # 2 * Bits + 6 /\ ~(p >= 2 * Bits + 5)
      /\ p = 2 * Bits + 5 => p >= 2 * Bits + 5
  BY <1>1, BitsPositive
<1> QED BY <1>3, <1>4

\* The recovery's stop lets both lines go, even if the clock does not rise.
LEMMA RaisedLine ==
    ASSUME Typed, Raised, LineMoves
    PROVE  Raised'
<1>1. /\ stage' = stage /\ stage \in Stages /\ At \in Nat /\ At < Len(stage.ops) /\ At' \in {At, At + 1}
      /\ Moves(stage.ops[At + 1], At, scl, sda, dev, got, At', scl', sda', dev', got')
  BY RunningStage DEF Typed, LineMoves
<1> SUFFICES ASSUME stage.kind = "recover"
             PROVE  (At' >= 2 * Bits + 5 => scl' = 1) /\ (At' = 2 * Bits + 6 => sda' = 1)
  BY <1>1 DEF Raised
<1>2. stage = Recover
  BY <1>1, StageIs
<1>3. At < Len(Recover.ops) /\ Moves(Recover.ops[At + 1], At, scl, sda, dev, got, At', scl', sda', dev', got')
  BY <1>1, <1>2
<1>4. At >= 2 * Bits + 5 => scl = 1
  BY DEF Raised
<1>5. CASE At = 2 * Bits + 4
  <2>1. MovesUp(At, scl, sda, dev, got, At', scl', sda', dev', got') /\ At + 1 # 2 * Bits + 6
    BY <1>1, <1>3, <1>5, MovesIs, RecoverTail
  <2>2. scl' = 1 /\ At' # 2 * Bits + 6
    BY <1>1, <1>5, <2>1, BitsPositive DEF MovesUp
  <2> QED BY <2>2
<1>6. CASE At = 2 * Bits + 5
  <2>1. MovesData("sda1", At, scl, sda, dev, got, At', scl', sda', dev', got') /\ At >= 2 * Bits + 5
    BY <1>1, <1>3, <1>6, MovesIs, RecoverTail
  <2> QED BY <1>4, <2>1 DEF MovesData
<1>7. CASE At # 2 * Bits + 4 /\ At # 2 * Bits + 5
  <2>1. ~(At + 1 >= 2 * Bits + 5)
    BY <1>1, <1>3, <1>7, RecoverTail
  <2>2. ~(At' >= 2 * Bits + 5) /\ At' # 2 * Bits + 6
    BY <1>1, <2>1, BitsPositive
  <2> QED BY <2>2
<1> QED BY <1>5, <1>6, <1>7

\* A call that began well does what it should, through each action.
LEMMA DeliveringLine ==
    ASSUME Typed, Delivering, LineMoves
    PROVE  Delivering'
<1>1. /\ InPlan /\ Sampled /\ scl \in Bit /\ sda \in Bit /\ Orderly(dev, scl)
      /\ Running /\ At \in Nat /\ At < Len(stage.ops)
      /\ Moves(stage.ops[At + 1], At, scl, sda, dev, got, At', scl', sda', dev', got')
      /\ UNCHANGED <<call, plan, stage, ret, rx, found, was, clean, late>>
  BY DEF Typed, LineMoves
<1>2. Raised'
  BY RaisedLine DEF Delivering
<1>3. Begun' = Begun /\ Running' /\ (Recovering' <=> Recovering)
  BY <1>1 DEF Begun, Running, Recovering
<1>4. Recovering' => ~clean' /\ rx' = <<>> /\ found' = <<>>
  BY <1>1, <1>3 DEF Delivering
<1>5. ASSUME clean, ~late PROVE IF ret = "0" THEN Well' ELSE Failed'
  <2>1. stage.kind # "idle" /\ IF ret = "0" THEN Well ELSE Failed
    BY <1>1, <1>5 DEF Delivering, Running
  <2>2. CASE ret = "0"
    <3>1. InStage(stage, call, Begun, rx, At, scl, sda, dev, got) /\ Kept(call, Begun - 1, rx, found)
      BY <1>1, <2>1, <2>2 DEF Well
    <3>2. /\ Proper(call) /\ Begun \in 1 .. Len(PlanOf(call)) /\ stage = PlanOf(call)[Begun]
      BY <1>1, <2>2, RunningStage
    <3>3. got \in Seq(Bit) /\ Len(got) = Due(stage, At)
      BY <1>1 DEF Sampled
    <3>4. StageMoves(stage, call, Begun, rx, At, scl, sda, dev, got, At', scl', sda', dev', got')
      BY <1>1, <3>1, <3>2, <3>3 DEF StageMoves
    <3>5. InStage(stage, call, Begun, rx, At', scl', sda', dev', got')
      BY <3>4, StageKeeps
    <3> QED BY <1>1, <1>3, <2>2, <3>1, <3>5 DEF Well
  <2>3. CASE ret # "0"
    <3>1. InStop(At, scl, sda, dev) /\ (ret = "-ENODEV" <=> call.addr # Own) /\ stage = Stop
      BY <1>1, <2>1, <2>3, RunningStage DEF Failed
    <3>2. At \in 0 .. 2 /\ Moves(Stop.ops[At + 1], At, scl, sda, dev, got, At', scl', sda', dev', got')
      <4>1. Len(stage.ops) = 3
        BY <3>1, StopOps
      <4> QED BY <1>1, <3>1, <4>1
    <3>3. InStop(At', scl', sda', dev')
      <4>1. scl \in Bit /\ sda \in Bit /\ Orderly(dev, scl)
        BY <1>1
      <4>2. InStop(At, scl, sda, dev)
        BY <3>1
      <4> QED BY ONLY <3>2, <4>1, <4>2, StopKeeps
    <3> QED BY <1>1, <1>3, <2>3, <3>1, <3>3 DEF Failed
  <2> QED BY <2>2, <2>3
<1> QED BY <1>1, <1>2, <1>4, <1>5 DEF Delivering

LEMMA DeliveringStretch ==
    ASSUME Typed, Delivering, StretchTimeout
    PROVE  Delivering'
<1>1. /\ Pending("scl1") /\ Go /\ late' = TRUE /\ scl = 1
      /\ UNCHANGED <<call, plan, stage, ret, rx, found, scl, sda, dev, got, was, clean>>
  BY DEF StretchTimeout, same_call, lines
<1>2. /\ Running /\ At \in Nat /\ At < Len(stage.ops) /\ stage.ops[At + 1] = "scl1" /\ At' = At + 1
      /\ InPlan
  BY <1>1, PendingIs DEF Typed
<1>3. Recovering' <=> Recovering
  BY <1>1 DEF Recovering, Begun
<1>4. Raised'
  <2> SUFFICES ASSUME stage.kind = "recover" PROVE (At' >= 2 * Bits + 5 => scl' = 1) /\ (At' = 2 * Bits + 6 => sda' = 1)
    BY <1>1 DEF Raised
  <2>1. stage = Recover
    BY <1>2, RunningStage, StageIs
  <2>2. At' # 2 * Bits + 6
    <3>1. At # 2 * Bits + 5
      BY <1>2, <2>1, RecoverTail
    <3> QED BY <1>2, <3>1, BitsPositive
  <2> QED BY <1>1, <2>2
<1> QED BY <1>1, <1>3, <1>4 DEF Delivering

\* A target that lets go of the clock disturbs no stage and none to come.
LEMMA DeliveringLetsGo ==
    ASSUME Typed, Delivering, LetsGo
    PROVE  Delivering'
<1>1. /\ UNCHANGED <<call, plan, stage, todo, ret, rx, found, scl, sda, got, was, clean, late>>
      /\ scl \in Bit /\ sda \in Bit /\ Orderly(dev, scl) /\ InPlan
  BY DEF LetsGo, lines, history, Typed
<1>2. Releases(scl, sda, dev, dev')
  BY LetsGoReleases
<1>3. Begun' = Begun /\ (Running' <=> Running) /\ At' = At /\ (Recovering' <=> Recovering)
  BY <1>1 DEF Begun, Running, At, Recovering
<1>4. Raised' /\ (Recovering' => ~clean' /\ rx' = <<>> /\ found' = <<>>)
  BY <1>1, <1>3 DEF Delivering, Raised
<1>5. ReleasedAlike(At, scl, sda, dev, dev')
  BY <1>1, <1>2, ReleaseKeepsEnds
<1>6. Onward(plan, scl, sda, dev) => Onward(plan, scl, sda, dev')
  BY <1>5 DEF ReleasedAlike, Onward, Free
<1>7. ASSUME stage.kind # "idle", clean, ~late PROVE IF ret = "0" THEN Well' ELSE Failed'
  <2>1. IF ret = "0" THEN Well ELSE Failed
    BY <1>7 DEF Delivering
  <2>2. CASE ret = "0" /\ Running
    <3>1. InStage(stage, call, Begun, rx, At, scl, sda, dev, got) /\ Kept(call, Begun - 1, rx, found)
      BY <2>1, <2>2 DEF Well
    <3>2. Proper(call) /\ Begun \in 1 .. Len(PlanOf(call)) /\ stage = PlanOf(call)[Begun] /\ At \in 0 .. Len(stage.ops)
      BY <1>1, <2>2, RunningStage DEF InPlan
    <3>3. InStage(stage, call, Begun, rx, At, scl, sda, dev', got)
      BY <1>1, <1>2, <3>1, <3>2, StageReleased
    <3> QED BY <1>1, <1>3, <2>2, <3>1, <3>3 DEF Well
  <2>3. CASE ret = "0" /\ ~Running
    <3>1. /\ Onward(plan, scl, sda, dev)
          /\ dev.in = Sent(call, Begun) /\ Spoken(dev, rx) /\ Kept(call, Begun, rx, found)
      BY <2>1, <2>3 DEF Well
    <3>2. dev'.in = Sent(call, Begun) /\ Spoken(dev', rx)
      BY <1>5, <3>1 DEF ReleasedAlike, Spoken
    <3> QED BY <1>1, <1>3, <1>6, <2>3, <3>1, <3>2 DEF Well
  <2>4. CASE ret # "0" /\ Running
    BY <1>1, <1>3, <1>5, <2>1, <2>4 DEF Failed, ReleasedAlike
  <2>5. CASE ret # "0" /\ ~Running
    BY <1>1, <1>3, <1>6, <2>1, <2>5 DEF Failed
  <2> QED BY <2>2, <2>3, <2>4, <2>5
<1> QED BY <1>1, <1>4, <1>7 DEF Delivering

LEMMA DeliveringBegins ==
    ASSUME Typed, Begins
    PROVE  Delivering'
<1>1. stage'.kind = "between" /\ clean' = FALSE /\ rx' = <<>> /\ found' = <<>>
  BY BeginsTyped DEF Begins
<1> QED BY <1>1 DEF Delivering, Raised

LEMMA DeliveringRestart ==
    ASSUME Typed, Restart
    PROVE  Delivering'
<1>1. stage'.kind = "idle"
  BY RestartTyped
<1> QED BY <1>1 DEF Delivering, Raised, Recovering

LEMMA DeliveringReturn ==
    ASSUME Typed, Delivering, Return
    PROVE  Delivering'
<1>1. /\ stage = Between /\ stage' = Done
      /\ UNCHANGED <<scl, sda, dev, call, plan, ret, rx, found, was, clean, late>> /\ Begun' = Begun /\ ~Recovering'
  BY ReturnIs
<1>2. stage.kind = "between" /\ stage'.kind = "done" /\ ~Running /\ ~Running'
  BY <1>1, OtherStages DEF Running
<1>3. Well => Well'
  BY <1>1, <1>2 DEF Well
<1>4. Failed => Failed'
  BY <1>1, <1>2 DEF Failed
<1>5. Raised'
  BY <1>2 DEF Raised
<1> QED BY <1>1, <1>2, <1>3, <1>4, <1>5 DEF Delivering

\* The first operation of a stage.
LEMMA FirstOf ==
    ASSUME NEW s, NEW r, NEW i, NEW bytes, NEW c, NEW x, NEW d,
           Proper(r), i \in 1 .. Len(PlanOf(r)), s = PlanOf(r)[i], Orderly(d, c),
           Ready(s, c, x, d), d.in = Sent(r, i - 1), Spoken(d, bytes)
    PROVE  InStage(s, r, i, bytes, 0, c, x, d, <<>>)
<1>1. PlacedByKind(r, i)
  BY KindPlaced
<1>2. s.kind \in {"start", "stop", "send", "probe", "receive"}
  BY DEF Ready
<1>3. CASE s.kind = "start"
  <2>1. Sent(r, i) = Sent(r, i - 1)
    BY <1>1, <1>3 DEF PlacedByKind, AtStart, Same
  <2>2. InStart(0, c, x, d)
    BY <1>3 DEF Ready, InStart
  <2> QED BY <1>3, <2>1, <2>2 DEF InStage
<1>4. CASE s.kind = "stop"
  <2>1. Sent(r, i) = Sent(r, i - 1)
    BY <1>1, <1>4 DEF PlacedByKind, AtStop, Same
  <2>2. InStop(0, c, x, d)
    BY <1>4 DEF Ready, InStop
  <2> QED BY <1>4, <2>1, <2>2 DEF InStage
<1>5. CASE s.kind \in {"send", "probe"}
  <2> DEFINE b == ByteAt(r, i)  a == IsAddress(s)
  <2>1. b \in Byte
    BY <1>5, SendingStage DEF SendsHere
  <2>2. c = 0 /\ Listens(d, a)
    BY <1>5 DEF Ready
  <2>3. d.byte = <<>>
    <3>1. d.byte \in Seq(Bit) /\ Len(d.byte) = 0
      BY <2>2 DEF Listens, Orderly, Device
    <3> QED BY <3>1
  <2> HIDE DEF b, a
  <2>4. InSend(b, a, 0, c, x, d, <<>>)
    <3>1. 1 \in 1 .. Bits /\ 0 = 3 * 1 - 3 /\ 0 # 3 * 1 - 2 /\ 0 # 3 * 1 - 1 /\ 1 - 1 = 0
      BY BitsPositive
    <3>2. Taking(b, 0, a, d)
      BY <2>1, <2>2, <2>3, PrefixWhole DEF Taking, Listens
    <3>3. SendsBit(1, b, a, 0, c, x, d)
      BY <2>2, <3>1, <3>2 DEF SendsBit
    <3> QED BY <3>1, <3>3, SendBit
  <2>5. ~Taken(0, d, <<>>)
    <3>1. 0 # 3 * Bits + 4 /\ ~(0 >= 3 * Bits)
      BY BitsPositive
    <3> QED BY <3>1 DEF Taken
  <2> QED BY <1>5, <2>4, <2>5 DEF InStage, a, b
<1>6. CASE s.kind = "receive"
  <2>1. Sent(r, i) = Sent(r, i - 1)
    BY <1>1, <1>6 DEF PlacedByKind, AtReceived
  <2>2. c = 0 /\ Speaks(d)
    BY <1>6 DEF Ready
  <2>3. InReceive(s = Receive(TRUE), 0, c, x, d, <<>>)
    BY <2>2, ReceiveHead
  <2>4. ~(0 > 3 * Bits)
    BY BitsPositive
  <2> QED BY <1>6, <2>1, <2>3, <2>4 DEF InStage
<1> QED BY <1>2, <1>3, <1>4, <1>5, <1>6

\* A stage that was ready begins.
LEMMA DeliveringStageBegins ==
    ASSUME Typed, Freed, Delivering, StageBegins
    PROVE  Delivering'
<1>1. /\ stage = Between /\ stage' \in Stages /\ Running' /\ At' = 0 /\ stage' = Head(plan) /\ plan # <<>>
      /\ UNCHANGED <<scl, sda, dev, call, got, ret, rx, found, was, clean, late>> /\ got = <<>>
      /\ ret = "0" => /\ Begun \in 0 .. Len(PlanOf(call)) /\ Begun' = Begun + 1
                      /\ Begun' \in 1 .. Len(PlanOf(call)) /\ stage' = PlanOf(call)[Begun']
      /\ ret # "0" => stage' = Stop
      /\ Proper(call) /\ Orderly(dev, scl)
  BY BeginsIs DEF StageBegins, Typed
<1>2. Recovering' <=> Recovering
  BY FreedStageBegins
<1>3. Raised'
  <2>1. ~(0 >= 2 * Bits + 5) /\ 0 # 2 * Bits + 6
    BY BitsPositive
  <2> QED BY <1>1, <2>1 DEF Raised
<1>4. ~Running /\ stage.kind # "idle"
  BY <1>1, OtherStages DEF Running
<1>5. ASSUME clean, ~late PROVE IF ret = "0" THEN Well' ELSE Failed'
  <2>1. IF ret = "0" THEN Well ELSE Failed
    BY <1>4, <1>5 DEF Delivering
  <2>2. CASE ret = "0"
    <3>1. /\ Ready(stage', scl, sda, dev) /\ dev.in = Sent(call, Begun) /\ Spoken(dev, rx)
          /\ Kept(call, Begun, rx, found)
      BY <1>1, <1>4, <2>1, <2>2 DEF Well, Onward
    <3>2. Begun' - 1 = Begun
      BY <1>1, <2>2
    <3>3. InStage(stage', call, Begun', rx, 0, scl, sda, dev, <<>>)
      BY <1>1, <2>2, <3>1, <3>2, FirstOf
    <3> QED BY <1>1, <2>2, <3>1, <3>2, <3>3 DEF Well
  <2>3. CASE ret # "0"
    <3>1. Ready(Stop, scl, sda, dev) /\ (ret = "-ENODEV" <=> call.addr # Own)
      BY <1>1, <1>4, <2>1, <2>3 DEF Failed, Onward
    <3>2. InStop(0, scl, sda, dev)
      BY <3>1, StopOps DEF Ready, InStop
    <3> QED BY <1>1, <2>3, <3>1, <3>2 DEF Failed
  <2> QED BY <2>2, <2>3
<1> QED BY <1>1, <1>2, <1>3, <1>5 DEF Delivering

\* What the end of a stage leaves to the next: the call goes on, or has failed.
Outcome(s, r, i, bytes, there, c, x, d, g) ==
    IF s.kind = "send" /\ g[1] = 1
    THEN Ready(Stop, c, x, d) /\ (s.error = "-ENODEV" <=> r.addr # Own)
    ELSE Passed(r, i, IF s.kind = "receive" THEN Append(bytes, g) ELSE bytes,
                IF s.kind = "probe" /\ g[1] = 0 THEN Append(there, s.addr) ELSE there, c, x, d)

\* Any stage of a call that goes well leaves one of the two.
LEMMA StageOutcome ==
    ASSUME NEW s, NEW r, NEW i, NEW bytes, NEW there, NEW c, NEW x, NEW d, NEW g,
           Finished(s, r, i, bytes, there, c, x, d, g)
    PROVE  Outcome(s, r, i, bytes, there, c, x, d, g)
<1>1. s.kind \in {"start", "stop", "send", "probe", "receive"}
  BY DEF Finished, InStage
<1>2. CASE s.kind = "start"
  BY <1>2, EndsStart DEF Outcome
<1>3. CASE s.kind = "stop"
  BY <1>3, EndsStop DEF Outcome
<1>4. CASE s.kind = "receive"
  BY <1>4, EndsReceive DEF Outcome
<1>5. CASE s.kind = "probe"
  BY <1>5, EndsProbe DEF Outcome
<1>6. CASE s.kind = "send"
  <2>1. AtAddress(r, i) \/ AtWritten(r, i)
    BY <1>6, KindPlaced DEF Finished, PlacedByKind
  <2>2. IF g[1] = 1 THEN Ready(Stop, c, x, d) /\ (s.error = "-ENODEV" <=> r.addr # Own)
        ELSE Passed(r, i, bytes, there, c, x, d)
    BY <1>6, <2>1, EndsAddress, EndsWritten
  <2> QED BY <1>6, <2>2 DEF Outcome
<1> QED BY <1>1, <1>2, <1>3, <1>4, <1>5, <1>6

\* After a recovery that has left the target at rest the first condition can be sent.
LEMMA RecoverPasses ==
    ASSUME NEW r, Proper(r), NEW i, i \in 1 .. Len(PlanOf(r)), PlanOf(r)[i].kind = "recover",
           NEW d, d.mode = "rest", d.in = <<>>, d.out = <<>>
    PROVE  Passed(r, i, <<>>, <<>>, 1, 1, d)
<1>1. AtRecover(r, i)
  BY KindPlaced DEF PlacedByKind
<1>2. i = 1 /\ Sent(r, i) = <<>> /\ Came(r, i) = 0 /\ Probed(r, i) = 0
  BY <1>1 DEF AtRecover
<1>3. i < Len(PlanOf(r)) => Ready(PlanOf(r)[i + 1], 1, 1, d)
  <2>1. Ready(Start, 1, 1, d)
    BY StartOps DEF Ready, Quiet
  <2> QED BY <1>1, <2>1 DEF AtRecover
<1>4. Free(1, 1, d)
  BY DEF Free
<1>5. Onward(Rest(PlanOf(r), i + 1), 1, 1, d)
  BY <1>3, <1>4, Follows
<1>6. Spoken(d, <<>>)
  BY DEF Spoken
<1>7. Kept(r, i, <<>>, <<>>)
  <2>1. <<>> \in Seq({Own}) /\ Len(<<>>) = 0
    OBVIOUS
  <2> QED BY <1>2, <2>1, AnsweringNone DEF Kept
<1> QED BY <1>2, <1>5, <1>6, <1>7 DEF Passed

\* The end of a stage, as the step takes it.
StageEndIs ==
    /\ Running /\ todo = <<>> /\ stage' = Between /\ got' = <<>>
    /\ UNCHANGED <<scl, sda, call, todo, was, late>>
    /\ stage.kind # "recover" => dev' = dev /\ clean' = clean
    /\ stage.kind = "recover" => dev' = [dev EXCEPT !.in = <<>>, !.out = <<>>] /\ clean' = (dev.mode = "rest")
    /\ rx' = IF stage.kind = "receive" THEN Append(rx, got) ELSE rx
    /\ found' = IF stage.kind = "probe" /\ got[1] = 0 THEN Append(found, stage.addr) ELSE found
    /\ IF stage.kind = "send" /\ got[1] = 1
       THEN plan' = <<Stop>> /\ ret' = stage.error ELSE plan' = plan /\ ret' = ret

LEMMA StageEndsIs ==
    ASSUME Typed, StageEnds
    PROVE  StageEndIs
BY DEF StageEnds, StageEndIs, Running, lines

\* The stage has failed the call, or it goes on with its plan.
LEMMA EndsOnPlan ==
    ASSUME InPlan, StageEndIs, ret = "0"
    PROVE  IF stage.kind = "send" /\ got[1] = 1
           THEN plan' = <<Stop>> /\ ret' = stage.error /\ ret' # "0"
           ELSE /\ ret' = "0" /\ Begun' = Begun /\ plan' = plan
                /\ plan = Rest(PlanOf(call), Begun + 1) /\ Begun \in 1 .. Len(PlanOf(call))
<1>1. Running /\ stage \in Stages /\ Begun \in 1 .. Len(PlanOf(call))
  BY RunningStage DEF StageEndIs
<1>2. CASE stage.kind = "send" /\ got[1] = 1
  <2>1. PICK b \in Byte, e \in {"-ENODEV", "-EIO"} : stage = Send(b, e)
    BY <1>1, <1>2, StageIs
  <2>2. stage.error # "0"
    BY <2>1, SendOps
  <2> QED BY <1>2, <2>2 DEF StageEndIs
<1>3. CASE ~(stage.kind = "send" /\ got[1] = 1)
  <2>1. plan' = plan /\ ret' = ret /\ call' = call
    BY <1>3 DEF StageEndIs
  <2>2. Begun' = Begun
    BY <2>1 DEF Begun
  <2>3. plan = Rest(PlanOf(call), Begun + 1)
    BY <1>1 DEF InPlan, Running
  <2> QED BY <1>1, <1>3, <2>1, <2>2, <2>3
<1> QED BY <1>2, <1>3

\* No recovery follows the end of a stage.
LEMMA EndsNotRecovering ==
    ASSUME InPlan, StageEndIs
    PROVE  ~Recovering' /\ ~Running' /\ stage'.kind = "between"
<1>1. stage'.kind = "between"
  BY OtherStages DEF StageEndIs
<1>2. ASSUME ret' = "0" PROVE Begun' # 0
  <2>1. CASE ret = "0"
    BY <1>2, <2>1, EndsOnPlan
  <2>2. CASE ret # "0"
    <3>1. stage = Stop
      BY <2>2, RunningStage DEF StageEndIs
    <3> QED BY <1>2, <2>2, <3>1, OtherStages DEF StageEndIs
  <2> QED BY <2>1, <2>2
<1> QED BY <1>1, <1>2 DEF Recovering, Running

\* A stage that ends: the recovery, one that goes well or fails, the stop after a failure.
LEMMA DeliveringStageEnds ==
    ASSUME Typed, Delivering, StageEnds
    PROVE  Delivering'
<1>1. InPlan /\ Sampled /\ StageEndIs /\ scl \in Bit /\ sda \in Bit /\ Orderly(dev, scl) /\ rx \in Seq(Byte)
  BY StageEndsIs DEF Typed
<1>2. ~Recovering' /\ ~Running' /\ stage'.kind = "between"
  BY <1>1, EndsNotRecovering
<1>3. Raised'
  BY <1>2 DEF Raised
<1>4. /\ Running /\ stage \in Stages /\ stage.kind \in Kinds /\ At = Len(stage.ops) /\ Proper(call)
      /\ scl' = scl /\ sda' = sda /\ call' = call /\ late' = late
  BY <1>1, RunningStage, Over, StageIs DEF StageEndIs
<1>5. ASSUME clean', ~late' PROVE IF ret' = "0" THEN Well' ELSE Failed'
  <2>1. CASE stage.kind = "recover"
    <3>1. ret = "0"
      BY <1>1, <1>4, <2>1, RunningStage, OtherStages
    <3>2. Recovering /\ rx = <<>> /\ found = <<>> /\ scl = 1 /\ sda = 1
      <4>1. At = 2 * Bits + 6 /\ At >= 2 * Bits + 5
        BY <1>4, <2>1, StageIs, RecoverOps, BitsPositive
      <4> QED BY <2>1, <4>1 DEF Delivering, Raised, Recovering
    <3>3. dev'.mode = "rest" /\ dev'.in = <<>> /\ dev'.out = <<>> /\ rx' = <<>> /\ found' = <<>>
      <4>1. dev \in Device
        BY <1>1 DEF Orderly
      <4>2. dev.mode = "rest" /\ dev' = [dev EXCEPT !.in = <<>>, !.out = <<>>] /\ rx' = rx /\ found' = found
        BY <1>1, <1>5, <2>1 DEF StageEndIs
      <4> QED BY <3>2, <4>1, <4>2 DEF Device
    <3>4. ret' = "0" /\ Begun' = Begun /\ plan' = Rest(PlanOf(call), Begun + 1) /\ Begun \in 1 .. Len(PlanOf(call))
      BY <1>1, <2>1, <3>1, EndsOnPlan
    <3>5. stage = PlanOf(call)[Begun]
      BY <1>1, <1>4, <3>1, RunningStage
    <3>6. Passed(call, Begun, <<>>, <<>>, 1, 1, dev')
      BY <1>4, <2>1, <3>3, <3>4, <3>5, RecoverPasses
    <3>7. Well'
      BY <1>2, <1>4, <3>2, <3>3, <3>4, <3>6 DEF Well, Passed
    <3> QED BY <3>4, <3>7
  <2>2. CASE stage.kind # "recover" /\ ret = "0"
    <3>1. clean /\ ~late /\ stage.kind # "idle" /\ dev' = dev
      <4>1. clean' = clean /\ dev' = dev
        BY <1>1, <2>2 DEF StageEndIs
      <4>2. clean
        BY <1>5, <4>1
      <4>3. ~late
        BY <1>4, <1>5
      <4>4. stage.kind # "idle"
        BY <1>4 DEF Running
      <4> QED BY <4>1, <4>2, <4>3, <4>4
    <3>2. InStage(stage, call, Begun, rx, At, scl, sda, dev, got) /\ Kept(call, Begun - 1, rx, found)
      BY <1>4, <2>2, <3>1 DEF Delivering, Well
    <3>3. /\ Begun \in 1 .. Len(PlanOf(call)) /\ stage = PlanOf(call)[Begun]
          /\ got \in Seq(Bit) /\ Len(got) = Due(stage, Len(stage.ops))
      BY <1>1, <1>4, <2>2, RunningStage DEF Sampled
    <3>4. Finished(stage, call, Begun, rx, found, scl, sda, dev, got)
      BY <1>1, <1>4, <3>2, <3>3 DEF Finished
    <3>5. Outcome(stage, call, Begun, rx, found, scl, sda, dev, got)
      BY <3>4, StageOutcome
    <3>6. CASE stage.kind = "send" /\ got[1] = 1
      <4>1. Ready(Stop, scl, sda, dev) /\ (stage.error = "-ENODEV" <=> call.addr # Own)
        BY <3>5, <3>6 DEF Outcome
      <4>2. plan' = <<Stop>> /\ ret' = stage.error /\ ret' # "0"
        BY <1>1, <2>2, <3>6, EndsOnPlan
      <4>3. Onward(plan', scl, sda, dev)
        BY <4>1, <4>2 DEF Onward
      <4> QED BY <1>2, <1>4, <3>1, <4>1, <4>2, <4>3 DEF Failed
    <3>7. CASE ~(stage.kind = "send" /\ got[1] = 1)
      <4>1. Passed(call, Begun, rx', found', scl, sda, dev)
        BY <1>1, <3>5, <3>7 DEF Outcome, StageEndIs
      <4>2. ret' = "0" /\ Begun' = Begun /\ plan' = Rest(PlanOf(call), Begun + 1)
        BY <1>1, <2>2, <3>7, EndsOnPlan
      <4>3. Well'
        BY <1>2, <1>4, <3>1, <4>1, <4>2 DEF Well, Passed
      <4> QED BY <4>2, <4>3
    <3> QED BY <3>6, <3>7
  <2>3. CASE stage.kind # "recover" /\ ret # "0"
    <3>1. clean /\ ~late /\ stage.kind # "idle" /\ dev' = dev
      <4>1. clean' = clean /\ dev' = dev
        BY <1>1, <2>3 DEF StageEndIs
      <4>2. clean
        BY <1>5, <4>1
      <4>3. ~late
        BY <1>4, <1>5
      <4>4. stage.kind # "idle"
        BY <1>4 DEF Running
      <4> QED BY <4>1, <4>2, <4>3, <4>4
    <3>2. stage = Stop /\ stage.kind = "stop"
      BY <1>1, <1>4, <2>3, RunningStage, OtherStages
    <3>3. At = 3
      BY <1>4, <3>2, StopOps
    <3>4. (ret = "-ENODEV" <=> call.addr # Own) /\ InStop(3, scl, sda, dev)
      BY <1>4, <2>3, <3>1, <3>3 DEF Delivering, Failed
    <3>5. ret' = ret /\ plan' = <<>>
      BY <1>1, <1>4, <2>3, <3>2, OtherStages DEF StageEndIs, InPlan
    <3>6. Onward(plan', scl, sda, dev)
      BY <3>4, <3>5 DEF InStop, Onward
    <3> QED BY <1>2, <1>4, <2>3, <3>1, <3>4, <3>5, <3>6 DEF Failed
  <2> QED BY <2>1, <2>2, <2>3
<1> QED BY <1>2, <1>3, <1>5 DEF Delivering

\* The invariant holds at the start, and each step keeps it.
LEMMA InitHolds ==
    ASSUME Init
    PROVE  IInv
<1> USE DEF Init
<1>1. 0 \in Nat /\ <<>> \in Seq(Byte) /\ <<>> \in Seq(Addr) /\ <<>> \in Seq(Bit) /\ 0 \in 0 .. Bits /\ 1 \in Bit
  BY BitsPositive, Bits01
<1>2. Len(<<>>) <= Bits
  BY BitsPositive
<1>3. dev \in Device
  <2>1. <<>> \in {b \in Seq(Bit) : Len(b) <= Bits}
    BY <1>1, <1>2
  <2> QED BY <1>1, <2>1 DEF Device
<1>4. Orderly(dev, scl)
  BY <1>3 DEF Orderly
<1>5. stage.kind = "idle" /\ ~Running
  BY OtherStages DEF Running
<1>6. InPlan
  BY <1>5 DEF InPlan
<1>7. Sampled
  BY <1>1, <1>5 DEF Sampled
<1>8. Typed
  BY <1>1, <1>4, <1>6, <1>7 DEF Typed
<1>9. Freed /\ Delivering
  BY <1>5 DEF Freed, Delivering, Raised, Recovering
<1> QED BY <1>8, <1>9 DEF IInv

LEMMA LineHolds ==
    ASSUME IInv, LineMoves
    PROVE  IInv'
BY LineTyped, FreedLine, DeliveringLine DEF IInv

LEMMA StretchHolds ==
    ASSUME IInv, StretchTimeout
    PROVE  IInv'
<1>1. Typed' /\ Delivering'
  BY StretchTyped, DeliveringStretch DEF IInv
<1>2. late'
  BY DEF StretchTimeout
<1> QED BY <1>1, <1>2 DEF IInv, Freed

LEMMA SameHolds ==
    ASSUME IInv, UNCHANGED vars
    PROVE  IInv'
<1>1. UNCHANGED <<scl, sda, dev, call, plan, stage, todo, got, ret, rx, found, was, clean, late>>
  BY DEF vars, lines, history, same_call
<1>2. At' = At /\ Begun' = Begun /\ (Running' <=> Running) /\ (Recovering' <=> Recovering)
  BY <1>1 DEF At, Begun, Running, Recovering
<1>3. Typed'
  BY <1>1, <1>2 DEF IInv, Typed, InPlan, Sampled
<1>4. Freed'
  BY <1>1, <1>2 DEF IInv, Freed
<1>5. (Well => Well') /\ (Failed => Failed') /\ (Raised => Raised')
  BY <1>1, <1>2 DEF Well, Failed, Raised
<1>6. Delivering'
  BY <1>1, <1>2, <1>5 DEF IInv, Delivering
<1> QED BY <1>3, <1>4, <1>6 DEF IInv

LEMMA StepHolds ==
    ASSUME IInv, [Next]_vars
    PROVE  IInv'
<1> USE DEF IInv
<1>1. CASE Write \/ Read \/ WriteRead \/ Scan
  <2>1. Begins
    BY <1>1, CallBegins
  <2> QED BY <2>1, BeginsTyped, FreedBegins, DeliveringBegins
<1>2. CASE SdaLow \/ SdaRelease
  BY <1>2, SdaMoves, LineHolds
<1>3. CASE SclLow
  BY <1>3, SclLowMoves, LineHolds
<1>4. CASE SclRelease
  BY <1>4, SclReleaseMoves, LineHolds
<1>5. CASE ReadSda
  BY <1>5, ReadMoves, LineHolds
<1>6. CASE StretchTimeout
  BY <1>6, StretchHolds
<1>7. CASE StageEnds
  BY <1>7, StageEndsTyped, FreedStageEnds, DeliveringStageEnds
<1>8. CASE StageBegins
  BY <1>8, StageBeginsTyped, FreedStageBegins, DeliveringStageBegins
<1>9. CASE Return
  BY <1>9, ReturnTyped, FreedReturn, DeliveringReturn
<1>10. CASE LetsGo
  BY <1>10, LetsGoTyped, FreedLetsGo, DeliveringLetsGo
<1>11. CASE Restart
  <2>1. Typed' /\ stage'.kind = "idle"
    BY <1>11, RestartTyped
  <2> QED BY <1>11, <2>1, DeliveringRestart DEF Freed
<1>12. CASE UNCHANGED vars
  BY <1>12, SameHolds
<1> QED BY <1>1, <1>2, <1>3, <1>4, <1>5, <1>6, <1>7, <1>8, <1>9, <1>10, <1>11, <1>12 DEF Next, Master

\* The bus of hw_i2c.c: the invariant holds in every state, whatever the width of a byte, the
\* payloads, the lengths, the scan list, the replies and the stretching.
THEOREM Inductive == Spec => []IInv
<1>1. Init => IInv
  BY InitHolds
<1>2. IInv /\ [Next]_vars => IInv'
  BY StepHolds
<1> QED BY <1>1, <1>2, PTL DEF Spec

\* The types.
LEMMA DueBounded ==
    ASSUME InPlan, Sampled
    PROVE  Len(got) <= Bits
<1>1. CASE ~Running
  <2>1. got = <<>>
    BY <1>1 DEF InPlan
  <2> QED BY <2>1, BitsPositive
<1>2. CASE Running
  <2>1. Len(got) = Due(stage, At) /\ At \in Nat
    <3>1. stage.ops \in Seq(LineOps)
      BY <1>2, RunningStage
    <3> QED BY <1>2, <3>1 DEF Sampled, InPlan
  <2>2. Due(stage, At) <= Bits
    <3>1. At <= 3 * Bits => At \div 3 <= Bits
      BY <2>1, BitsPositive
    <3> QED BY <3>1, BitsPositive DEF Due
  <2> QED BY <2>1, <2>2
<1> QED BY <1>1, <1>2

\* The lines, the target and the call keep to their types; no stage reads more than a byte.
THEOREM TypeCorrect == Spec => []TypeOK
<1>1. IInv => TypeOK
  <2> SUFFICES ASSUME Typed PROVE TypeOK
    BY DEF IInv
  <2>1. InPlan /\ Sampled /\ dev \in Device
    BY DEF Typed, Orderly
  <2>2. ret \in {"0", "-ENODEV", "-EIO"}
    BY <2>1 DEF InPlan
  <2>3. Len(got) <= Bits
    BY <2>1, DueBounded
  <2>4. /\ dev.mode \in {"rest", "addr", "ackAddr", "recv", "ackData", "send", "getAck"}
        /\ dev.n \in 0 .. Bits /\ dev.scl \in Bit /\ dev.sda \in Bit /\ Len(dev.byte) <= Bits
    BY <2>1 DEF Device
  <2> QED BY <2>2, <2>3, <2>4 DEF Typed, TypeOK
<1> QED BY <1>1, Inductive, PTL

\* A call that is over has been through its plan, or has failed.
LEMMA FairlyDone ==
    ASSUME IInv, Fair
    PROVE  /\ scl = 1 /\ sda = 1 /\ dev.mode = "rest" /\ Orderly(dev, scl) /\ Proper(call)
           /\ ret = "0" => /\ dev.in = Sent(call, Len(PlanOf(call))) /\ dev.out = rx
                           /\ Kept(call, Len(PlanOf(call)), rx, found)
           /\ ret # "0" => call.op # "scan" /\ (ret = "-ENODEV" <=> call.addr # Own)
<1>1. InPlan /\ Orderly(dev, scl) /\ stage.kind = "done" /\ ~Running /\ plan = <<>> /\ Proper(call)
  BY DEF IInv, Typed, Fair, InPlan, Running
<1>2. IF ret = "0" THEN Well ELSE Failed
  BY DEF IInv, Delivering, Fair
<1>3. CASE ret = "0"
  <2>1. PlanOf(call) \in Seq(Stages)
    BY <1>1, PlanIs
  <2>2. Begun = Len(PlanOf(call))
    <3>1. Len(PlanOf(call)) \in Nat
      BY <2>1
    <3>2. Begun = Len(PlanOf(call)) - 0
      BY <1>1 DEF Begun
    <3> QED BY <3>1, <3>2
  <2>3. Free(scl, sda, dev) /\ dev.in = Sent(call, Begun) /\ Spoken(dev, rx) /\ Kept(call, Begun, rx, found)
    BY <1>1, <1>2, <1>3 DEF Well, Onward
  <2> QED BY <1>1, <1>3, <2>2, <2>3 DEF Free, Spoken
<1>4. CASE ret # "0"
  <2>1. Free(scl, sda, dev) /\ (ret = "-ENODEV" <=> call.addr # Own)
    BY <1>1, <1>2, <1>4 DEF Failed, Onward
  <2>2. call.op # "scan"
    BY <1>1, <1>4 DEF InPlan
  <2> QED BY <1>1, <1>4, <2>1, <2>2 DEF Free
<1> QED BY <1>3, <1>4

\* The invariant at the end of a call.
LEMMA Delivers ==
    ASSUME IInv
    PROVE  CallsDeliver
<1> DEFINE n == Len(PlanOf(call))
<1>1. ASSUME Fair PROVE Fulfilled(call, n) /\ call \in Request
  BY <1>1, FairlyDone, PlanIs DEF Proper
<1>2. ASSUME Fair, ret = "0", call.op # "scan"
      PROVE  dev.in = call.tx /\ rx = dev.out /\ Len(rx) = call.len /\ call.addr = Own
  <2>1. dev.in = Sent(call, n) /\ dev.out = rx /\ Kept(call, n, rx, found)
    BY <1>2, FairlyDone
  <2> QED BY <1>1, <1>2, <2>1 DEF Fulfilled, Kept
<1>3. ASSUME Fair, call.op = "scan"
      PROVE  found \in Seq({Own}) /\ Len(found) = Cardinality({i \in DOMAIN ScanList : ScanList[i] = Own})
  <2>1. ret = "0"
    BY <1>3, FairlyDone
  <2>2. Kept(call, n, rx, found)
    BY <1>3, <2>1, FairlyDone
  <2>3. Probed(call, n) = Len(ScanList)
    BY <1>1, <1>3 DEF Fulfilled
  <2>4. DOMAIN ScanList = 1 .. Len(ScanList)
    BY BusAssumption
  <2> QED BY <2>2, <2>3, <2>4 DEF Kept, Answering
<1>4. ASSUME Fair, call.op # "scan" PROVE (ret = "-ENODEV") = (call.addr # Own)
  BY <1>2, <1>4, FairlyDone
<1>5. BytesCarried
  BY <1>2 DEF BytesCarried
<1>6. PresenceKnown
  BY <1>3, <1>4 DEF PresenceKnown
<1> QED BY <1>5, <1>6 DEF CallsDeliver

\* hw_i2c_write, hw_i2c_read, hw_i2c_write_read and hw_i2c_scan: what a call reports is what
\* the target has seen, for a call that began with the target at rest and timed out on no stretch.
THEOREM DeliveryProved == Spec => []CallsDeliver
BY Inductive, Delivers, PTL

\* i2c_stop, at the end of each call and after each failure: the lines are let go and the
\* target is at rest.
THEOREM BusFreeProved == Spec => []BusLeftFree
<1>1. IInv => BusLeftFree
  <2> SUFFICES ASSUME IInv, Fair PROVE scl = 1 /\ sda = 1 /\ dev.scl = 1 /\ dev.sda = 1 /\ dev.mode = "rest"
    BY DEF BusLeftFree
  <2> QED BY FairlyDone DEF Orderly
<1> QED BY <1>1, Inductive, PTL

\* hw_i2c_init_bus: its Bits + 1 clocks and its stop free a target that holds SDA in the middle
\* of a byte it sends, whichever bit it is at.
THEOREM RecoveryProved == Spec => []RecoveryFreesReader
<1>1. IInv => RecoveryFreesReader
  <2> SUFFICES ASSUME IInv, stage.kind = "done", ~late, was \in {"send", "getAck"} PROVE clean
    BY DEF RecoveryFreesReader
  <2>1. ~Recovering /\ stage.kind # "idle"
    BY DEF Recovering
  <2> QED BY <2>1 DEF IInv, Freed, Sending
<1> QED BY <1>1, Inductive, PTL

=============================================================================
