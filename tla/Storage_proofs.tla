------------------------- MODULE Storage_proofs -------------------------
(***************************************************************************)
(* What holds of the flash file system for any contents, descriptors and   *)
(* number of calls, failures and restarts.                                 *)
(*                                                                         *)
(* A call is a plan of steps on files, and its failures skip steps.  The   *)
(* argument begins with what a plan is laid out like wherever it is cut    *)
(* off (Laid, Roles), which every plan of the model has and every step     *)
(* keeps; then a call has a file open exactly while it is inside the steps *)
(* that need one (Handling), and calls that are alone stay so (Single).    *)
(* Upon these, mounting is noted where it happens (Ordered), and a boot or *)
(* a format by itself has every default file either on flash or still in   *)
(* its plan (Defaulting).  That files hold what was meant rests on where   *)
(* the steps of a plan aim (Aimed), what a rename moves (Moving), what a   *)
(* file that is being written holds and what is left to write to it        *)
(* (Writing), what a call by itself has reached (Reached) and what it is   *)
(* for (Goals).                                                            *)
(***************************************************************************)
EXTENDS Storage, SequenceTheorems, TLAPS

-----------------------------------------------------------------------------
(* Plans. *)

Do(s, k) == IF k \in 1 .. Len(s) THEN s[k].do ELSE "end"

\* Steps on a file that the call has open; the wait of Forget is on none.
Inner(x) == x.do \in {"write", "append", "read", "close"} \/ (x.do = "wait" /\ x.name # "none")
Opening == {"open", "truncate", "look"}
Inside(s, k) == k \in 1 .. Len(s) /\ Inner(s[k])
InsideOf(s, k, n) == Inside(s, k) /\ s[k].name = n

\* A call that opens a file closes it, whichever steps fail.
HandledAt(s, i) ==
    /\ Inner(s[i]) /\ s[i].do # "close" =>
          InsideOf(s, i + 1, s[i].name) /\ InsideOf(s, i + 1 + s[i].skip, s[i].name)
    /\ s[i].do \in Opening => InsideOf(s, i + 1, s[i].name) /\ ~Inside(s, i + 1 + s[i].skip)
    /\ s[i].do \notin Opening /\ (Inner(s[i]) => s[i].do = "close") =>
          ~Inside(s, i + 1) /\ ~Inside(s, i + 1 + s[i].skip)

\* Mounting comes in the order of FormatPlan and BootPlan.
Ended == {"end", "default", "loadName"}
Making == {"init", "unmount", "mkfs", "remkfs", "mount", "remount", "set"}
Managing == Making \cup Ended
ManagedAt(s, i) ==
    LET this == s[i].do
        next == Do(s, i + 1)
        skip == Do(s, i + 1 + s[i].skip)
    IN /\ this = "init" => i = 1 /\ s = BootPlan
       /\ this \in {"set", "default"} => next \in Ended
       /\ this = "loadName" => next = "end" /\ s[i].name = "name"
       /\ this = "unmount" => next \in {"mkfs", "remkfs"}
       /\ this = "mkfs" => next = "mount" /\ skip \in Ended
       /\ this = "mount" => next = "set" /\ skip \in Ended
       /\ this = "remkfs" => next = "remount" /\ skip = "set"
       /\ this = "remount" => next = "set" /\ skip = "set"
       /\ this \notin Managing => next \notin Making /\ skip \notin Making
       /\ this = "default" => s[i].name \in UserFiles
       /\ this \in Making \cup {"check"} => s[i].name = "none"

\* A file is written in one piece, or in two with a wait between them.
Joined(s, i) == s[i + 3].data = s[i].data \o s[i + 2].data
WrittenAt(s, i) ==
    LET n == s[i].name
    IN /\ s[i].do = "open" => n \in Settings /\ Do(s, i + 1) = "write"
       /\ s[i].do = "truncate" => n \in UserFiles /\ Do(s, i + 1) = "write"
       /\ s[i].do = "look" => n \in UserFiles /\ Do(s, i + 1) \in {"read", "wait"}
          /\ (Do(s, i + 1) = "wait" => Do(s, i + 2) = "read")
       /\ s[i].do = "write" =>
             \/ Do(s, i + 1) = "close" /\ s[i + 1].data = s[i].data
             \/ /\ Do(s, i + 1) = "wait" /\ Do(s, i + 2) = "append" /\ Do(s, i + 3) = "close"
                /\ Joined(s, i) /\ n \in UserFiles
       /\ s[i].do = "wait" /\ n # "none" =>
             Do(s, i + 1) \in {"read", "append"} /\ Do(s, i + 2) = "close" /\ s[i].skip = 1
       /\ s[i].do \in {"append", "read"} => Do(s, i + 1) = "close" /\ s[i].skip = 0
       /\ s[i].do = "write" => s[i].skip = 0
       /\ s[i].do \in {"write", "append"} => s[i].data \in Text
       /\ s[i].do \in {"unlink", "rename"} => n \in Files
       /\ s[i].do = "append" => n \in UserFiles
       /\ Do(s, i + 1) = "rename" => s[i].do = "check"
       /\ Do(s, i + 1 + s[i].skip) # "rename" /\ Do(s, i + 1) # "check"

\* The default files are written last, each once.
Default == [n \in UserFiles |-> IF n = "demo" THEN Demo ELSE Howto]
DefaultedAt(s, i) ==
    /\ s[i].do \in Making =>
          \A n \in UserFiles : \E j \in i + 1 .. Len(s) : s[j].do = "default" /\ s[j].name = n
    /\ s[i].name \in UserFiles => s[i].data = Default[s[i].name]
    /\ s[i].do = "write" => Do(s, i + 1) = "close"
    /\ s[i].do \in Managing \cup {"check", "open", "truncate", "write", "close"}
    /\ \A j \in i + 1 .. Len(s) : s[j].do = "default" => s[j].name # s[i].name

LaidAt(s, i) == HandledAt(s, i) /\ ManagedAt(s, i) /\ WrittenAt(s, i)

Laid(s) == \A i \in 1 .. Len(s) : LaidAt(s, i)
Defaulted(s) == \A i \in 1 .. Len(s) : DefaultedAt(s, i)

-----------------------------------------------------------------------------
(* Who does what. *)

Manages(t) == th[t].op \in {"boot", "format"}
Next1(t) == Do(th[t].todo, 1)
Others(t) == Threads \ {t}
\* Nobody else has a call under way, and no script a file.
OnlyOne(t) == (\A u \in Others(t) : ~Busy(u)) /\ Held = {}

Roles(t) ==
    /\ ~Busy(t) => th[t].todo = <<>>
    /\ Laid(th[t].todo)
    /\ th[t].op = "boot" <=> t = "main" /\ Busy(t)
    /\ \A i \in 1 .. Len(th[t].todo) :
          /\ th[t].todo[i].do \in Managing => Manages(t)
          /\ th[t].todo[i].do \in {"init", "remkfs", "remount", "loadName"} => th[t].op = "boot"
    /\ Manages(t) => Defaulted(th[t].todo)

Single ==
    /\ \A t \in Threads : Busy(t) /\ th[t].alone => OnlyOne(t)
    /\ Busy("main") => OnlyOne("main")
    /\ \A t \in Threads : th[t].op = "format" /\ ~clash => OnlyOne(t)

Handling ==
    /\ \A t \in Threads :
          /\ ~Inside(th[t].todo, 1) => th[t].file = NoFile
          /\ Inside(th[t].todo, 1) => th[t].file.state # "closed" /\ th[t].file.name = th[t].todo[1].name
          /\ ~clash => th[t].file.state # "stale"
    /\ \A fd \in Slots :
          /\ fds[fd].state = "closed" => fds[fd] = NoFile
          /\ fds[fd].state # "closed" => fds[fd].name \in UserFiles
          /\ ~clash => fds[fd].state # "stale"

Mounting(t) ==
    /\ Next1(t) = "init" => ~mounted
    /\ th[t].op = "boot" /\ Next1(t) \in Making => ~is_mounted
    /\ th[t].op = "boot" /\ Next1(t) \in {"mkfs", "remkfs", "mount", "remount"} => ~mounted
    /\ Next1(t) = "set" => ~is_mounted /\ (mounted \/ (th[t].op = "boot" /\ stranded))
    /\ th[t].op = "format" /\ Next1(t) \in {"mkfs", "mount"} => (is_mounted => mounted)
    /\ th[t].op = "format" /\ Next1(t) = "mkfs" /\ ~clash => ~mounted

Noting == mounted /\ ~is_mounted =>
    \E t \in Threads : Next1(t) = "set" \/ (th[t].op = "boot" /\ Next1(t) = "unmount")

-----------------------------------------------------------------------------
(* Default files. *)

Sole(t) == Busy(t) /\ th[t].alone /\ th[t].clean
Names_(s) == {s[i].name : i \in 1 .. Len(s)}
Settled(n) == files[n] # Absent /\ (n = "howto" => Len(files[n]) = Len(Howto))

-----------------------------------------------------------------------------
(* Contents. *)

Fits(n, c, S) == c \in S \/ (n = "name" /\ c # Absent /\ \E p \in S \ {Absent} : IsPrefix(p, c))

\* Settings whose contents all have one length.
Sized == {"mode", "sta"}
Full(n) == IF n = "mode" THEN Modes ELSE Records

\* Where a file's writing ends, and with what.
Ends(s, i) == s[i].do = "append" \/ (s[i].do = "write" /\ Do(s, i + 1) = "close")
Final(s, i) == IF s[i].do = "append" THEN s[i + 1].data ELSE s[i].data

\* What a step does is what the call is for, and what the files may hold.
AimedAt(s, i, goal, may) ==
    LET n == s[i].name
    IN /\ Ends(s, i) => n \in Files /\ Final(s, i) \in may[n] /\ Final(s, i) \in goal[n]
       /\ s[i].do = "unlink" => Absent \in may[n] /\ Absent \in goal[n]
       /\ s[i].do = "rename" => /\ Absent \in may[n] /\ Absent \in goal[n]
                                /\ n \in UserFiles /\ s[i].data \in UserFiles /\ s[i].data # n
       /\ s[i].do \in {"look", "read"} => goal[n] = {}
       /\ s[i].do = "write" /\ n \in Sized => s[i].data \in Full(n)

Aimed(t) == \A i \in 1 .. Len(th[t].todo) : AimedAt(th[t].todo, i, th[t].goal, meant)

\* A call that is alone means what a file it renames may hold for the file's new name.
Moving(t) == Sole(t) => \A i \in {1, 2} :
    LET x == th[t].todo[i]
    IN Do(th[t].todo, i) = "rename" => MayHold(x.name) \ {Absent} \subseteq th[t].goal[x.data]

\* What an open file holds and what is left to write to it make up what is meant; it
\* is closed dirty with the whole of that only.
Writing(t) ==
    LET f == th[t].file  s == th[t].todo  h == Next1(t)
    IN /\ f.state # "closed" => f.name \in Files
       /\ h = "write" /\ f.state = "open" => f.name \in Settings \/ (f.data = <<>> /\ f.dirty)
       /\ h = "wait" /\ Do(s, 2) = "append" /\ f.state = "open" => f.dirty /\ s[3].data = f.data \o s[2].data
       /\ h = "append" /\ f.state = "open" => f.dirty /\ s[2].data = f.data \o s[1].data
       /\ h = "read" \/ (h = "wait" /\ Do(s, 2) = "read") => ~f.dirty
       /\ h = "close" /\ f.state = "open" /\ f.dirty => Fits(f.name, f.data, meant[f.name])
       /\ Sole(t) /\ Inside(s, 1) => f.state = "open"
       /\ Sole(t) /\ h = "close" /\ th[t].goal[f.name] # {} => f.dirty
          /\ Fits(f.name, f.data, th[t].goal[f.name])
       /\ f.name \in Sized => f.data \in {<<>>} \cup Full(f.name)

\* What a call has done is what it is for.
Touches(x, n) == x.name = n \/ (x.do = "rename" /\ x.data = n) \/ x.do \in {"unmount", "mkfs", "remkfs"}
Touched(s, n) == \E i \in 1 .. Len(s) : Touches(s[i], n)
Reached(t) == Sole(t) =>
    \A n \in Files : th[t].goal[n] # {} /\ ~Touched(th[t].todo, n) => Fits(n, files[n], th[t].goal[n])

\* A format is for the default files, a boot is for nothing until it begins to make them.
Goals(t) ==
    /\ th[t].op = "format" => \A n \in Files : th[t].goal[n] = IF n \in UserFiles THEN {Default[n]} ELSE {Absent}
    /\ th[t].op = "boot" /\ Next1(t) \in Making => \A n \in Files : th[t].goal[n] = {}
    /\ th[t].op = "boot" => \A i \in 1 .. Len(th[t].todo) :
          th[t].todo[i].do \in {"default", "loadName"} => th[t].goal[th[t].todo[i].name] = {}
    /\ Sole(t) /\ th[t].op = "format" /\ Next1(t) \notin {"unmount", "mkfs"} =>
          \A i \in 1 .. Len(th[t].todo) : th[t].todo[i].do = "default" => files[th[t].todo[i].name] = Absent

\* Settings of one length are never overwritten in part.
FilesSorted == \A n \in Sized : files[n] \in {Absent, <<>>} \cup Full(n)
AllWritten == \A t \in Threads : Aimed(t) /\ Moving(t) /\ Writing(t) /\ Reached(t) /\ Goals(t)

-----------------------------------------------------------------------------
(* What is left of a plan. *)

Rest(s, k) == SubSeq(s, k, Len(s))

LEMMA RestIs ==
    ASSUME NEW S, NEW s \in Seq(S), NEW k \in Nat \ {0}
    PROVE  /\ Rest(s, k) \in Seq(S)
           /\ Len(Rest(s, k)) = IF k <= Len(s) THEN Len(s) + 1 - k ELSE 0
           /\ \A i \in 1 .. Len(Rest(s, k)) : i + k - 1 \in 1 .. Len(s) /\ Rest(s, k)[i] = s[i + k - 1]
BY DEF Rest

LEMMA TailIsRest == ASSUME NEW S, NEW s \in Seq(S), s # <<>> PROVE Tail(s) = Rest(s, 2)
BY DEF Rest

LEMMA SeqIsRest == ASSUME NEW S, NEW s \in Seq(S) PROVE Rest(s, 1) = s
BY DEF Rest

LEMMA RestSteps ==
    ASSUME NEW s \in Seq(AnyStep), NEW k \in Nat \ {0}, NEW i \in Nat \ {0}
    PROVE  /\ i \in 1 .. Len(Rest(s, k)) <=> i + k - 1 \in 1 .. Len(s)
           /\ i \in 1 .. Len(Rest(s, k)) => Rest(s, k)[i] = s[i + k - 1]
           /\ Do(Rest(s, k), i) = Do(s, i + k - 1)
           /\ Inside(Rest(s, k), i) <=> Inside(s, i + k - 1)
           /\ \A n : InsideOf(Rest(s, k), i, n) <=> InsideOf(s, i + k - 1, n)
<1>1. /\ i \in 1 .. Len(Rest(s, k)) <=> i + k - 1 \in 1 .. Len(s)
      /\ i \in 1 .. Len(Rest(s, k)) => Rest(s, k)[i] = s[i + k - 1]
  BY RestIs
<1> QED BY <1>1 DEF Do, Inside, InsideOf

LEMMA RestAt ==
    ASSUME NEW s \in Seq(AnyStep), NEW k \in Nat \ {0}, NEW i \in 1 .. Len(Rest(s, k))
    PROVE  LET r == Rest(s, k)  j == i + k - 1
           IN /\ i \in Nat /\ j \in 1 .. Len(s) /\ r[i] = s[j] /\ r[i] \in AnyStep /\ r[i].skip \in Nat
              /\ \A d \in {1, 2, 3} :
                    /\ Inside(r, i + d) <=> Inside(s, j + d)
                    /\ \A n : InsideOf(r, i + d, n) <=> InsideOf(s, j + d, n)
                    /\ Do(r, i + d) = Do(s, j + d)
                    /\ Do(s, j + d) # "end" => r[i + d] = s[j + d]
              /\ LET d == r[i].skip
                 IN /\ Inside(r, i + 1 + d) <=> Inside(s, j + 1 + d)
                    /\ \A n : InsideOf(r, i + 1 + d, n) <=> InsideOf(s, j + 1 + d, n)
                    /\ Do(r, i + 1 + d) = Do(s, j + 1 + d)
<1> DEFINE r == Rest(s, k)  j == i + k - 1
<1>1. i \in Nat /\ j \in 1 .. Len(s) /\ r[i] = s[j] /\ r[i] \in AnyStep /\ Len(r) \in Nat
  BY RestIs
<1>2. r[i].skip \in Nat
  BY <1>1 DEF AnyStep
<1>3. ASSUME NEW d \in Nat
      PROVE  /\ Inside(r, i + d) <=> Inside(s, j + d)
             /\ \A n : InsideOf(r, i + d, n) <=> InsideOf(s, j + d, n)
             /\ Do(r, i + d) = Do(s, j + d)
             /\ Do(s, j + d) # "end" => r[i + d] = s[j + d]
  <2>1. i + d \in Nat \ {0} /\ (i + d) + k - 1 = j + d
    BY <1>1
  <2>2. Do(s, j + d) # "end" => j + d \in 1 .. Len(s)
    BY DEF Do
  <2> HIDE DEF j
  <2> QED BY <2>1, <2>2, RestSteps
<1> HIDE DEF r, j
<1>4. ASSUME NEW d \in Nat PROVE i + (1 + d) = i + 1 + d /\ j + (1 + d) = j + 1 + d /\ 1 + d \in Nat
  <2>1. i \in Int /\ j \in Int
    BY <1>1
  <2> QED BY <2>1
<1>5. \A d \in {1, 2, 3} :
          /\ Inside(r, i + d) <=> Inside(s, j + d)
          /\ \A n : InsideOf(r, i + d, n) <=> InsideOf(s, j + d, n)
          /\ Do(r, i + d) = Do(s, j + d)
          /\ Do(s, j + d) # "end" => r[i + d] = s[j + d]
  BY <1>3
<1>6. LET d == r[i].skip
      IN /\ Inside(r, i + 1 + d) <=> Inside(s, j + 1 + d)
         /\ \A n : InsideOf(r, i + 1 + d, n) <=> InsideOf(s, j + 1 + d, n)
         /\ Do(r, i + 1 + d) = Do(s, j + 1 + d)
  <2> DEFINE d == r[i].skip
  <2>1. d \in Nat /\ 1 + d \in Nat /\ i + (1 + d) = i + 1 + d /\ j + (1 + d) = j + 1 + d
    BY <1>2, <1>4
  <2> HIDE DEF d
  <2>2. /\ Inside(r, i + (1 + d)) <=> Inside(s, j + (1 + d))
        /\ \A n : InsideOf(r, i + (1 + d), n) <=> InsideOf(s, j + (1 + d), n)
        /\ Do(r, i + (1 + d)) = Do(s, j + (1 + d))
    BY <2>1, <1>3
  <2> QED BY <2>1, <2>2 DEF d
<1> QED BY <1>1, <1>2, <1>5, <1>6 DEF r, j

LEMMA RestLaid ==
    ASSUME NEW s \in Seq(AnyStep), NEW k \in Nat \ {0}, Laid(s) PROVE Laid(Rest(s, k))
<1> DEFINE r == Rest(s, k)
<1> SUFFICES ASSUME NEW i \in 1 .. Len(r) PROVE LaidAt(r, i)
  BY DEF Laid
<1> DEFINE j == i + k - 1
<1>1. LaidAt(s, j)
  BY RestAt DEF Laid
<1>2. /\ r[i] = s[j] /\ r[i].skip \in Nat
      /\ \A d \in {1, 2, 3} :
            /\ Inside(r, i + d) <=> Inside(s, j + d)
            /\ \A n : InsideOf(r, i + d, n) <=> InsideOf(s, j + d, n)
            /\ Do(r, i + d) = Do(s, j + d)
            /\ Do(s, j + d) # "end" => r[i + d] = s[j + d]
      /\ LET d == r[i].skip
         IN /\ Inside(r, i + 1 + d) <=> Inside(s, j + 1 + d)
            /\ \A n : InsideOf(r, i + 1 + d, n) <=> InsideOf(s, j + 1 + d, n)
            /\ Do(r, i + 1 + d) = Do(s, j + 1 + d)
  BY RestAt
<1>3. r[i].do = "init" => i = 1 /\ r = BootPlan
  <2> SUFFICES ASSUME s[j].do = "init" PROVE i = 1 /\ r = BootPlan
    BY <1>2
  <2>1. j = 1 /\ s = BootPlan
    BY <1>1 DEF LaidAt, ManagedAt
  <2>2. i = 1 /\ k = 1
    BY <2>1
  <2>3. r = s
    BY <2>2, SeqIsRest
  <2> QED BY <2>1, <2>2, <2>3
<1> HIDE DEF r, j
<1>4. HandledAt(r, i)
  BY <1>1, <1>2 DEF LaidAt, HandledAt
<1>5. ManagedAt(r, i)
  BY <1>1, <1>2, <1>3 DEF LaidAt, ManagedAt
<1>6. WrittenAt(r, i)
  BY <1>1, <1>2 DEF LaidAt, WrittenAt, Joined
<1> QED BY <1>4, <1>5, <1>6 DEF LaidAt

LEMMA RestDefaulted ==
    ASSUME NEW s \in Seq(AnyStep), NEW k \in Nat \ {0}, Defaulted(s) PROVE Defaulted(Rest(s, k))
<1> DEFINE r == Rest(s, k)
<1> SUFFICES ASSUME NEW i \in 1 .. Len(r) PROVE DefaultedAt(r, i)
  BY DEF Defaulted
<1> DEFINE j == i + k - 1
<1>1. DefaultedAt(s, j) /\ r[i] = s[j] /\ Do(r, i + 1) = Do(s, j + 1)
  BY RestAt DEF Defaulted
<1>2. ASSUME NEW n \in UserFiles, NEW m \in j + 1 .. Len(s)
      PROVE  m + 1 - k \in i + 1 .. Len(r) /\ r[m + 1 - k] = s[m]
  BY RestIs, RestAt
<1>3. ASSUME NEW m \in i + 1 .. Len(r) PROVE m + k - 1 \in j + 1 .. Len(s) /\ r[m] = s[m + k - 1]
  BY RestIs, RestAt
<1> HIDE DEF r, j
<1>4. r[i].do \in Making =>
        \A n \in UserFiles : \E m \in i + 1 .. Len(r) : r[m].do = "default" /\ r[m].name = n
  <2> SUFFICES ASSUME r[i].do \in Making, NEW n \in UserFiles
               PROVE  \E m \in i + 1 .. Len(r) : r[m].do = "default" /\ r[m].name = n
    OBVIOUS
  <2>1. PICK m \in j + 1 .. Len(s) : s[m].do = "default" /\ s[m].name = n
    BY <1>1 DEF DefaultedAt
  <2> QED BY <2>1, <1>2
<1>5. \A m \in i + 1 .. Len(r) : r[m].do = "default" => r[m].name # r[i].name
  <2>1. \A m \in j + 1 .. Len(s) : s[m].do = "default" => s[m].name # s[j].name
    BY <1>1 DEF DefaultedAt
  <2> QED BY <2>1, <1>1, <1>3
<1> QED BY <1>1, <1>4, <1>5 DEF DefaultedAt

-----------------------------------------------------------------------------
(* The plans of the calls. *)

LEMMA StepTyped ==
    ASSUME NEW o \in Operations, NEW n \in Files \cup {"none"}, NEW d \in Text \cup Files, NEW k \in Nat
    PROVE Step(o, n, d, k) \in AnyStep
BY DEF Step, AnyStep

LEMMA Contents ==
    /\ UserFiles \subseteq Files /\ Settings \subseteq Files /\ "none" \notin Files
       /\ UserFiles \cap Settings = {}
    /\ "demo" \in UserFiles /\ "howto" \in UserFiles /\ "mode" \in Settings /\ "sta" \in Settings
       /\ "name" \in Settings
    /\ <<>> \in Text /\ <<"AP">> \in Text /\ Modes \subseteq Text /\ Demo \in Text /\ Howto \in Text
       /\ Upload \in Text
    /\ <<Upload[1]>> \in Text /\ <<Upload[2]>> \in Text
<1>1. Upload \in Seq(Pieces) /\ Len(Upload) = 2
  BY StorageAssumption DEF Text
<1>2. Upload[1] \in Pieces /\ Upload[2] \in Pieces
  BY <1>1
<1>3. "AP" \in Pieces /\ "STA" \in Pieces /\ Demo \in Text /\ Howto \in Text
  BY StorageAssumption
<1>4. <<Upload[1]>> \in Text /\ <<Upload[2]>> \in Text /\ <<"AP">> \in Text /\ <<"STA">> \in Text
      /\ <<>> \in Text
  BY <1>2, <1>3 DEF Text
<1>5. Modes \subseteq Text
  BY <1>4 DEF Modes
<1> QED BY <1>1, <1>3, <1>4, <1>5 DEF Files, UserFiles, Settings, Text

LEMMA ConcatIs ==
    ASSUME NEW S, NEW a \in Seq(S), NEW b \in Seq(S), NEW t \in Seq(S), Len(t) = Len(a) + Len(b),
           \A i \in 1 .. Len(t) : t[i] = IF i <= Len(a) THEN a[i] ELSE b[i - Len(a)]
    PROVE  t = a \o b
<1>1. a \o b \in Seq(S) /\ Len(a \o b) = Len(t)
  OBVIOUS
<1>2. \A i \in 1 .. Len(t) : (a \o b)[i] = t[i]
  OBVIOUS
<1> QED BY <1>1, <1>2, SeqEqual

LEMMA WriteFileIs ==
    ASSUME NEW n \in UserFiles, NEW d \in Text
    PROVE  LET s == WriteFile(n, d)
           IN /\ s \in Seq(AnyStep) /\ Len(s) = 4
              /\ s[1].do = "check" /\ s[1].name = "none" /\ s[1].data = <<>> /\ s[1].skip = 3
              /\ s[2].do = "truncate" /\ s[2].name = n /\ s[2].data = d /\ s[2].skip = 2
              /\ s[3].do = "write" /\ s[3].name = n /\ s[3].data = d /\ s[3].skip = 0
              /\ s[4].do = "close" /\ s[4].name = n /\ s[4].data = d /\ s[4].skip = 0
<1> DEFINE s == WriteFile(n, d)
            t == <<Step("check", "none", <<>>, 3), Step("truncate", n, d, 2), Step("write", n, d, 0),
                   Step("close", n, d, 0)>>
<1>1. t \in Seq(AnyStep)
  <2>1. Step("check", "none", <<>>, 3) \in AnyStep /\ Step("truncate", n, d, 2) \in AnyStep
        /\ Step("write", n, d, 0) \in AnyStep /\ Step("close", n, d, 0) \in AnyStep
    BY StepTyped, Contents DEF Operations
  <2> QED BY <2>1
<1>2. s = t
  BY DEF WriteFile, Check
<1> HIDE DEF s
<1>3. /\ s \in Seq(AnyStep) /\ Len(s) = 4
      /\ s[1].do = "check" /\ s[1].name = "none" /\ s[1].data = <<>> /\ s[1].skip = 3
      /\ s[2].do = "truncate" /\ s[2].name = n /\ s[2].data = d /\ s[2].skip = 2
      /\ s[3].do = "write" /\ s[3].name = n /\ s[3].data = d /\ s[3].skip = 0
      /\ s[4].do = "close" /\ s[4].name = n /\ s[4].data = d /\ s[4].skip = 0
  BY <1>1, <1>2 DEF Step
<1> HIDE DEF t
<1> QED BY <1>3 DEF s

LEMMA ReadFileIs ==
    ASSUME NEW n \in UserFiles
    PROVE  LET s == ReadFile(n)
           IN /\ s \in Seq(AnyStep) /\ Len(s) = 4
              /\ s[1].do = "check" /\ s[1].name = "none" /\ s[1].data = <<>> /\ s[1].skip = 3
              /\ s[2].do = "look" /\ s[2].name = n /\ s[2].data = <<>> /\ s[2].skip = 2
              /\ s[3].do = "read" /\ s[3].name = n /\ s[3].data = <<>> /\ s[3].skip = 0
              /\ s[4].do = "close" /\ s[4].name = n /\ s[4].data = <<>> /\ s[4].skip = 0
<1> DEFINE s == ReadFile(n)
            t == <<Step("check", "none", <<>>, 3), Step("look", n, <<>>, 2), Step("read", n, <<>>, 0),
                   Step("close", n, <<>>, 0)>>
<1>1. t \in Seq(AnyStep)
  <2>1. Step("check", "none", <<>>, 3) \in AnyStep /\ Step("look", n, <<>>, 2) \in AnyStep
        /\ Step("read", n, <<>>, 0) \in AnyStep /\ Step("close", n, <<>>, 0) \in AnyStep
    BY StepTyped, Contents DEF Operations
  <2> QED BY <2>1
<1>2. s = t
  BY DEF ReadFile, Check
<1> HIDE DEF s
<1>3. /\ s \in Seq(AnyStep) /\ Len(s) = 4
      /\ s[1].do = "check" /\ s[1].name = "none" /\ s[1].data = <<>> /\ s[1].skip = 3
      /\ s[2].do = "look" /\ s[2].name = n /\ s[2].data = <<>> /\ s[2].skip = 2
      /\ s[3].do = "read" /\ s[3].name = n /\ s[3].data = <<>> /\ s[3].skip = 0
      /\ s[4].do = "close" /\ s[4].name = n /\ s[4].data = <<>> /\ s[4].skip = 0
  BY <1>1, <1>2 DEF Step
<1> HIDE DEF t
<1> QED BY <1>3 DEF s

LEMMA ServeFileIs ==
    ASSUME NEW n \in UserFiles
    PROVE  LET s == ServeFile(n)
           IN /\ s \in Seq(AnyStep) /\ Len(s) = 4
              /\ s[1].do = "look" /\ s[1].name = n /\ s[1].data = <<>> /\ s[1].skip = 3
              /\ s[2].do = "wait" /\ s[2].name = n /\ s[2].data = <<>> /\ s[2].skip = 1
              /\ s[3].do = "read" /\ s[3].name = n /\ s[3].data = <<>> /\ s[3].skip = 0
              /\ s[4].do = "close" /\ s[4].name = n /\ s[4].data = <<>> /\ s[4].skip = 0
<1> DEFINE s == ServeFile(n)
            t == <<Step("look", n, <<>>, 3), Step("wait", n, <<>>, 1), Step("read", n, <<>>, 0),
                   Step("close", n, <<>>, 0)>>
<1>1. t \in Seq(AnyStep)
  <2>1. Step("look", n, <<>>, 3) \in AnyStep /\ Step("wait", n, <<>>, 1) \in AnyStep
        /\ Step("read", n, <<>>, 0) \in AnyStep /\ Step("close", n, <<>>, 0) \in AnyStep
    BY StepTyped, Contents DEF Operations
  <2> QED BY <2>1
<1>2. s = t
  BY DEF ServeFile
<1> HIDE DEF s
<1>3. /\ s \in Seq(AnyStep) /\ Len(s) = 4
      /\ s[1].do = "look" /\ s[1].name = n /\ s[1].data = <<>> /\ s[1].skip = 3
      /\ s[2].do = "wait" /\ s[2].name = n /\ s[2].data = <<>> /\ s[2].skip = 1
      /\ s[3].do = "read" /\ s[3].name = n /\ s[3].data = <<>> /\ s[3].skip = 0
      /\ s[4].do = "close" /\ s[4].name = n /\ s[4].data = <<>> /\ s[4].skip = 0
  BY <1>1, <1>2 DEF Step
<1> HIDE DEF t
<1> QED BY <1>3 DEF s

LEMMA UploadFileIs ==
    ASSUME NEW n \in UserFiles
    PROVE  LET s == UploadFile(n)
           IN /\ s \in Seq(AnyStep) /\ Len(s) = 5
              /\ s[1].do = "truncate" /\ s[1].name = n /\ s[1].data = Upload /\ s[1].skip = 4
              /\ s[2].do = "write" /\ s[2].name = n /\ s[2].data = <<Upload[1]>> /\ s[2].skip = 0
              /\ s[3].do = "wait" /\ s[3].name = n /\ s[3].data = <<>> /\ s[3].skip = 1
              /\ s[4].do = "append" /\ s[4].name = n /\ s[4].data = <<Upload[2]>> /\ s[4].skip = 0
              /\ s[5].do = "close" /\ s[5].name = n /\ s[5].data = Upload /\ s[5].skip = 0
<1> DEFINE s == UploadFile(n)
            t == <<Step("truncate", n, Upload, 4), Step("write", n, <<Upload[1]>>, 0),
                   Step("wait", n, <<>>, 1), Step("append", n, <<Upload[2]>>, 0),
                   Step("close", n, Upload, 0)>>
<1>1. t \in Seq(AnyStep)
  <2>1. Step("truncate", n, Upload, 4) \in AnyStep /\ Step("write", n, <<Upload[1]>>, 0) \in AnyStep
        /\ Step("wait", n, <<>>, 1) \in AnyStep /\ Step("append", n, <<Upload[2]>>, 0) \in AnyStep
        /\ Step("close", n, Upload, 0) \in AnyStep
    BY StepTyped, Contents DEF Operations
  <2> QED BY <2>1
<1>2. s = t
  BY DEF UploadFile
<1> HIDE DEF s
<1>3. /\ s \in Seq(AnyStep) /\ Len(s) = 5
      /\ s[1].do = "truncate" /\ s[1].name = n /\ s[1].data = Upload /\ s[1].skip = 4
      /\ s[2].do = "write" /\ s[2].name = n /\ s[2].data = <<Upload[1]>> /\ s[2].skip = 0
      /\ s[3].do = "wait" /\ s[3].name = n /\ s[3].data = <<>> /\ s[3].skip = 1
      /\ s[4].do = "append" /\ s[4].name = n /\ s[4].data = <<Upload[2]>> /\ s[4].skip = 0
      /\ s[5].do = "close" /\ s[5].name = n /\ s[5].data = Upload /\ s[5].skip = 0
  BY <1>1, <1>2 DEF Step
<1> HIDE DEF t
<1> QED BY <1>3 DEF s

LEMMA SavedIs ==
    ASSUME NEW n \in Settings, NEW d \in Text
    PROVE  LET s == Saved(n, d)
           IN /\ s \in Seq(AnyStep) /\ Len(s) = 3
              /\ s[1].do = "open" /\ s[1].name = n /\ s[1].data = d /\ s[1].skip = 2
              /\ s[2].do = "write" /\ s[2].name = n /\ s[2].data = d /\ s[2].skip = 0
              /\ s[3].do = "close" /\ s[3].name = n /\ s[3].data = d /\ s[3].skip = 0
<1> DEFINE s == Saved(n, d)
            t == <<Step("open", n, d, 2), Step("write", n, d, 0), Step("close", n, d, 0)>>
<1>1. t \in Seq(AnyStep)
  <2>1. Step("open", n, d, 2) \in AnyStep /\ Step("write", n, d, 0) \in AnyStep
        /\ Step("close", n, d, 0) \in AnyStep
    BY StepTyped, Contents DEF Operations
  <2> QED BY <2>1
<1>2. s = t
  BY DEF Saved
<1> HIDE DEF s
<1>3. /\ s \in Seq(AnyStep) /\ Len(s) = 3
      /\ s[1].do = "open" /\ s[1].name = n /\ s[1].data = d /\ s[1].skip = 2
      /\ s[2].do = "write" /\ s[2].name = n /\ s[2].data = d /\ s[2].skip = 0
      /\ s[3].do = "close" /\ s[3].name = n /\ s[3].data = d /\ s[3].skip = 0
  BY <1>1, <1>2 DEF Step
<1> HIDE DEF t
<1> QED BY <1>3 DEF s

LEMMA DeleteIs ==
    ASSUME NEW n \in UserFiles
    PROVE  LET s == <<Check(1), Step("unlink", n, <<>>, 0)>>
           IN /\ s \in Seq(AnyStep) /\ Len(s) = 2
              /\ s[1].do = "check" /\ s[1].name = "none" /\ s[1].data = <<>> /\ s[1].skip = 1
              /\ s[2].do = "unlink" /\ s[2].name = n /\ s[2].data = <<>> /\ s[2].skip = 0
<1> DEFINE s == <<Check(1), Step("unlink", n, <<>>, 0)>>
            t == <<Step("check", "none", <<>>, 1), Step("unlink", n, <<>>, 0)>>
<1>1. t \in Seq(AnyStep)
  <2>1. Step("check", "none", <<>>, 1) \in AnyStep /\ Step("unlink", n, <<>>, 0) \in AnyStep
    BY StepTyped, Contents DEF Operations
  <2> QED BY <2>1
<1>2. s = t
  BY DEF Check
<1> HIDE DEF s
<1>3. /\ s \in Seq(AnyStep) /\ Len(s) = 2
      /\ s[1].do = "check" /\ s[1].name = "none" /\ s[1].data = <<>> /\ s[1].skip = 1
      /\ s[2].do = "unlink" /\ s[2].name = n /\ s[2].data = <<>> /\ s[2].skip = 0
  BY <1>1, <1>2 DEF Step
<1> HIDE DEF t
<1> QED BY <1>3 DEF s

LEMMA MoveIs ==
    ASSUME NEW n \in UserFiles, NEW m \in UserFiles
    PROVE  LET s == <<Check(1), Step("rename", n, m, 0)>>
           IN /\ s \in Seq(AnyStep) /\ Len(s) = 2
              /\ s[1].do = "check" /\ s[1].name = "none" /\ s[1].data = <<>> /\ s[1].skip = 1
              /\ s[2].do = "rename" /\ s[2].name = n /\ s[2].data = m /\ s[2].skip = 0
<1> DEFINE s == <<Check(1), Step("rename", n, m, 0)>>
            t == <<Step("check", "none", <<>>, 1), Step("rename", n, m, 0)>>
<1>1. t \in Seq(AnyStep)
  <2>1. Step("check", "none", <<>>, 1) \in AnyStep /\ Step("rename", n, m, 0) \in AnyStep
    BY StepTyped, Contents DEF Operations
  <2> QED BY <2>1
<1>2. s = t
  BY DEF Check
<1> HIDE DEF s
<1>3. /\ s \in Seq(AnyStep) /\ Len(s) = 2
      /\ s[1].do = "check" /\ s[1].name = "none" /\ s[1].data = <<>> /\ s[1].skip = 1
      /\ s[2].do = "rename" /\ s[2].name = n /\ s[2].data = m /\ s[2].skip = 0
  BY <1>1, <1>2 DEF Step
<1> HIDE DEF t
<1> QED BY <1>3 DEF s

LEMMA ForgottenIs ==
    LET s == Forgotten
    IN /\ s \in Seq(AnyStep) /\ Len(s) = 5
       /\ s[1].do = "unlink" /\ s[1].name = "sta" /\ s[1].data = <<>> /\ s[1].skip = 0
       /\ s[2].do = "wait" /\ s[2].name = "none" /\ s[2].data = <<>> /\ s[2].skip = 3
       /\ s[3].do = "open" /\ s[3].name = "mode" /\ s[3].data = <<"AP">> /\ s[3].skip = 2
       /\ s[4].do = "write" /\ s[4].name = "mode" /\ s[4].data = <<"AP">> /\ s[4].skip = 0
       /\ s[5].do = "close" /\ s[5].name = "mode" /\ s[5].data = <<"AP">> /\ s[5].skip = 0
<1> DEFINE s == Forgotten
            t == <<Step("unlink", "sta", <<>>, 0), Step("wait", "none", <<>>, 3),
                   Step("open", "mode", <<"AP">>, 2), Step("write", "mode", <<"AP">>, 0),
                   Step("close", "mode", <<"AP">>, 0)>>
<1>1. t \in Seq(AnyStep)
  <2>1. Step("unlink", "sta", <<>>, 0) \in AnyStep /\ Step("wait", "none", <<>>, 3) \in AnyStep
        /\ Step("open", "mode", <<"AP">>, 2) \in AnyStep
        /\ Step("write", "mode", <<"AP">>, 0) \in AnyStep /\ Step("close", "mode", <<"AP">>, 0) \in AnyStep
    BY StepTyped, Contents DEF Operations
  <2> QED BY <2>1
<1>2. s = t
  <2> DEFINE a == <<Step("unlink", "sta", <<>>, 0), Step("wait", "none", <<>>, 3)>>
             b == <<Step("open", "mode", <<"AP">>, 2), Step("write", "mode", <<"AP">>, 0),
                    Step("close", "mode", <<"AP">>, 0)>>
  <2>1. s = a \o b
    BY DEF Forgotten, Saved
  <2>2. a \in Seq(AnyStep) /\ b \in Seq(AnyStep)
    <3>1. Step("unlink", "sta", <<>>, 0) \in AnyStep /\ Step("wait", "none", <<>>, 3) \in AnyStep
          /\ Step("open", "mode", <<"AP">>, 2) \in AnyStep
          /\ Step("write", "mode", <<"AP">>, 0) \in AnyStep /\ Step("close", "mode", <<"AP">>, 0) \in AnyStep
      BY StepTyped, Contents DEF Operations
    <3> QED BY <3>1
  <2>3. Len(a) = 2 /\ Len(b) = 3 /\ Len(t) = 5
    OBVIOUS
  <2> Len(t) = Len(a) + Len(b)
    BY <2>3
  <2>4. \A i \in 1 .. Len(t) : t[i] = IF i <= Len(a) THEN a[i] ELSE b[i - Len(a)]
    OBVIOUS
  <2> HIDE DEF a, b, t
  <2>5. t = a \o b
    BY <1>1, <2>2, <2>3, <2>4, ConcatIs
  <2> QED BY <2>1, <2>5
<1> HIDE DEF s
<1>3. /\ s \in Seq(AnyStep) /\ Len(s) = 5
      /\ s[1].do = "unlink" /\ s[1].name = "sta" /\ s[1].data = <<>> /\ s[1].skip = 0
      /\ s[2].do = "wait" /\ s[2].name = "none" /\ s[2].data = <<>> /\ s[2].skip = 3
      /\ s[3].do = "open" /\ s[3].name = "mode" /\ s[3].data = <<"AP">> /\ s[3].skip = 2
      /\ s[4].do = "write" /\ s[4].name = "mode" /\ s[4].data = <<"AP">> /\ s[4].skip = 0
      /\ s[5].do = "close" /\ s[5].name = "mode" /\ s[5].data = <<"AP">> /\ s[5].skip = 0
  BY <1>1, <1>2 DEF Step
<1> HIDE DEF t
<1> QED BY <1>3 DEF s

LEMMA FormatPlanIs ==
    LET s == FormatPlan
    IN /\ s \in Seq(AnyStep) /\ Len(s) = 6
       /\ s[1].do = "unmount" /\ s[1].name = "none" /\ s[1].data = <<>> /\ s[1].skip = 0
       /\ s[2].do = "mkfs" /\ s[2].name = "none" /\ s[2].data = <<>> /\ s[2].skip = 4
       /\ s[3].do = "mount" /\ s[3].name = "none" /\ s[3].data = <<>> /\ s[3].skip = 3
       /\ s[4].do = "set" /\ s[4].name = "none" /\ s[4].data = <<>> /\ s[4].skip = 0
       /\ s[5].do = "default" /\ s[5].name = "demo" /\ s[5].data = Demo /\ s[5].skip = 0
       /\ s[6].do = "default" /\ s[6].name = "howto" /\ s[6].data = Howto /\ s[6].skip = 0
<1> DEFINE s == FormatPlan
            t == <<Step("unmount", "none", <<>>, 0), Step("mkfs", "none", <<>>, 4),
                   Step("mount", "none", <<>>, 3), Step("set", "none", <<>>, 0),
                   Step("default", "demo", Demo, 0), Step("default", "howto", Howto, 0)>>
<1>1. t \in Seq(AnyStep)
  <2>1. Step("unmount", "none", <<>>, 0) \in AnyStep /\ Step("mkfs", "none", <<>>, 4) \in AnyStep
        /\ Step("mount", "none", <<>>, 3) \in AnyStep /\ Step("set", "none", <<>>, 0) \in AnyStep
        /\ Step("default", "demo", Demo, 0) \in AnyStep /\ Step("default", "howto", Howto, 0) \in AnyStep
    BY StepTyped, Contents DEF Operations
  <2> QED BY <2>1
<1>2. s = t
  BY DEF FormatPlan, CreateDefaultFile
<1> HIDE DEF s
<1>3. /\ s \in Seq(AnyStep) /\ Len(s) = 6
      /\ s[1].do = "unmount" /\ s[1].name = "none" /\ s[1].data = <<>> /\ s[1].skip = 0
      /\ s[2].do = "mkfs" /\ s[2].name = "none" /\ s[2].data = <<>> /\ s[2].skip = 4
      /\ s[3].do = "mount" /\ s[3].name = "none" /\ s[3].data = <<>> /\ s[3].skip = 3
      /\ s[4].do = "set" /\ s[4].name = "none" /\ s[4].data = <<>> /\ s[4].skip = 0
      /\ s[5].do = "default" /\ s[5].name = "demo" /\ s[5].data = Demo /\ s[5].skip = 0
      /\ s[6].do = "default" /\ s[6].name = "howto" /\ s[6].data = Howto /\ s[6].skip = 0
  BY <1>1, <1>2 DEF Step
<1> HIDE DEF t
<1> QED BY <1>3 DEF s

LEMMA BootPlanIs ==
    LET s == BootPlan
    IN /\ s \in Seq(AnyStep) /\ Len(s) = 5
       /\ s[1].do = "init" /\ s[1].name = "none" /\ s[1].data = <<>> /\ s[1].skip = 0
       /\ s[2].do = "set" /\ s[2].name = "none" /\ s[2].data = <<>> /\ s[2].skip = 0
       /\ s[3].do = "default" /\ s[3].name = "demo" /\ s[3].data = Demo /\ s[3].skip = 0
       /\ s[4].do = "default" /\ s[4].name = "howto" /\ s[4].data = Howto /\ s[4].skip = 0
       /\ s[5].do = "loadName" /\ s[5].name = "name" /\ s[5].data = <<>> /\ s[5].skip = 0
<1> DEFINE s == BootPlan
            t == <<Step("init", "none", <<>>, 0), Step("set", "none", <<>>, 0),
                   Step("default", "demo", Demo, 0), Step("default", "howto", Howto, 0),
                   Step("loadName", "name", <<>>, 0)>>
<1>1. t \in Seq(AnyStep)
  <2>1. Step("init", "none", <<>>, 0) \in AnyStep /\ Step("set", "none", <<>>, 0) \in AnyStep
        /\ Step("default", "demo", Demo, 0) \in AnyStep /\ Step("default", "howto", Howto, 0) \in AnyStep
        /\ Step("loadName", "name", <<>>, 0) \in AnyStep
    BY StepTyped, Contents DEF Operations
  <2> QED BY <2>1
<1>2. s = t
  BY DEF BootPlan, CreateDefaultFile
<1> HIDE DEF s
<1>3. /\ s \in Seq(AnyStep) /\ Len(s) = 5
      /\ s[1].do = "init" /\ s[1].name = "none" /\ s[1].data = <<>> /\ s[1].skip = 0
      /\ s[2].do = "set" /\ s[2].name = "none" /\ s[2].data = <<>> /\ s[2].skip = 0
      /\ s[3].do = "default" /\ s[3].name = "demo" /\ s[3].data = Demo /\ s[3].skip = 0
      /\ s[4].do = "default" /\ s[4].name = "howto" /\ s[4].data = Howto /\ s[4].skip = 0
      /\ s[5].do = "loadName" /\ s[5].name = "name" /\ s[5].data = <<>> /\ s[5].skip = 0
  BY <1>1, <1>2 DEF Step
<1> HIDE DEF t
<1> QED BY <1>3 DEF s

LEMMA ReformatIs ==
    LET s == Reformat \o Tail(BootPlan)
    IN /\ s \in Seq(AnyStep) /\ Len(s) = 7
       /\ s[1].do = "unmount" /\ s[1].name = "none" /\ s[1].data = <<>> /\ s[1].skip = 0
       /\ s[2].do = "remkfs" /\ s[2].name = "none" /\ s[2].data = <<>> /\ s[2].skip = 1
       /\ s[3].do = "remount" /\ s[3].name = "none" /\ s[3].data = <<>> /\ s[3].skip = 0
       /\ s[4].do = "set" /\ s[4].name = "none" /\ s[4].data = <<>> /\ s[4].skip = 0
       /\ s[5].do = "default" /\ s[5].name = "demo" /\ s[5].data = Demo /\ s[5].skip = 0
       /\ s[6].do = "default" /\ s[6].name = "howto" /\ s[6].data = Howto /\ s[6].skip = 0
       /\ s[7].do = "loadName" /\ s[7].name = "name" /\ s[7].data = <<>> /\ s[7].skip = 0
<1> DEFINE s == Reformat \o Tail(BootPlan)
            t == <<Step("unmount", "none", <<>>, 0), Step("remkfs", "none", <<>>, 1),
                   Step("remount", "none", <<>>, 0), Step("set", "none", <<>>, 0),
                   Step("default", "demo", Demo, 0), Step("default", "howto", Howto, 0),
                   Step("loadName", "name", <<>>, 0)>>
<1>1. t \in Seq(AnyStep)
  <2>1. Step("unmount", "none", <<>>, 0) \in AnyStep /\ Step("remkfs", "none", <<>>, 1) \in AnyStep
        /\ Step("remount", "none", <<>>, 0) \in AnyStep /\ Step("set", "none", <<>>, 0) \in AnyStep
        /\ Step("default", "demo", Demo, 0) \in AnyStep /\ Step("default", "howto", Howto, 0) \in AnyStep
        /\ Step("loadName", "name", <<>>, 0) \in AnyStep
    BY StepTyped, Contents DEF Operations
  <2> QED BY <2>1
<1>2. s = t
  <2> DEFINE a == <<Step("unmount", "none", <<>>, 0), Step("remkfs", "none", <<>>, 1),
                    Step("remount", "none", <<>>, 0)>>
             b == <<Step("set", "none", <<>>, 0), Step("default", "demo", Demo, 0),
                    Step("default", "howto", Howto, 0), Step("loadName", "name", <<>>, 0)>>
  <2>1. Reformat = a /\ Tail(BootPlan) = b
    BY DEF Reformat, BootPlan, CreateDefaultFile
  <2>2. a \in Seq(AnyStep) /\ b \in Seq(AnyStep)
    <3>1. Step("unmount", "none", <<>>, 0) \in AnyStep /\ Step("remkfs", "none", <<>>, 1) \in AnyStep
          /\ Step("remount", "none", <<>>, 0) \in AnyStep /\ Step("set", "none", <<>>, 0) \in AnyStep
          /\ Step("default", "demo", Demo, 0) \in AnyStep
          /\ Step("default", "howto", Howto, 0) \in AnyStep /\ Step("loadName", "name", <<>>, 0) \in AnyStep
      BY StepTyped, Contents DEF Operations
    <3> QED BY <3>1
  <2>3. Len(a) = 3 /\ Len(b) = 4 /\ Len(t) = 7
    OBVIOUS
  <2> Len(t) = Len(a) + Len(b)
    BY <2>3
  <2>4. \A i \in 1 .. Len(t) : t[i] = IF i <= Len(a) THEN a[i] ELSE b[i - Len(a)]
    OBVIOUS
  <2> HIDE DEF a, b, t
  <2>5. t = a \o b
    BY <1>1, <2>2, <2>3, <2>4, ConcatIs
  <2> QED BY <2>1, <2>5
<1> HIDE DEF s
<1>3. /\ s \in Seq(AnyStep) /\ Len(s) = 7
      /\ s[1].do = "unmount" /\ s[1].name = "none" /\ s[1].data = <<>> /\ s[1].skip = 0
      /\ s[2].do = "remkfs" /\ s[2].name = "none" /\ s[2].data = <<>> /\ s[2].skip = 1
      /\ s[3].do = "remount" /\ s[3].name = "none" /\ s[3].data = <<>> /\ s[3].skip = 0
      /\ s[4].do = "set" /\ s[4].name = "none" /\ s[4].data = <<>> /\ s[4].skip = 0
      /\ s[5].do = "default" /\ s[5].name = "demo" /\ s[5].data = Demo /\ s[5].skip = 0
      /\ s[6].do = "default" /\ s[6].name = "howto" /\ s[6].data = Howto /\ s[6].skip = 0
      /\ s[7].do = "loadName" /\ s[7].name = "name" /\ s[7].data = <<>> /\ s[7].skip = 0
  BY <1>1, <1>2 DEF Step
<1> HIDE DEF t
<1> QED BY <1>3 DEF s

LEMMA FormatBlankIs ==
    LET s == FormatBlank \o Tail(BootPlan)
    IN /\ s \in Seq(AnyStep) /\ Len(s) = 6
       /\ s[1].do = "mkfs" /\ s[1].name = "none" /\ s[1].data = <<>> /\ s[1].skip = 4
       /\ s[2].do = "mount" /\ s[2].name = "none" /\ s[2].data = <<>> /\ s[2].skip = 3
       /\ s[3].do = "set" /\ s[3].name = "none" /\ s[3].data = <<>> /\ s[3].skip = 0
       /\ s[4].do = "default" /\ s[4].name = "demo" /\ s[4].data = Demo /\ s[4].skip = 0
       /\ s[5].do = "default" /\ s[5].name = "howto" /\ s[5].data = Howto /\ s[5].skip = 0
       /\ s[6].do = "loadName" /\ s[6].name = "name" /\ s[6].data = <<>> /\ s[6].skip = 0
<1> DEFINE s == FormatBlank \o Tail(BootPlan)
            t == <<Step("mkfs", "none", <<>>, 4), Step("mount", "none", <<>>, 3),
                   Step("set", "none", <<>>, 0), Step("default", "demo", Demo, 0),
                   Step("default", "howto", Howto, 0), Step("loadName", "name", <<>>, 0)>>
<1>1. t \in Seq(AnyStep)
  <2>1. Step("mkfs", "none", <<>>, 4) \in AnyStep /\ Step("mount", "none", <<>>, 3) \in AnyStep
        /\ Step("set", "none", <<>>, 0) \in AnyStep /\ Step("default", "demo", Demo, 0) \in AnyStep
        /\ Step("default", "howto", Howto, 0) \in AnyStep /\ Step("loadName", "name", <<>>, 0) \in AnyStep
    BY StepTyped, Contents DEF Operations
  <2> QED BY <2>1
<1>2. s = t
  <2> DEFINE a == <<Step("mkfs", "none", <<>>, 4), Step("mount", "none", <<>>, 3)>>
             b == <<Step("set", "none", <<>>, 0), Step("default", "demo", Demo, 0),
                    Step("default", "howto", Howto, 0), Step("loadName", "name", <<>>, 0)>>
  <2>1. FormatBlank = a /\ Tail(BootPlan) = b
    BY DEF FormatBlank, BootPlan, CreateDefaultFile
  <2>2. a \in Seq(AnyStep) /\ b \in Seq(AnyStep)
    <3>1. Step("mkfs", "none", <<>>, 4) \in AnyStep /\ Step("mount", "none", <<>>, 3) \in AnyStep
          /\ Step("set", "none", <<>>, 0) \in AnyStep /\ Step("default", "demo", Demo, 0) \in AnyStep
          /\ Step("default", "howto", Howto, 0) \in AnyStep /\ Step("loadName", "name", <<>>, 0) \in AnyStep
      BY StepTyped, Contents DEF Operations
    <3> QED BY <3>1
  <2>3. Len(a) = 2 /\ Len(b) = 4 /\ Len(t) = 6
    OBVIOUS
  <2> Len(t) = Len(a) + Len(b)
    BY <2>3
  <2>4. \A i \in 1 .. Len(t) : t[i] = IF i <= Len(a) THEN a[i] ELSE b[i - Len(a)]
    OBVIOUS
  <2> HIDE DEF a, b, t
  <2>5. t = a \o b
    BY <1>1, <2>2, <2>3, <2>4, ConcatIs
  <2> QED BY <2>1, <2>5
<1> HIDE DEF s
<1>3. /\ s \in Seq(AnyStep) /\ Len(s) = 6
      /\ s[1].do = "mkfs" /\ s[1].name = "none" /\ s[1].data = <<>> /\ s[1].skip = 4
      /\ s[2].do = "mount" /\ s[2].name = "none" /\ s[2].data = <<>> /\ s[2].skip = 3
      /\ s[3].do = "set" /\ s[3].name = "none" /\ s[3].data = <<>> /\ s[3].skip = 0
      /\ s[4].do = "default" /\ s[4].name = "demo" /\ s[4].data = Demo /\ s[4].skip = 0
      /\ s[5].do = "default" /\ s[5].name = "howto" /\ s[5].data = Howto /\ s[5].skip = 0
      /\ s[6].do = "loadName" /\ s[6].name = "name" /\ s[6].data = <<>> /\ s[6].skip = 0
  BY <1>1, <1>2 DEF Step
<1> HIDE DEF t
<1> QED BY <1>3 DEF s

LEMMA UploadIs == Upload = <<Upload[1]>> \o <<Upload[2]>>
<1>1. Upload \in Seq(Pieces) /\ Len(Upload) = 2
  BY StorageAssumption DEF Text
<1> DEFINE a == <<Upload[1]>>  b == <<Upload[2]>>
<1>2. a \in Seq(Pieces) /\ b \in Seq(Pieces) /\ Len(a) = 1 /\ Len(b) = 1
  BY <1>1
<1>3. \A i \in 1 .. Len(Upload) : Upload[i] = IF i <= Len(a) THEN a[i] ELSE b[i - Len(a)]
  BY <1>1
<1>4. Len(Upload) = Len(a) + Len(b)
  BY <1>1, <1>2
<1> HIDE DEF a, b
<1>5. Upload = a \o b
  BY <1>1, <1>2, <1>3, <1>4, ConcatIs
<1> QED BY <1>5 DEF a, b

LEMMA WriteFileLaid ==
    ASSUME NEW n \in UserFiles, NEW d \in Text
    PROVE  Laid(WriteFile(n, d))
<1> DEFINE s == WriteFile(n, d)
<1>1. /\ s \in Seq(AnyStep) /\ Len(s) = 4
      /\ s[1].do = "check" /\ s[1].name = "none" /\ s[1].data = <<>> /\ s[1].skip = 3
      /\ s[2].do = "truncate" /\ s[2].name = n /\ s[2].data = d /\ s[2].skip = 2
      /\ s[3].do = "write" /\ s[3].name = n /\ s[3].data = d /\ s[3].skip = 0
      /\ s[4].do = "close" /\ s[4].name = n /\ s[4].data = d /\ s[4].skip = 0
  BY WriteFileIs, Contents
<1> HIDE DEF s
<1> USE DEF Do, Inside, InsideOf, Inner
<1>2. ASSUME NEW i \in 1 .. 4 PROVE HandledAt(s, i)
  BY <1>1, Contents DEF HandledAt, Opening
<1>3. ASSUME NEW i \in 1 .. 4 PROVE ManagedAt(s, i)
  BY <1>1, Contents DEF ManagedAt, Making, Ended, Managing
<1>5. ASSUME NEW i \in 1 .. 4 PROVE WrittenAt(s, i)
  BY <1>1, Contents DEF WrittenAt
<1> QED BY <1>1, <1>2, <1>3, <1>5 DEF Laid, LaidAt, s

LEMMA ReadFileLaid ==
    ASSUME NEW n \in UserFiles
    PROVE  Laid(ReadFile(n))
<1> DEFINE s == ReadFile(n)
<1>1. /\ s \in Seq(AnyStep) /\ Len(s) = 4
      /\ s[1].do = "check" /\ s[1].name = "none" /\ s[1].data = <<>> /\ s[1].skip = 3
      /\ s[2].do = "look" /\ s[2].name = n /\ s[2].data = <<>> /\ s[2].skip = 2
      /\ s[3].do = "read" /\ s[3].name = n /\ s[3].data = <<>> /\ s[3].skip = 0
      /\ s[4].do = "close" /\ s[4].name = n /\ s[4].data = <<>> /\ s[4].skip = 0
  BY ReadFileIs
<1> HIDE DEF s
<1> USE DEF Do, Inside, InsideOf, Inner
<1>2. ASSUME NEW i \in 1 .. 4 PROVE HandledAt(s, i)
  BY <1>1, Contents DEF HandledAt, Opening
<1>3. ASSUME NEW i \in 1 .. 4 PROVE ManagedAt(s, i)
  BY <1>1, Contents DEF ManagedAt, Making, Ended, Managing
<1>5. ASSUME NEW i \in 1 .. 4 PROVE WrittenAt(s, i)
  BY <1>1, Contents DEF WrittenAt
<1> QED BY <1>1, <1>2, <1>3, <1>5 DEF Laid, LaidAt, s

LEMMA ServeFileLaid ==
    ASSUME NEW n \in UserFiles
    PROVE  Laid(ServeFile(n))
<1> DEFINE s == ServeFile(n)
<1>1. /\ s \in Seq(AnyStep) /\ Len(s) = 4
      /\ s[1].do = "look" /\ s[1].name = n /\ s[1].data = <<>> /\ s[1].skip = 3
      /\ s[2].do = "wait" /\ s[2].name = n /\ s[2].data = <<>> /\ s[2].skip = 1
      /\ s[3].do = "read" /\ s[3].name = n /\ s[3].data = <<>> /\ s[3].skip = 0
      /\ s[4].do = "close" /\ s[4].name = n /\ s[4].data = <<>> /\ s[4].skip = 0
  BY ServeFileIs
<1> HIDE DEF s
<1> USE DEF Do, Inside, InsideOf, Inner
<1>2. ASSUME NEW i \in 1 .. 4 PROVE HandledAt(s, i)
  BY <1>1, Contents DEF HandledAt, Opening
<1>3. ASSUME NEW i \in 1 .. 4 PROVE ManagedAt(s, i)
  BY <1>1, Contents DEF ManagedAt, Making, Ended, Managing
<1>5. ASSUME NEW i \in 1 .. 4 PROVE WrittenAt(s, i)
  BY <1>1, Contents DEF WrittenAt
<1> QED BY <1>1, <1>2, <1>3, <1>5 DEF Laid, LaidAt, s

LEMMA UploadFileLaid ==
    ASSUME NEW n \in UserFiles
    PROVE  Laid(UploadFile(n))
<1> DEFINE s == UploadFile(n)
<1>1. /\ s \in Seq(AnyStep) /\ Len(s) = 5
      /\ s[1].do = "truncate" /\ s[1].name = n /\ s[1].data = Upload /\ s[1].skip = 4
      /\ s[2].do = "write" /\ s[2].name = n /\ s[2].data = <<Upload[1]>> /\ s[2].skip = 0
      /\ s[3].do = "wait" /\ s[3].name = n /\ s[3].data = <<>> /\ s[3].skip = 1
      /\ s[4].do = "append" /\ s[4].name = n /\ s[4].data = <<Upload[2]>> /\ s[4].skip = 0
      /\ s[5].do = "close" /\ s[5].name = n /\ s[5].data = Upload /\ s[5].skip = 0
  BY UploadFileIs
<1> HIDE DEF s
<1> USE DEF Do, Inside, InsideOf, Inner
<1>2. ASSUME NEW i \in 1 .. 5 PROVE HandledAt(s, i)
  BY <1>1, Contents DEF HandledAt, Opening
<1>3. ASSUME NEW i \in 1 .. 5 PROVE ManagedAt(s, i)
  BY <1>1, Contents DEF ManagedAt, Making, Ended, Managing
<1>4. Joined(s, 2)
  <2>1. s[2 + 3].data = Upload /\ s[2 + 2].data = <<Upload[2]>> /\ s[2].data = <<Upload[1]>>
    BY <1>1
  <2> QED BY <2>1, UploadIs, Zenon DEF Joined
<1>5. ASSUME NEW i \in 1 .. 5 PROVE WrittenAt(s, i)
  BY <1>1, <1>4, Contents DEF WrittenAt
<1> QED BY <1>1, <1>2, <1>3, <1>5 DEF Laid, LaidAt, s

LEMMA SavedLaid ==
    ASSUME NEW n \in Settings, NEW d \in Text
    PROVE  Laid(Saved(n, d))
<1> DEFINE s == Saved(n, d)
<1>1. /\ s \in Seq(AnyStep) /\ Len(s) = 3
      /\ s[1].do = "open" /\ s[1].name = n /\ s[1].data = d /\ s[1].skip = 2
      /\ s[2].do = "write" /\ s[2].name = n /\ s[2].data = d /\ s[2].skip = 0
      /\ s[3].do = "close" /\ s[3].name = n /\ s[3].data = d /\ s[3].skip = 0
  BY SavedIs, Contents
<1> HIDE DEF s
<1> USE DEF Do, Inside, InsideOf, Inner
<1>2. ASSUME NEW i \in 1 .. 3 PROVE HandledAt(s, i)
  BY <1>1, Contents DEF HandledAt, Opening
<1>3. ASSUME NEW i \in 1 .. 3 PROVE ManagedAt(s, i)
  BY <1>1, Contents DEF ManagedAt, Making, Ended, Managing
<1>5. ASSUME NEW i \in 1 .. 3 PROVE WrittenAt(s, i)
  BY <1>1, Contents DEF WrittenAt
<1> QED BY <1>1, <1>2, <1>3, <1>5 DEF Laid, LaidAt, s

LEMMA DeleteLaid ==
    ASSUME NEW n \in UserFiles
    PROVE  Laid(<<Check(1), Step("unlink", n, <<>>, 0)>>)
<1> DEFINE s == <<Check(1), Step("unlink", n, <<>>, 0)>>
<1>1. /\ s \in Seq(AnyStep) /\ Len(s) = 2
      /\ s[1].do = "check" /\ s[1].name = "none" /\ s[1].data = <<>> /\ s[1].skip = 1
      /\ s[2].do = "unlink" /\ s[2].name = n /\ s[2].data = <<>> /\ s[2].skip = 0
  BY DeleteIs
<1> HIDE DEF s
<1> USE DEF Do, Inside, InsideOf, Inner
<1>2. ASSUME NEW i \in 1 .. 2 PROVE HandledAt(s, i)
  BY <1>1, Contents DEF HandledAt, Opening
<1>3. ASSUME NEW i \in 1 .. 2 PROVE ManagedAt(s, i)
  BY <1>1, Contents DEF ManagedAt, Making, Ended, Managing
<1>5. ASSUME NEW i \in 1 .. 2 PROVE WrittenAt(s, i)
  BY <1>1, Contents DEF WrittenAt
<1> QED BY <1>1, <1>2, <1>3, <1>5 DEF Laid, LaidAt, s

LEMMA MoveLaid ==
    ASSUME NEW n \in UserFiles, NEW m \in UserFiles
    PROVE  Laid(<<Check(1), Step("rename", n, m, 0)>>)
<1> DEFINE s == <<Check(1), Step("rename", n, m, 0)>>
<1>1. /\ s \in Seq(AnyStep) /\ Len(s) = 2
      /\ s[1].do = "check" /\ s[1].name = "none" /\ s[1].data = <<>> /\ s[1].skip = 1
      /\ s[2].do = "rename" /\ s[2].name = n /\ s[2].data = m /\ s[2].skip = 0
  BY MoveIs
<1> HIDE DEF s
<1> USE DEF Do, Inside, InsideOf, Inner
<1>2. ASSUME NEW i \in 1 .. 2 PROVE HandledAt(s, i)
  BY <1>1, Contents DEF HandledAt, Opening
<1>3. ASSUME NEW i \in 1 .. 2 PROVE ManagedAt(s, i)
  BY <1>1, Contents DEF ManagedAt, Making, Ended, Managing
<1>5. ASSUME NEW i \in 1 .. 2 PROVE WrittenAt(s, i)
  BY <1>1, Contents DEF WrittenAt
<1> QED BY <1>1, <1>2, <1>3, <1>5 DEF Laid, LaidAt, s

LEMMA ForgottenLaid ==
    Laid(Forgotten)
<1> DEFINE s == Forgotten
<1>1. /\ s \in Seq(AnyStep) /\ Len(s) = 5
      /\ s[1].do = "unlink" /\ s[1].name = "sta" /\ s[1].data = <<>> /\ s[1].skip = 0
      /\ s[2].do = "wait" /\ s[2].name = "none" /\ s[2].data = <<>> /\ s[2].skip = 3
      /\ s[3].do = "open" /\ s[3].name = "mode" /\ s[3].data = <<"AP">> /\ s[3].skip = 2
      /\ s[4].do = "write" /\ s[4].name = "mode" /\ s[4].data = <<"AP">> /\ s[4].skip = 0
      /\ s[5].do = "close" /\ s[5].name = "mode" /\ s[5].data = <<"AP">> /\ s[5].skip = 0
  BY ForgottenIs
<1> HIDE DEF s
<1> USE DEF Do, Inside, InsideOf, Inner
<1>2. ASSUME NEW i \in 1 .. 5 PROVE HandledAt(s, i)
  BY <1>1, Contents DEF HandledAt, Opening
<1>3. ASSUME NEW i \in 1 .. 5 PROVE ManagedAt(s, i)
  BY <1>1, Contents DEF ManagedAt, Making, Ended, Managing
<1>5. ASSUME NEW i \in 1 .. 5 PROVE WrittenAt(s, i)
  <2>1. CASE i = 1
    BY <1>1, <2>1, Contents DEF WrittenAt
  <2>2. CASE i = 2
    BY <1>1, <2>2, Contents DEF WrittenAt
  <2>3. CASE i = 3
    BY <1>1, <2>3, Contents DEF WrittenAt
  <2>4. CASE i = 4
    BY <1>1, <2>4, Contents DEF WrittenAt
  <2>5. CASE i = 5
    BY <1>1, <2>5, Contents DEF WrittenAt
  <2> QED BY <2>1, <2>2, <2>3, <2>4, <2>5
<1> QED BY <1>1, <1>2, <1>3, <1>5 DEF Laid, LaidAt, s

LEMMA FormatPlanLaid ==
    Laid(FormatPlan) /\ Defaulted(FormatPlan)
<1> DEFINE s == FormatPlan
<1>1. /\ s \in Seq(AnyStep) /\ Len(s) = 6
      /\ s[1].do = "unmount" /\ s[1].name = "none" /\ s[1].data = <<>> /\ s[1].skip = 0
      /\ s[2].do = "mkfs" /\ s[2].name = "none" /\ s[2].data = <<>> /\ s[2].skip = 4
      /\ s[3].do = "mount" /\ s[3].name = "none" /\ s[3].data = <<>> /\ s[3].skip = 3
      /\ s[4].do = "set" /\ s[4].name = "none" /\ s[4].data = <<>> /\ s[4].skip = 0
      /\ s[5].do = "default" /\ s[5].name = "demo" /\ s[5].data = Demo /\ s[5].skip = 0
      /\ s[6].do = "default" /\ s[6].name = "howto" /\ s[6].data = Howto /\ s[6].skip = 0
  BY FormatPlanIs
<1> HIDE DEF s
<1> USE DEF Do, Inside, InsideOf, Inner
<1>2. ASSUME NEW i \in 1 .. 6 PROVE HandledAt(s, i)
  BY <1>1, Contents DEF HandledAt, Opening
<1>3. ASSUME NEW i \in 1 .. 6 PROVE ManagedAt(s, i)
  BY <1>1, Contents DEF ManagedAt, Making, Ended, Managing
<1>5. ASSUME NEW i \in 1 .. 6 PROVE WrittenAt(s, i)
  BY <1>1, Contents DEF WrittenAt
<1>6. ASSUME NEW i \in 1 .. 6 PROVE DefaultedAt(s, i)
  BY <1>1, Contents DEF DefaultedAt, Making, Ended, Managing, UserFiles, Default
<1> QED BY <1>1, <1>2, <1>3, <1>5, <1>6 DEF Laid, LaidAt, s, Defaulted

LEMMA BootPlanLaid ==
    Laid(BootPlan) /\ Defaulted(BootPlan)
<1> DEFINE s == BootPlan
<1>1. /\ s \in Seq(AnyStep) /\ Len(s) = 5
      /\ s[1].do = "init" /\ s[1].name = "none" /\ s[1].data = <<>> /\ s[1].skip = 0
      /\ s[2].do = "set" /\ s[2].name = "none" /\ s[2].data = <<>> /\ s[2].skip = 0
      /\ s[3].do = "default" /\ s[3].name = "demo" /\ s[3].data = Demo /\ s[3].skip = 0
      /\ s[4].do = "default" /\ s[4].name = "howto" /\ s[4].data = Howto /\ s[4].skip = 0
      /\ s[5].do = "loadName" /\ s[5].name = "name" /\ s[5].data = <<>> /\ s[5].skip = 0
  BY BootPlanIs
<1>0. s = BootPlan
  OBVIOUS
<1> HIDE DEF s
<1> USE DEF Do, Inside, InsideOf, Inner
<1>2. ASSUME NEW i \in 1 .. 5 PROVE HandledAt(s, i)
  BY <1>1, <1>0, Contents DEF HandledAt, Opening
<1>3. ASSUME NEW i \in 1 .. 5 PROVE ManagedAt(s, i)
  BY <1>1, <1>0, Contents DEF ManagedAt, Making, Ended, Managing
<1>5. ASSUME NEW i \in 1 .. 5 PROVE WrittenAt(s, i)
  BY <1>1, <1>0, Contents DEF WrittenAt
<1>6. ASSUME NEW i \in 1 .. 5 PROVE DefaultedAt(s, i)
  BY <1>1, <1>0, Contents DEF DefaultedAt, Making, Ended, Managing, UserFiles, Default
<1> QED BY <1>1, <1>2, <1>3, <1>5, <1>6 DEF Laid, LaidAt, s, Defaulted

LEMMA ReformatLaid ==
    Laid(Reformat \o Tail(BootPlan)) /\ Defaulted(Reformat \o Tail(BootPlan))
<1> DEFINE s == Reformat \o Tail(BootPlan)
<1>1. /\ s \in Seq(AnyStep) /\ Len(s) = 7
      /\ s[1].do = "unmount" /\ s[1].name = "none" /\ s[1].data = <<>> /\ s[1].skip = 0
      /\ s[2].do = "remkfs" /\ s[2].name = "none" /\ s[2].data = <<>> /\ s[2].skip = 1
      /\ s[3].do = "remount" /\ s[3].name = "none" /\ s[3].data = <<>> /\ s[3].skip = 0
      /\ s[4].do = "set" /\ s[4].name = "none" /\ s[4].data = <<>> /\ s[4].skip = 0
      /\ s[5].do = "default" /\ s[5].name = "demo" /\ s[5].data = Demo /\ s[5].skip = 0
      /\ s[6].do = "default" /\ s[6].name = "howto" /\ s[6].data = Howto /\ s[6].skip = 0
      /\ s[7].do = "loadName" /\ s[7].name = "name" /\ s[7].data = <<>> /\ s[7].skip = 0
  BY ReformatIs
<1> HIDE DEF s
<1> USE DEF Do, Inside, InsideOf, Inner
<1>2. ASSUME NEW i \in 1 .. 7 PROVE HandledAt(s, i)
  BY <1>1, Contents DEF HandledAt, Opening
<1>3. ASSUME NEW i \in 1 .. 7 PROVE ManagedAt(s, i)
  BY <1>1, Contents DEF ManagedAt, Making, Ended, Managing
<1>5. ASSUME NEW i \in 1 .. 7 PROVE WrittenAt(s, i)
  BY <1>1, Contents DEF WrittenAt
<1>6. ASSUME NEW i \in 1 .. 7 PROVE DefaultedAt(s, i)
  BY <1>1, Contents DEF DefaultedAt, Making, Ended, Managing, UserFiles, Default
<1> QED BY <1>1, <1>2, <1>3, <1>5, <1>6 DEF Laid, LaidAt, s, Defaulted

LEMMA FormatBlankLaid ==
    Laid(FormatBlank \o Tail(BootPlan)) /\ Defaulted(FormatBlank \o Tail(BootPlan))
<1> DEFINE s == FormatBlank \o Tail(BootPlan)
<1>1. /\ s \in Seq(AnyStep) /\ Len(s) = 6
      /\ s[1].do = "mkfs" /\ s[1].name = "none" /\ s[1].data = <<>> /\ s[1].skip = 4
      /\ s[2].do = "mount" /\ s[2].name = "none" /\ s[2].data = <<>> /\ s[2].skip = 3
      /\ s[3].do = "set" /\ s[3].name = "none" /\ s[3].data = <<>> /\ s[3].skip = 0
      /\ s[4].do = "default" /\ s[4].name = "demo" /\ s[4].data = Demo /\ s[4].skip = 0
      /\ s[5].do = "default" /\ s[5].name = "howto" /\ s[5].data = Howto /\ s[5].skip = 0
      /\ s[6].do = "loadName" /\ s[6].name = "name" /\ s[6].data = <<>> /\ s[6].skip = 0
  BY FormatBlankIs
<1> HIDE DEF s
<1> USE DEF Do, Inside, InsideOf, Inner
<1>2. ASSUME NEW i \in 1 .. 6 PROVE HandledAt(s, i)
  BY <1>1, Contents DEF HandledAt, Opening
<1>3. ASSUME NEW i \in 1 .. 6 PROVE ManagedAt(s, i)
  BY <1>1, Contents DEF ManagedAt, Making, Ended, Managing
<1>5. ASSUME NEW i \in 1 .. 6 PROVE WrittenAt(s, i)
  BY <1>1, Contents DEF WrittenAt
<1>6. ASSUME NEW i \in 1 .. 6 PROVE DefaultedAt(s, i)
  BY <1>1, Contents DEF DefaultedAt, Making, Ended, Managing, UserFiles, Default
<1> QED BY <1>1, <1>2, <1>3, <1>5, <1>6 DEF Laid, LaidAt, s, Defaulted
-----------------------------------------------------------------------------
(* A plan in front of what is left of another. *)

LEMMA ConcatSteps ==
    ASSUME NEW s \in Seq(AnyStep), NEW t \in Seq(AnyStep)
    PROVE  /\ s \o t \in Seq(AnyStep) /\ Len(s \o t) = Len(s) + Len(t) /\ Len(s) \in Nat /\ Len(t) \in Nat
           /\ \A i \in 1 .. Len(s) : (s \o t)[i] = s[i]
           /\ \A i \in 1 .. Len(t) : (s \o t)[Len(s) + i] = t[i]
OBVIOUS

LEMMA ConcatLast ==
    ASSUME NEW s \in Seq(AnyStep), NEW t \in Seq(AnyStep) PROVE Rest(s \o t, Len(s) + 1) = t
<1> DEFINE r == s \o t
<1>1. /\ r \in Seq(AnyStep) /\ Len(r) = Len(s) + Len(t) /\ Len(s) \in Nat /\ Len(t) \in Nat
      /\ \A i \in 1 .. Len(t) : r[Len(s) + i] = t[i]
  BY ConcatSteps
<1> HIDE DEF r
<1>2. /\ Rest(r, Len(s) + 1) \in Seq(AnyStep) /\ Len(Rest(r, Len(s) + 1)) = Len(t)
      /\ \A i \in 1 .. Len(t) : Rest(r, Len(s) + 1)[i] = r[Len(s) + i]
  <2> DEFINE k == Len(s) + 1  e == Rest(r, k)
  <2>1. k \in Nat \ {0}
    BY <1>1
  <2>2. /\ e \in Seq(AnyStep) /\ Len(e) = IF k <= Len(r) THEN Len(r) + 1 - k ELSE 0
        /\ \A i \in 1 .. Len(e) : e[i] = r[i + k - 1]
    BY <2>1, <1>1, RestIs
  <2> HIDE DEF e
  <2>3. Len(e) = Len(t)
    BY <2>2, <1>1
  <2>4. \A i \in 1 .. Len(t) : i + k - 1 = Len(s) + i
    BY <1>1
  <2> QED BY <2>2, <2>3, <2>4 DEF e
<1> QED BY <1>1, <1>2, SeqEqual DEF r

\* A default file is written, and then come the steps that were left.
LEMMA WriteThen ==
    ASSUME NEW n \in UserFiles, NEW d \in Text, NEW t \in Seq(AnyStep)
    PROVE  LET r == WriteFile(n, d) \o t
           IN /\ r \in Seq(AnyStep) /\ Len(r) = Len(t) + 4 /\ Len(t) \in Nat
              /\ r[1].do = "check" /\ r[1].name = "none" /\ r[1].data = <<>> /\ r[1].skip = 3
              /\ r[2].do = "truncate" /\ r[2].name = n /\ r[2].data = d /\ r[2].skip = 2
              /\ r[3].do = "write" /\ r[3].name = n /\ r[3].data = d /\ r[3].skip = 0
              /\ r[4].do = "close" /\ r[4].name = n /\ r[4].data = d /\ r[4].skip = 0
              /\ Do(r, 5) = Do(t, 1) /\ (Inside(r, 5) <=> Inside(t, 1))
              /\ Rest(r, 5) = t
              /\ \A i \in 5 .. Len(r) : i - 4 \in 1 .. Len(t) /\ r[i] = t[i - 4]
<1> DEFINE s == WriteFile(n, d)  r == s \o t
<1>1. /\ s \in Seq(AnyStep) /\ Len(s) = 4
      /\ s[1].do = "check" /\ s[1].name = "none" /\ s[1].data = <<>> /\ s[1].skip = 3
      /\ s[2].do = "truncate" /\ s[2].name = n /\ s[2].data = d /\ s[2].skip = 2
      /\ s[3].do = "write" /\ s[3].name = n /\ s[3].data = d /\ s[3].skip = 0
      /\ s[4].do = "close" /\ s[4].name = n /\ s[4].data = d /\ s[4].skip = 0
  BY WriteFileIs
<1> HIDE DEF s
<1>2. /\ r \in Seq(AnyStep) /\ Len(r) = Len(t) + 4 /\ Len(t) \in Nat
      /\ \A i \in 1 .. 4 : r[i] = s[i]
      /\ \A i \in 1 .. Len(t) : r[4 + i] = t[i]
  <2>1. /\ s \o t \in Seq(AnyStep) /\ Len(s \o t) = Len(s) + Len(t) /\ Len(t) \in Nat
        /\ \A i \in 1 .. Len(s) : (s \o t)[i] = s[i]
        /\ \A i \in 1 .. Len(t) : (s \o t)[Len(s) + i] = t[i]
    BY <1>1, ConcatSteps
  <2>2. Len(s) + Len(t) = Len(t) + 4
    BY <1>1, <2>1
  <2> QED BY <1>1, <2>1, <2>2
<1>3. Rest(r, 5) = t
  <2>1. Rest(s \o t, Len(s) + 1) = t
    BY <1>1, ConcatLast
  <2> QED BY <1>1, <2>1
<1> HIDE DEF r
<1>4. Do(Rest(r, 5), 1) = Do(r, 1 + 5 - 1) /\ (Inside(Rest(r, 5), 1) <=> Inside(r, 1 + 5 - 1))
  BY <1>2, RestSteps
<1>5. Do(r, 5) = Do(t, 1) /\ (Inside(r, 5) <=> Inside(t, 1))
  BY <1>3, <1>4
<1>6. \A i \in 5 .. Len(r) : i - 4 \in 1 .. Len(t) /\ r[i] = t[i - 4]
  <2> SUFFICES ASSUME NEW i \in 5 .. Len(r) PROVE i - 4 \in 1 .. Len(t) /\ r[i] = t[i - 4]
    OBVIOUS
  <2>1. i - 4 \in 1 .. Len(t) /\ 4 + (i - 4) = i
    BY <1>2
  <2> QED BY <2>1, <1>2
<1>7. r[1] = s[1] /\ r[2] = s[2] /\ r[3] = s[3] /\ r[4] = s[4]
  BY <1>2
<1> QED BY <1>1, <1>2, <1>3, <1>5, <1>6, <1>7 DEF r, s

LEMMA ThenLaid ==
    ASSUME NEW n \in UserFiles, NEW d \in Text, NEW t \in Seq(AnyStep), Laid(t),
           Do(t, 1) \in Ended, \A i \in 1 .. Len(t) : t[i].do # "init"
    PROVE  Laid(WriteFile(n, d) \o t)
<1> DEFINE r == WriteFile(n, d) \o t
<1>1. /\ r \in Seq(AnyStep) /\ Len(r) = Len(t) + 4 /\ Len(t) \in Nat
      /\ r[1].do = "check" /\ r[1].name = "none" /\ r[1].data = <<>> /\ r[1].skip = 3
      /\ r[2].do = "truncate" /\ r[2].name = n /\ r[2].data = d /\ r[2].skip = 2
      /\ r[3].do = "write" /\ r[3].name = n /\ r[3].data = d /\ r[3].skip = 0
      /\ r[4].do = "close" /\ r[4].name = n /\ r[4].data = d /\ r[4].skip = 0
      /\ Do(r, 5) = Do(t, 1) /\ (Inside(r, 5) <=> Inside(t, 1))
      /\ Rest(r, 5) = t
      /\ \A i \in 5 .. Len(r) : i - 4 \in 1 .. Len(t) /\ r[i] = t[i - 4]
  BY WriteThen
<1> HIDE DEF r
<1>2. ~Inside(r, 5) /\ Do(r, 5) \in Ended
  BY <1>1 DEF Ended, Do, Inside, Inner
<1>3. /\ Do(r, 2) = "truncate" /\ Do(r, 3) = "write" /\ Do(r, 4) = "close"
      /\ ~Inside(r, 2) /\ InsideOf(r, 3, n) /\ InsideOf(r, 4, n)
  BY <1>1 DEF Do, Inside, InsideOf, Inner
<1>4. ASSUME NEW i \in 1 .. 4 PROVE LaidAt(r, i)
  <2>1. HandledAt(r, i)
    BY <1>1, <1>2, <1>3 DEF HandledAt, Opening, Inner
  <2>2. ManagedAt(r, i)
    <3>1. "none" \notin UserFiles
      BY DEF UserFiles
    <3> QED BY <1>1, <1>2, <1>3, <3>1 DEF ManagedAt, Making, Ended, Managing
  <2>3. WrittenAt(r, i)
    <3>1. Do(r, 5) \notin {"rename", "check"}
      BY <1>2 DEF Ended
    <3> QED BY <1>1, <1>3, <3>1, Contents DEF WrittenAt
  <2> QED BY <2>1, <2>2, <2>3 DEF LaidAt
<1>5. ASSUME NEW i \in 5 .. Len(r) PROVE LaidAt(r, i)
  <2> DEFINE j == i - 4
  <2>1. j \in 1 .. Len(Rest(r, 5)) /\ j + 5 - 1 = i /\ LaidAt(t, j) /\ r[i] = t[j] /\ t[j].do # "init"
    BY <1>1 DEF Laid
  <2> HIDE DEF j
  <2>2. /\ t[j].skip \in Nat
        /\ \A e \in {1, 2, 3} :
              /\ Inside(t, j + e) <=> Inside(r, i + e)
              /\ \A m : InsideOf(t, j + e, m) <=> InsideOf(r, i + e, m)
              /\ Do(t, j + e) = Do(r, i + e)
              /\ Do(r, i + e) # "end" => t[j + e] = r[i + e]
        /\ LET e == t[j].skip
           IN /\ Inside(t, j + 1 + e) <=> Inside(r, i + 1 + e)
              /\ \A m : InsideOf(t, j + 1 + e, m) <=> InsideOf(r, i + 1 + e, m)
              /\ Do(t, j + 1 + e) = Do(r, i + 1 + e)
    <3> DEFINE k == j + 5 - 1
    <3>1. /\ t[j].skip \in Nat
          /\ \A e \in {1, 2, 3} :
                /\ Inside(t, j + e) <=> Inside(r, k + e)
                /\ \A m : InsideOf(t, j + e, m) <=> InsideOf(r, k + e, m)
                /\ Do(t, j + e) = Do(r, k + e)
                /\ Do(r, k + e) # "end" => t[j + e] = r[k + e]
          /\ LET e == t[j].skip
             IN /\ Inside(t, j + 1 + e) <=> Inside(r, k + 1 + e)
                /\ \A m : InsideOf(t, j + 1 + e, m) <=> InsideOf(r, k + 1 + e, m)
                /\ Do(t, j + 1 + e) = Do(r, k + 1 + e)
      <4>1. 5 \in Nat \ {0} /\ Rest(r, 5) = t /\ j \in 1 .. Len(Rest(r, 5))
        BY <1>1, <2>1
      <4> DEFINE u == Rest(r, 5)
      <4>2. /\ u[j].skip \in Nat
            /\ \A e \in {1, 2, 3} :
                  /\ Inside(u, j + e) <=> Inside(r, k + e)
                  /\ \A m : InsideOf(u, j + e, m) <=> InsideOf(r, k + e, m)
                  /\ Do(u, j + e) = Do(r, k + e)
                  /\ Do(r, k + e) # "end" => u[j + e] = r[k + e]
            /\ LET e == u[j].skip
               IN /\ Inside(u, j + 1 + e) <=> Inside(r, k + 1 + e)
                  /\ \A m : InsideOf(u, j + 1 + e, m) <=> InsideOf(r, k + 1 + e, m)
                  /\ Do(u, j + 1 + e) = Do(r, k + 1 + e)
        BY <1>1, <4>1, RestAt, Zenon
      <4>3. u = t
        BY <4>1
      <4> HIDE DEF u
      <4> QED BY <4>2, <4>3
    <3>2. k = i
      BY <2>1
    <3> QED BY <3>1, <3>2
  <2>3. HandledAt(r, i)
    BY <2>1, <2>2 DEF LaidAt, HandledAt
  <2>4. ManagedAt(r, i)
    BY <2>1, <2>2 DEF LaidAt, ManagedAt
  <2>5. WrittenAt(r, i)
    BY <2>1, <2>2 DEF LaidAt, WrittenAt, Joined
  <2> QED BY <2>3, <2>4, <2>5 DEF LaidAt
<1> QED BY <1>1, <1>4, <1>5 DEF Laid, r

LEMMA ThenDefaulted ==
    ASSUME NEW n \in UserFiles, NEW t \in Seq(AnyStep), Laid(t), Defaulted(t),
           \A i \in 1 .. Len(t) : t[i].do = "default" => t[i].name # n
    PROVE  Defaulted(WriteFile(n, Default[n]) \o t)
<1> DEFINE d == Default[n]  r == WriteFile(n, d) \o t
<1>0. d \in Text
  BY Contents DEF Default
<1> HIDE DEF d
<1>1. /\ r \in Seq(AnyStep) /\ Len(r) = Len(t) + 4 /\ Len(t) \in Nat
      /\ r[1].do = "check" /\ r[1].name = "none" /\ r[1].data = <<>> /\ r[1].skip = 3
      /\ r[2].do = "truncate" /\ r[2].name = n /\ r[2].data = d /\ r[2].skip = 2
      /\ r[3].do = "write" /\ r[3].name = n /\ r[3].data = d /\ r[3].skip = 0
      /\ r[4].do = "close" /\ r[4].name = n /\ r[4].data = d /\ r[4].skip = 0
      /\ Do(r, 5) = Do(t, 1) /\ (Inside(r, 5) <=> Inside(t, 1))
      /\ Rest(r, 5) = t
      /\ \A i \in 5 .. Len(r) : i - 4 \in 1 .. Len(t) /\ r[i] = t[i - 4]
  BY <1>0, WriteThen
<1> HIDE DEF r
<1>2. \A i \in 5 .. Len(r) : r[i].do = "default" => r[i].name # n /\ r[i].name # "none"
  <2> SUFFICES ASSUME NEW i \in 5 .. Len(r), r[i].do = "default" PROVE r[i].name # n /\ r[i].name # "none"
    OBVIOUS
  <2>1. ManagedAt(t, i - 4)
    BY <1>1 DEF Laid, LaidAt
  <2>2. r[i].name \in UserFiles
    BY <1>1, <2>1 DEF ManagedAt
  <2> QED BY <1>1, <2>2, Contents
<1>3. ASSUME NEW i \in 1 .. 4, NEW j \in i + 1 .. Len(r), r[j].do = "default" PROVE r[j].name # r[i].name
  <2>1. j \in 5 .. Len(r)
    BY <1>1, <1>3
  <2> QED BY <1>1, <1>2, <1>3, <2>1
<1>4. ASSUME NEW i \in 1 .. 4 PROVE DefaultedAt(r, i)
  <2>1. Do(r, 4) = "close"
    BY <1>1 DEF Do
  <2>2. r[i].name \in UserFiles => r[i].data = Default[r[i].name]
    BY <1>1, Contents DEF d
  <2>3. r[i].do \in {"check", "truncate", "write", "close"} /\ (r[i].do = "write" => i + 1 = 4)
    BY <1>1
  <2>4. r[i].do \notin Making
    BY <2>3 DEF Making
  <2> QED BY <1>3, <2>1, <2>2, <2>3, <2>4 DEF DefaultedAt
<1>5. ASSUME NEW i \in 5 .. Len(r) PROVE DefaultedAt(r, i)
  <2>1. DefaultedAt(t, i - 4) /\ i - 4 \in 1 .. Len(t) /\ r[i] = t[i - 4]
    BY <1>1 DEF Defaulted
  <2>2. ASSUME NEW j \in (i - 4) + 1 .. Len(t) PROVE j + 4 \in i + 1 .. Len(r) /\ r[j + 4] = t[j]
    <3>1. j + 4 \in 5 .. Len(r) /\ (j + 4) - 4 = j /\ j + 4 \in i + 1 .. Len(r)
      BY <1>1
    <3> QED BY <1>1, <3>1
  <2>3. ASSUME NEW j \in i + 1 .. Len(r) PROVE j - 4 \in (i - 4) + 1 .. Len(t) /\ r[j] = t[j - 4]
    BY <1>1
  <2>4. Do(t, (i - 4) + 1) = Do(r, i + 1)
    <3>1. i - 4 \in 1 .. Len(Rest(r, 5)) /\ (i - 4) + 5 - 1 = i
      BY <1>1
    <3>2. LET k == (i - 4) + 5 - 1 IN Do(Rest(r, 5), (i - 4) + 1) = Do(r, k + 1)
      BY <1>1, <3>1, RestAt
    <3> QED BY <1>1, <3>1, <3>2
  <2>5. r[i].do \in Making =>
          \A m \in UserFiles : \E j \in i + 1 .. Len(r) : r[j].do = "default" /\ r[j].name = m
    <3> SUFFICES ASSUME r[i].do \in Making, NEW m \in UserFiles
                 PROVE  \E j \in i + 1 .. Len(r) : r[j].do = "default" /\ r[j].name = m
      OBVIOUS
    <3>1. PICK j \in (i - 4) + 1 .. Len(t) : t[j].do = "default" /\ t[j].name = m
      BY <2>1 DEF DefaultedAt
    <3> QED BY <2>2, <3>1
  <2>6. \A j \in i + 1 .. Len(r) : r[j].do = "default" => r[j].name # r[i].name
    BY <2>1, <2>3 DEF DefaultedAt
  <2> QED BY <2>1, <2>4, <2>5, <2>6 DEF DefaultedAt
<1> QED BY <1>1, <1>4, <1>5 DEF Defaulted, r, d

-----------------------------------------------------------------------------
(* The shapes of a step. *)

LEMMA CallTyped ==
    ASSUME NEW thr \in [Threads -> AnyCall], NEW t \in Threads
    PROVE  /\ thr[t] \in AnyCall /\ thr[t].todo \in Seq(AnyStep) /\ thr[t].file \in Handles
           /\ thr[t].goal \in [Files -> SUBSET Content] /\ thr[t].alone \in BOOLEAN
              /\ thr[t].clean \in BOOLEAN
BY DEF AnyCall

LEMMA NowIs ==
    ASSUME TypeOK, NEW t \in Threads, th[t].todo # <<>>
    PROVE  /\ Now(t) = th[t].todo[1] /\ Now(t) \in AnyStep /\ Now(t).do = Do(th[t].todo, 1)
           /\ 1 \in 1 .. Len(th[t].todo) /\ Len(th[t].todo) \in Nat
           /\ Now(t).do \in Operations /\ Now(t).name \in Files \cup {"none"} /\ Now(t).skip \in Nat
           /\ Now(t).data \in Text \cup Files
<1> DEFINE s == th[t].todo
<1>1. s \in Seq(AnyStep) /\ s # <<>>
  BY CallTyped DEF TypeOK
<1> HIDE DEF s
<1>2. Head(s) = s[1] /\ Head(s) \in AnyStep /\ 1 \in 1 .. Len(s) /\ Len(s) \in Nat
  BY <1>1
<1>3. s[1].do \in Operations /\ s[1].name \in Files \cup {"none"} /\ s[1].skip \in Nat
      /\ s[1].data \in Text \cup Files
  BY <1>2 DEF AnyStep
<1> QED BY <1>2, <1>3 DEF Now, Do, s

\* The calls of the other threads go on as they were.
SameBut(thr, t) == \A u \in Threads \ {t} : thr[u] = th[u]

LEMMA DoneIs ==
    ASSUME TypeOK, NEW t \in Threads, NEW f \in Handles, th[t].todo # <<>>
    PROVE  LET d == Done(t, f)
           IN /\ d \in [Threads -> AnyCall] /\ SameBut(d, t)
              /\ d[t].op = th[t].op /\ d[t].todo = Rest(th[t].todo, 2) /\ d[t].file = f
              /\ d[t].goal = th[t].goal /\ d[t].alone = th[t].alone /\ d[t].clean = th[t].clean
<1> DEFINE r == [th[t] EXCEPT !.todo = Tail(@), !.file = f]
<1>1. th[t] \in AnyCall /\ th[t].todo \in Seq(AnyStep) /\ th \in [Threads -> AnyCall]
  BY CallTyped DEF TypeOK
<1>2. Tail(th[t].todo) = Rest(th[t].todo, 2) /\ Tail(th[t].todo) \in Seq(AnyStep)
  <2>1. Tail(th[t].todo) = Rest(th[t].todo, 2)
    BY <1>1, TailIsRest
  <2> QED BY <1>1, <2>1
<1>3. /\ r \in AnyCall
      /\ r.op = th[t].op /\ r.todo = Tail(th[t].todo) /\ r.file = f
      /\ r.goal = th[t].goal /\ r.alone = th[t].alone /\ r.clean = th[t].clean
  BY <1>1, <1>2 DEF AnyCall
<1>4. Done(t, f) = [th EXCEPT ![t] = r]
  BY DEF Done
<1> HIDE DEF r
<1>5. /\ Done(t, f) \in [Threads -> AnyCall] /\ Done(t, f)[t] = r
      /\ \A u \in Threads \ {t} : Done(t, f)[u] = th[u]
  BY <1>1, <1>3, <1>4
<1> QED BY <1>2, <1>3, <1>5 DEF SameBut

LEMMA FailedIs ==
    ASSUME TypeOK, NEW t \in Threads, NEW f \in Handles, th[t].todo # <<>>
    PROVE  LET d == Failed(t, f)
           IN /\ d \in [Threads -> AnyCall] /\ SameBut(d, t)
              /\ d[t].op = th[t].op /\ d[t].todo = Rest(th[t].todo, 2 + Now(t).skip) /\ d[t].file = f
              /\ d[t].goal = th[t].goal /\ d[t].alone = th[t].alone /\ d[t].clean = FALSE
<1> DEFINE k == 2 + Now(t).skip
           r == [th[t] EXCEPT !.todo = SubSeq(@, k, Len(@)), !.file = f, !.clean = FALSE]
<1>1. th[t] \in AnyCall /\ th[t].todo \in Seq(AnyStep) /\ th \in [Threads -> AnyCall]
  BY CallTyped DEF TypeOK
<1>2. k \in Nat \ {0}
  BY NowIs
<1> HIDE DEF k
<1>3. Rest(th[t].todo, k) \in Seq(AnyStep) /\ SubSeq(th[t].todo, k, Len(th[t].todo)) = Rest(th[t].todo, k)
  BY <1>1, <1>2, RestIs DEF Rest
<1>4. /\ r \in AnyCall
      /\ r.op = th[t].op /\ r.todo = Rest(th[t].todo, k) /\ r.file = f
      /\ r.goal = th[t].goal /\ r.alone = th[t].alone /\ r.clean = FALSE
  BY <1>1, <1>3 DEF AnyCall
<1>5. Failed(t, f) = [th EXCEPT ![t] = r]
  BY DEF Failed, k
<1> HIDE DEF r
<1>6. /\ Failed(t, f) \in [Threads -> AnyCall] /\ Failed(t, f)[t] = r
      /\ \A u \in Threads \ {t} : Failed(t, f)[u] = th[u]
  BY <1>1, <1>4, <1>5
<1> QED BY <1>4, <1>6 DEF SameBut, k

LEMMA InsteadTyped ==
    ASSUME NEW g \in [Files -> SUBSET Content], NEW h \in [Files -> SUBSET Content]
    PROVE  Instead(g, h) \in [Files -> SUBSET Content]
           /\ \A n \in Files : Instead(g, h)[n] = IF g[n] # {} THEN g[n] ELSE h[n]
BY DEF Instead

LEMMA ExtendedIs ==
    ASSUME TypeOK, NEW t \in Threads, NEW p \in Seq(AnyStep), NEW g \in [Files -> SUBSET Content],
           th[t].todo # <<>>
    PROVE  LET d == Extended(t, p, g)
           IN /\ d \in [Threads -> AnyCall] /\ SameBut(d, t)
              /\ d[t].op = th[t].op /\ d[t].todo = p \o Rest(th[t].todo, 2) /\ d[t].file = th[t].file
              /\ d[t].goal = Instead(g, th[t].goal) /\ d[t].alone = th[t].alone /\ d[t].clean = th[t].clean
<1> DEFINE r == [th[t] EXCEPT !.todo = p \o Tail(@), !.goal = Instead(g, @)]
<1>1. th[t] \in AnyCall /\ th[t].todo \in Seq(AnyStep) /\ th \in [Threads -> AnyCall]
      /\ th[t].goal \in [Files -> SUBSET Content]
  BY CallTyped DEF TypeOK
<1>2. Tail(th[t].todo) = Rest(th[t].todo, 2) /\ Tail(th[t].todo) \in Seq(AnyStep)
  <2>1. Tail(th[t].todo) = Rest(th[t].todo, 2)
    BY <1>1, TailIsRest
  <2> QED BY <1>1, <2>1
<1>3. p \o Tail(th[t].todo) \in Seq(AnyStep)
  BY <1>2
<1>4. Instead(g, th[t].goal) \in [Files -> SUBSET Content]
  BY <1>1, InsteadTyped
<1>5. /\ r \in AnyCall
      /\ r.op = th[t].op /\ r.todo = p \o Tail(th[t].todo) /\ r.file = th[t].file
      /\ r.goal = Instead(g, th[t].goal) /\ r.alone = th[t].alone /\ r.clean = th[t].clean
  BY <1>1, <1>3, <1>4 DEF AnyCall
<1>6. Extended(t, p, g) = [th EXCEPT ![t] = r]
  BY DEF Extended
<1> HIDE DEF r
<1>7. /\ Extended(t, p, g) \in [Threads -> AnyCall] /\ Extended(t, p, g)[t] = r
      /\ \A u \in Threads \ {t} : Extended(t, p, g)[u] = th[u]
  BY <1>1, <1>5, <1>6
<1> QED BY <1>2, <1>5, <1>7 DEF SameBut

\* All but the file of a call.
SameCall(c, d) == /\ c.op = d.op /\ c.todo = d.todo /\ c.goal = d.goal
                  /\ c.alone = d.alone /\ c.clean = d.clean

LEMMA FileOf ==
    ASSUME NEW c \in AnyCall, NEW f \in Handles
    PROVE  [c EXCEPT !.file = f] \in AnyCall /\ [c EXCEPT !.file = f].file = f
           /\ SameCall([c EXCEPT !.file = f], c)
BY DEF AnyCall, SameCall

LEMMA LostIs ==
    ASSUME NEW f \in Handles, NEW ns
    PROVE  /\ Lost(f, ns) \in Handles /\ Stale(f) \in Handles
           /\ Lost(f, ns).name = f.name /\ Lost(f, ns).data = f.data /\ Lost(f, ns).dirty = f.dirty
           /\ Lost(f, ns).state = IF f.name \in ns /\ f.state = "open" THEN "lost" ELSE f.state
           /\ Stale(f).name = f.name /\ Stale(f).data = f.data /\ Stale(f).dirty = f.dirty
           /\ Stale(f).state = IF f.state = "closed" THEN "closed" ELSE "stale"
           /\ f.state = "closed" => Lost(f, ns) = f /\ Stale(f) = f
BY DEF Lost, Stale, Handles

LEMMA LostAllIs ==
    ASSUME NEW thr \in [Threads -> AnyCall], NEW ns
    PROVE  /\ LostAll(thr, ns) \in [Threads -> AnyCall]
           /\ \A u \in Threads : SameCall(LostAll(thr, ns)[u], thr[u])
              /\ LostAll(thr, ns)[u].file = Lost(thr[u].file, ns)
<1>1. ASSUME NEW u \in Threads
      PROVE  /\ [thr[u] EXCEPT !.file = Lost(@, ns)] \in AnyCall
             /\ [thr[u] EXCEPT !.file = Lost(@, ns)].file = Lost(thr[u].file, ns)
             /\ SameCall([thr[u] EXCEPT !.file = Lost(@, ns)], thr[u])
  BY CallTyped, LostIs, FileOf
<1> QED BY <1>1 DEF LostAll

LEMMA StaleAllIs ==
    ASSUME NEW thr \in [Threads -> AnyCall]
    PROVE  LET l == [u \in Threads |-> [thr[u] EXCEPT !.file = Stale(@)]]
           IN /\ l \in [Threads -> AnyCall]
              /\ \A u \in Threads : SameCall(l[u], thr[u]) /\ l[u].file = Stale(thr[u].file)
<1>1. ASSUME NEW u \in Threads
      PROVE  /\ [thr[u] EXCEPT !.file = Stale(@)] \in AnyCall
             /\ [thr[u] EXCEPT !.file = Stale(@)].file = Stale(thr[u].file)
             /\ SameCall([thr[u] EXCEPT !.file = Stale(@)], thr[u])
  <2>1. Stale(thr[u].file) \in Handles
    BY CallTyped, LostIs
  <2> QED BY <2>1, CallTyped, FileOf
<1> QED BY <1>1

LEMMA DisturbedIs ==
    ASSUME TypeOK
    PROVE  /\ Disturbed \in [Threads -> AnyCall]
           /\ \A u \in Threads :
                /\ Disturbed[u].op = th[u].op /\ Disturbed[u].todo = th[u].todo
                   /\ Disturbed[u].goal = th[u].goal
                /\ Disturbed[u].file = th[u].file /\ Disturbed[u].clean = th[u].clean
                /\ Disturbed[u].alone <=> th[u].alone /\ ~Busy(u)
<1>1. ASSUME NEW u \in Threads
      PROVE  LET d == [th[u] EXCEPT !.alone = @ /\ ~Busy(u)]
             IN /\ d \in AnyCall
                /\ d.op = th[u].op /\ d.todo = th[u].todo /\ d.goal = th[u].goal
                /\ d.file = th[u].file /\ d.clean = th[u].clean
                /\ d.alone = (th[u].alone /\ ~Busy(u))
  <2> DEFINE b == th[u].alone /\ ~Busy(u)
  <2>1. b \in BOOLEAN /\ th[u] \in AnyCall
    BY CallTyped DEF TypeOK
  <2> HIDE DEF b
  <2>2. LET d == [th[u] EXCEPT !.alone = b]
        IN /\ d \in AnyCall
           /\ d.op = th[u].op /\ d.todo = th[u].todo /\ d.goal = th[u].goal
           /\ d.file = th[u].file /\ d.clean = th[u].clean
           /\ d.alone = b
    BY <2>1 DEF AnyCall
  <2> QED BY <2>2 DEF b
<1> QED BY <1>1 DEF Disturbed

LEMMA NoFileTyped == NoFile \in Handles /\ NoFile.state = "closed" /\ NoFile.name = "none"
/\ NoFile.data = <<>> /\ NoFile.dirty = FALSE
BY Contents DEF NoFile, Handles

-----------------------------------------------------------------------------
(* What a step does to the calls. *)

AllRoles == \A t \in Threads : Roles(t)
Calm == TypeOK /\ AllRoles /\ Single /\ Handling

\* A file of a call that another one's step takes away, or leaves alone.
Fades(f, g) ==
    /\ g.name = f.name /\ g.data = f.data /\ g.dirty = f.dirty
    /\ g.state = "closed" <=> f.state = "closed"
    /\ g.state = "open" => f.state = "open"
    /\ g.state = "stale" => f.state = "stale" \/ clash
    /\ f.state = "closed" => g = f

Beside(t) == \A u \in Threads \ {t} : SameCall(th'[u], th[u]) /\ Fades(th[u].file, th'[u].file)
OnItsWay(t) == th'[t].op = th[t].op /\ th'[t].alone = th[t].alone
Took(t) == /\ OnItsWay(t) /\ th'[t].todo = Rest(th[t].todo, 2)
           /\ th'[t].goal = th[t].goal /\ th'[t].clean = th[t].clean
Skipped(t) == /\ OnItsWay(t) /\ th'[t].todo = Rest(th[t].todo, 2 + Now(t).skip)
              /\ th'[t].goal = th[t].goal /\ th'[t].clean = FALSE
Extends(t, p, g) == /\ OnItsWay(t) /\ th'[t].todo = p \o Rest(th[t].todo, 2) /\ th'[t].file = NoFile
                    /\ th'[t].goal = Instead(g, th[t].goal) /\ th'[t].clean = th[t].clean

\* The first step of a plan, and the one that comes after it.
LEMMA HeadIs ==
    ASSUME Calm, NEW t \in Threads, th[t].todo # <<>>
    PROVE  LET s == th[t].todo  h == Now(t)  k == 2 + h.skip
           IN /\ s \in Seq(AnyStep) /\ Laid(s) /\ LaidAt(s, 1) /\ h = s[1] /\ h.do = Do(s, 1) /\ h \in AnyStep
              /\ h.do \in Operations /\ h.name \in Files \cup {"none"} /\ h.skip \in Nat /\ k \in Nat \ {0}
              /\ Busy(t) /\ 1 \in 1 .. Len(s) /\ Len(s) \in Nat
              /\ Inside(s, 1) <=> Inner(h)
              /\ ~Inner(h) => th[t].file = NoFile
              /\ Inner(h) => th[t].file.state # "closed" /\ th[t].file.name = h.name
              /\ th[t].file \in Handles
              /\ 1 + 1 = 2 /\ 1 + 1 + h.skip = k
<1> DEFINE s == th[t].todo
<1>1. /\ Now(t) = s[1] /\ Now(t) \in AnyStep /\ Now(t).do = Do(s, 1)
      /\ 1 \in 1 .. Len(s) /\ Len(s) \in Nat
      /\ Now(t).do \in Operations /\ Now(t).name \in Files \cup {"none"} /\ Now(t).skip \in Nat
  BY NowIs DEF Calm
<1>2. s \in Seq(AnyStep) /\ th[t].file \in Handles
  BY CallTyped DEF Calm, TypeOK
<1>3. Roles(t)
  BY DEF Calm, AllRoles
<1>4. Laid(s) /\ Busy(t)
  BY <1>3 DEF Roles, NoCall
<1>5. LaidAt(s, 1)
  BY <1>1, <1>4 DEF Laid
<1>6. Inside(s, 1) <=> Inner(Now(t))
  BY <1>1 DEF Inside
<1>7. /\ ~Inside(s, 1) => th[t].file = NoFile
      /\ Inside(s, 1) => th[t].file.state # "closed" /\ th[t].file.name = s[1].name
  BY DEF Calm, Handling
<1>8. 1 + 1 = 2 /\ 1 + 1 + Now(t).skip = 2 + Now(t).skip /\ 2 + Now(t).skip \in Nat \ {0}
  BY <1>1
<1> QED BY <1>1, <1>2, <1>4, <1>5, <1>6, <1>7, <1>8

LEMMA FadesSame == \A f : Fades(f, f)
BY DEF Fades

LEMMA BesideSame == ASSUME NEW t \in Threads, SameBut(th', t) PROVE Beside(t)
BY FadesSame DEF SameBut, Beside, SameCall

\* A call that finishes its step.
LEMMA TookIs ==
    ASSUME Calm, NEW t \in Threads, NEW f \in Handles, th[t].todo # <<>>, th' = Done(t, f)
    PROVE  th' \in [Threads -> AnyCall] /\ Beside(t) /\ Took(t) /\ th'[t].file = f
BY DoneIs, BesideSame DEF Calm, Took, OnItsWay

LEMMA SkippedIs ==
    ASSUME Calm, NEW t \in Threads, NEW f \in Handles, th[t].todo # <<>>, th' = Failed(t, f)
    PROVE  th' \in [Threads -> AnyCall] /\ Beside(t) /\ Skipped(t) /\ th'[t].file = f
BY FailedIs, BesideSame DEF Calm, Skipped, OnItsWay

LEMMA ExtendsIs ==
    ASSUME Calm, NEW t \in Threads, NEW p \in Seq(AnyStep), NEW g \in [Files -> SUBSET Content],
           th[t].todo # <<>>,
           th[t].file = NoFile, th' = Extended(t, p, g)
    PROVE  th' \in [Threads -> AnyCall] /\ Beside(t) /\ Extends(t, p, g)
BY ExtendedIs, BesideSame DEF Calm, Extends, OnItsWay

\* ... and takes files away from their handles.
LEMMA TookLosing ==
    ASSUME Calm, NEW t \in Threads, NEW ns, th[t].todo # <<>>, th' = LostAll(Done(t, NoFile), ns)
    PROVE  th' \in [Threads -> AnyCall] /\ Beside(t) /\ Took(t) /\ th'[t].file = NoFile
           /\ \A u \in Threads \ {t} : th'[u].file = Lost(th[u].file, ns)
<1> DEFINE d == Done(t, NoFile)
<1>1. /\ d \in [Threads -> AnyCall] /\ SameBut(d, t)
      /\ d[t].op = th[t].op /\ d[t].todo = Rest(th[t].todo, 2) /\ d[t].file = NoFile
      /\ d[t].goal = th[t].goal /\ d[t].alone = th[t].alone /\ d[t].clean = th[t].clean
  BY DoneIs, NoFileTyped DEF Calm
<1> HIDE DEF d
<1>2. th' \in [Threads -> AnyCall] /\ \A u \in Threads : SameCall(th'[u], d[u])
      /\ th'[u].file = Lost(d[u].file, ns)
  BY <1>1, LostAllIs DEF d
<1>3. Took(t) /\ th'[t].file = NoFile
  <2>1. Lost(NoFile, ns) = NoFile
    BY NoFileTyped, LostIs
  <2>2. SameCall(th'[t], d[t]) /\ th'[t].file = NoFile
    BY <1>1, <1>2, <2>1
  <2> QED BY <1>1, <2>2 DEF Took, OnItsWay, SameCall
<1>4. ASSUME NEW u \in Threads \ {t}
      PROVE  SameCall(th'[u], th[u]) /\ Fades(th[u].file, th'[u].file) /\ th'[u].file = Lost(th[u].file, ns)
  <2>1. SameCall(th'[u], th[u]) /\ th'[u].file = Lost(th[u].file, ns) /\ th[u].file \in Handles
    BY <1>1, <1>2, CallTyped DEF SameBut, Calm, TypeOK
  <2>2. Fades(th[u].file, Lost(th[u].file, ns))
    BY <2>1, LostIs DEF Fades
  <2> QED BY <2>1, <2>2
<1> QED BY <1>2, <1>3, <1>4 DEF Beside

LEMMA OpenedIs ==
    ASSUME TypeOK, NEW n \in Files, NEW do
    PROVE  LET f == Opened(n, do)
           IN /\ f \in Handles /\ f.name = n /\ f.state = "open" /\ f.dirty = (do = "truncate")
              /\ f.data = IF do = "truncate" \/ files[n] = Absent THEN <<>> ELSE files[n]
              /\ f.data \in Text
<1>1. <<>> \in Text /\ (files[n] # Absent => files[n] \in Text)
  BY Contents DEF TypeOK, Content
<1> DEFINE d == IF do = "truncate" \/ files[n] = Absent THEN <<>> ELSE files[n]
<1>2. d \in Text
  BY <1>1
<1>3. Opened(n, do) = [name |-> n, state |-> "open", dirty |-> do = "truncate", data |-> d]
  BY DEF Opened
<1> HIDE DEF d
<1>4. (do = "truncate") \in BOOLEAN
  OBVIOUS
<1>5. Opened(n, do) \in Handles
  BY <1>2, <1>3, <1>4 DEF Handles
<1> QED BY <1>2, <1>3, <1>5 DEF d

LEMMA OverlaidTyped == ASSUME NEW a \in Text, NEW b \in Text PROVE Overlaid(a, b) \in Text
BY DEF Overlaid, Text

LEMMA OnlyTyped ==
    ASSUME NEW n, NEW c \in SUBSET Content
    PROVE  Only(n, c) \in [Files -> SUBSET Content]
           /\ \A m \in Files : Only(n, c)[m] = IF m = n THEN c ELSE {}
BY DEF Only

LEMMA NoGoalTyped == NoGoal \in [Files -> SUBSET Content] /\ \A m \in Files : NoGoal[m] = {}
BY DEF NoGoal

LEMMA CheckIs ==
    ASSUME Calm, NEW t \in Threads, CheckMounted(t)
    PROVE  th' \in [Threads -> AnyCall] /\ Beside(t) /\ (Took(t) \/ Skipped(t)) /\ th'[t].file = NoFile
BY TookIs, SkippedIs, NoFileTyped DEF CheckMounted, Doing

LEMMA OpenIs ==
    ASSUME Calm, NEW t \in Threads, Open(t)
    PROVE  /\ th' \in [Threads -> AnyCall] /\ Beside(t) /\ Took(t)
           /\ th'[t].file = Opened(Now(t).name, Now(t).do)
           /\ Now(t).name \in Files
<1>1. LaidAt(th[t].todo, 1) /\ Now(t) = th[t].todo[1] /\ th[t].todo # <<>>
  BY HeadIs DEF Open, Doing
<1>2. Now(t).name \in Files
  BY <1>1, Contents DEF Open, Doing, LaidAt, WrittenAt
<1>3. Opened(Now(t).name, Now(t).do) \in Handles
  BY <1>2, OpenedIs DEF Calm
<1> QED BY <1>1, <1>2, <1>3, TookIs DEF Open

LEMMA TransferIs ==
    ASSUME Calm, NEW t \in Threads, Transfer(t)
    PROVE  LET f == th[t].file  g == th'[t].file
           IN /\ th' \in [Threads -> AnyCall] /\ Beside(t) /\ Took(t)
              /\ g.name = f.name /\ g.state = f.state
              /\ Now(t).do = "write" => g.data = Overlaid(Now(t).data, f.data) /\ g.dirty = TRUE
              /\ Now(t).do = "append" => g.data = f.data \o Now(t).data /\ g.dirty = f.dirty
              /\ Now(t).do \in {"read", "wait"} => g = f
<1>1. /\ LaidAt(th[t].todo, 1) /\ Now(t) = th[t].todo[1] /\ th[t].todo # <<>>
      /\ th[t].file \in Handles
  BY HeadIs DEF Transfer, Doing
<1> DEFINE f == th[t].file
           new == CASE Now(t).do = "write" -> [f EXCEPT !.data = Overlaid(Now(t).data, @), !.dirty = TRUE]
                    [] Now(t).do = "append" -> [f EXCEPT !.data = @ \o Now(t).data]
                    [] OTHER -> f
<1>2. Now(t).do \in {"write", "append"} => Now(t).data \in Text
  BY <1>1 DEF LaidAt, WrittenAt
<1>3. f.data \in Text /\ f \in Handles
  BY <1>1 DEF Handles
<1> HIDE DEF f
<1>4. CASE Now(t).do = "write"
  <2> DEFINE d == Overlaid(Now(t).data, f.data)
  <2>1. d \in Text
    BY <1>2, <1>3, <1>4, OverlaidTyped
  <2>2. new = [f EXCEPT !.data = d, !.dirty = TRUE]
    BY <1>4
  <2> HIDE DEF d, new
  <2>3. new \in Handles /\ new.name = f.name /\ new.state = f.state /\ new.data = d /\ new.dirty = TRUE
    BY <1>3, <2>1, <2>2 DEF Handles
  <2>4. th' = Done(t, new)
    BY DEF Transfer, new, f
  <2> QED BY <1>1, <1>4, <2>3, <2>4, TookIs DEF d, f
<1>5. CASE Now(t).do = "append"
  <2> DEFINE d == f.data \o Now(t).data
  <2>1. d \in Text
    BY <1>2, <1>3, <1>5 DEF Text
  <2>2. new = [f EXCEPT !.data = d]
    BY <1>5
  <2> HIDE DEF d, new
  <2>3. new \in Handles /\ new.name = f.name /\ new.state = f.state /\ new.data = d /\ new.dirty = f.dirty
    BY <1>3, <2>1, <2>2 DEF Handles
  <2>4. th' = Done(t, new)
    BY DEF Transfer, new, f
  <2> QED BY <1>1, <1>5, <2>3, <2>4, TookIs DEF d, f
<1>6. CASE Now(t).do \in {"read", "wait"}
  <2>1. new = f
    BY <1>6
  <2> HIDE DEF new
  <2>2. th' = Done(t, f)
    BY <2>1 DEF Transfer, new, f
  <2> QED BY <1>1, <1>3, <1>6, <2>2, TookIs DEF f
<1> QED BY <1>4, <1>5, <1>6 DEF Transfer, Doing

LEMMA CloseIs ==
    ASSUME Calm, NEW t \in Threads, Close(t)
    PROVE  th' \in [Threads -> AnyCall] /\ Beside(t) /\ Took(t) /\ th'[t].file = NoFile
BY TookIs, NoFileTyped DEF Close, Doing

LEMMA RemoveIs ==
    ASSUME Calm, NEW t \in Threads, Unlink(t) \/ Rename(t)
    PROVE  LET n == Now(t).name  m == Now(t).data
               ns == IF Now(t).do = "unlink" THEN {n} ELSE {n, m}
           IN /\ th' \in [Threads -> AnyCall] /\ Beside(t) /\ Took(t) /\ th'[t].file = NoFile
              /\ \A u \in Threads \ {t} : th'[u].file = Lost(th[u].file, ns)
<1>1. th[t].todo # <<>>
  BY DEF Unlink, Rename, Doing
<1>2. CASE Unlink(t)
  <2>1. th' = LostAll(Done(t, NoFile), {Now(t).name}) /\ Now(t).do = "unlink"
    BY <1>2 DEF Unlink, Doing, RemoveFile
  <2> QED BY <1>1, <2>1, TookLosing
<1>3. CASE Rename(t)
  <2>1. th' = LostAll(Done(t, NoFile), {Now(t).name, Now(t).data}) /\ Now(t).do = "rename"
    BY <1>3 DEF Rename, Doing, RenameFile
  <2> QED BY <1>1, <2>1, TookLosing
<1> QED BY <1>2, <1>3

LEMMA FailIs ==
    ASSUME Calm, NEW t \in Threads, Fail(t)
    PROVE  LET f == th[t].file  g == th'[t].file
           IN /\ th' \in [Threads -> AnyCall] /\ Beside(t) /\ Skipped(t)
              /\ Now(t).do = "close" => g = NoFile
              /\ Now(t).do # "close" => /\ g.name = f.name /\ g.data = f.data /\ g.dirty = f.dirty
                                        /\ g.state = f.state \/ (g.state = "lost" /\ f.state = "open")
              /\ Now(t).do \in {"write", "append"} => g.state # "open"
              /\ Now(t).do \notin {"close", "write", "append"} => g = f
<1>1. th[t].todo # <<>> /\ th[t].file \in Handles
  BY HeadIs DEF Fail, Doing
<1> DEFINE f == th[t].file  do == Now(t).do
           g == IF do = "close" THEN NoFile
                ELSE IF do \in {"write", "append"} /\ f.state = "open" THEN [f EXCEPT !.state = "lost"] ELSE f
<1>2. /\ g \in Handles
      /\ do = "close" => g = NoFile
      /\ do # "close" => /\ g.name = f.name /\ g.data = f.data /\ g.dirty = f.dirty
                         /\ g.state = f.state \/ (g.state = "lost" /\ f.state = "open")
      /\ do \in {"write", "append"} => g.state # "open"
      /\ do \notin {"close", "write", "append"} => g = f
  <2>1. NoFile \in Handles /\ f \in Handles
    BY <1>1, NoFileTyped
  <2> HIDE DEF f, do
  <2>2. /\ [f EXCEPT !.state = "lost"] \in Handles
        /\ LET h == [f EXCEPT !.state = "lost"]
           IN h.name = f.name /\ h.data = f.data /\ h.dirty = f.dirty /\ h.state = "lost"
    BY <2>1 DEF Handles
  <2> QED BY <2>1, <2>2
<1>3. th' = Failed(t, g)
  BY DEF Fail
<1> HIDE DEF g
<1> QED BY <1>1, <1>2, <1>3, SkippedIs

LEMMA PlainIs ==
    ASSUME Calm, NEW t \in Threads, Mkfs(t) \/ Mount(t) \/ NoteMounted(t)
    PROVE  th' \in [Threads -> AnyCall] /\ Beside(t) /\ Took(t) /\ th'[t].file = NoFile
BY TookIs, NoFileTyped DEF Mkfs, Mount, NoteMounted, Doing

LEMMA MkfsFailsIs ==
    ASSUME Calm, NEW t \in Threads, MkfsFails(t)
    PROVE  th' \in [Threads -> AnyCall] /\ Beside(t) /\ Skipped(t) /\ th'[t].file = NoFile
BY SkippedIs, NoFileTyped DEF MkfsFails, Doing

\* Those who mount and format.
LEMMA ManagerIs ==
    ASSUME Calm, NEW t \in Threads, th[t].todo # <<>>, Now(t).do \in Managing
    PROVE  /\ Manages(t) /\ Busy(t) /\ Defaulted(th[t].todo) /\ th[t].file = NoFile
           /\ Now(t).do \in {"init", "remkfs", "remount", "loadName"} => th[t].op = "boot"
           /\ th[t].op = "boot" => t = "main" /\ OnlyOne(t)
           /\ ~clash => OnlyOne(t)
<1>1. Roles(t) /\ Single
  BY DEF Calm, AllRoles
<1>2. 1 \in 1 .. Len(th[t].todo) /\ Now(t) = th[t].todo[1] /\ (~Inner(Now(t)) => th[t].file = NoFile)
      /\ Busy(t)
  BY HeadIs
<1>3. Manages(t) /\ (Now(t).do \in {"init", "remkfs", "remount", "loadName"} => th[t].op = "boot")
  BY <1>1, <1>2 DEF Roles
<1>4. th[t].op = "boot" => t = "main" /\ OnlyOne(t)
  BY <1>1, <1>2 DEF Roles, Single
<1>5. ~clash => OnlyOne(t)
  BY <1>1, <1>3, <1>4 DEF Single, Manages
<1>6. th[t].file = NoFile
  BY <1>2 DEF Inner, Managing, Making, Ended
<1> QED BY <1>1, <1>2, <1>3, <1>4, <1>5, <1>6 DEF Roles

\* Who has no call has no file.
LEMMA IdleIs ==
    ASSUME Calm, NEW u \in Threads, ~Busy(u) PROVE th[u].todo = <<>> /\ th[u].file = NoFile
<1>1. th[u].todo = <<>>
  BY DEF Calm, AllRoles, Roles, NoCall
<1>2. ~Inside(th[u].todo, 1)
  BY <1>1 DEF Inside
<1> QED BY <1>1, <1>2 DEF Calm, Handling

LEMMA UnmountIs ==
    ASSUME Calm, NEW t \in Threads, Unmount(t)
    PROVE  /\ th' \in [Threads -> AnyCall] /\ Beside(t) /\ Took(t) /\ th'[t].file = NoFile
           /\ fds' \in [Slots -> Handles] /\ \A fd \in Slots : Fades(fds[fd], fds'[fd])
<1>1. th[t].todo # <<>> /\ Now(t).do = "unmount"
  BY DEF Unmount, Doing
<1>2. Now(t).do \in Managing /\ fds \in [Slots -> Handles]
  BY <1>1 DEF Managing, Making, Calm, TypeOK
<1>3. ~clash => OnlyOne(t)
  BY <1>1, <1>2, ManagerIs
<1>4. CASE is_mounted \/ th[t].op = "boot"
  <2> DEFINE d == Done(t, NoFile)
  <2>1. /\ th' = [u \in Threads |-> [d[u] EXCEPT !.file = Stale(@)]]
        /\ fds' = [fd \in Slots |-> Stale(fds[fd])]
    BY <1>4 DEF Unmount
  <2>2. /\ d \in [Threads -> AnyCall] /\ SameBut(d, t)
        /\ d[t].op = th[t].op /\ d[t].todo = Rest(th[t].todo, 2) /\ d[t].file = NoFile
        /\ d[t].goal = th[t].goal /\ d[t].alone = th[t].alone /\ d[t].clean = th[t].clean
    BY <1>1, DoneIs, NoFileTyped DEF Calm
  <2> HIDE DEF d
  <2>3. th' \in [Threads -> AnyCall] /\ \A u \in Threads : SameCall(th'[u], d[u])
        /\ th'[u].file = Stale(d[u].file)
    BY <2>1, <2>2, StaleAllIs
  <2>4. Took(t) /\ th'[t].file = NoFile
    <3>1. Stale(NoFile) = NoFile
      BY NoFileTyped, LostIs
    <3>2. SameCall(th'[t], d[t]) /\ th'[t].file = NoFile
      BY <2>2, <2>3, <3>1
    <3> QED BY <2>2, <3>2 DEF Took, OnItsWay, SameCall
  <2>5. ASSUME NEW u \in Threads \ {t} PROVE SameCall(th'[u], th[u]) /\ Fades(th[u].file, th'[u].file)
    <3>1. SameCall(th'[u], th[u]) /\ th'[u].file = Stale(th[u].file) /\ th[u].file \in Handles
      BY <2>2, <2>3, CallTyped DEF SameBut, Calm, TypeOK
    <3>2. ~clash => th[u].file = NoFile
      BY <1>3, IdleIs DEF OnlyOne, Others
    <3>3. Fades(th[u].file, Stale(th[u].file))
      BY <3>1, <3>2, LostIs, NoFileTyped DEF Fades
    <3> QED BY <3>1, <3>3
  <2>6. ASSUME NEW fd \in Slots PROVE fds'[fd] \in Handles /\ Fades(fds[fd], fds'[fd])
    <3>1. fds'[fd] = Stale(fds[fd]) /\ fds[fd] \in Handles
      BY <1>2, <2>1
    <3>2. ~clash => fds[fd].state = "closed"
      BY <1>3 DEF OnlyOne, Held
    <3> QED BY <3>1, <3>2, LostIs DEF Fades
  <2> QED BY <2>1, <2>3, <2>4, <2>5, <2>6 DEF Beside
<1>5. CASE ~(is_mounted \/ th[t].op = "boot")
  <2>1. th' = Done(t, NoFile) /\ fds' = fds
    BY <1>5 DEF Unmount
  <2> QED BY <1>1, <1>2, <2>1, TookIs, NoFileTyped, FadesSame
<1> QED BY <1>4, <1>5

LEMMA FirstMountIs ==
    ASSUME Calm, NEW t \in Threads, FirstMount(t)
    PROVE  /\ th' \in [Threads -> AnyCall] /\ Beside(t) /\ OnItsWay(t) /\ th'[t].file = NoFile
           /\ th'[t].clean = th[t].clean
           /\ \A n \in Files : th'[t].goal[n] = th[t].goal[n]
           /\ \/ Took(t) /\ mounted'
              \/ th'[t].todo = Reformat \o Tail(BootPlan) /\ mounted'
              \/ th'[t].todo = FormatBlank \o Tail(BootPlan) /\ mounted' = mounted
           /\ th[t].todo = BootPlan /\ th[t].op = "boot"
<1>1. th[t].todo # <<>> /\ Now(t).do = "init"
  BY DEF FirstMount, Doing
<1>2. Now(t).do \in Managing
  BY <1>1 DEF Managing, Making
<1>3. th[t].file = NoFile /\ th[t].op = "boot"
  BY <1>1, <1>2, ManagerIs
<1>4. th[t].todo = BootPlan
  BY <1>1, HeadIs DEF LaidAt, ManagedAt
<1>5. Rest(th[t].todo, 2) = Tail(BootPlan) /\ th[t].goal \in [Files -> SUBSET Content]
  BY <1>1, <1>4, TailIsRest, HeadIs, CallTyped DEF Calm, TypeOK
<1>6. \A n \in Files : Instead(NoGoal, th[t].goal)[n] = th[t].goal[n]
  BY <1>5, InsteadTyped, NoGoalTyped
<1>7. Reformat \in Seq(AnyStep) /\ FormatBlank \in Seq(AnyStep)
  BY StepTyped, Contents DEF Reformat, FormatBlank, Operations
<1>8. CASE th' = Done(t, NoFile) /\ mounted' = TRUE
  BY <1>1, <1>3, <1>4, <1>8, TookIs, NoFileTyped DEF Took
<1>9. CASE th' = Extended(t, Reformat, NoGoal) /\ mounted' = TRUE
  BY <1>1, <1>3, <1>4, <1>5, <1>6, <1>7, <1>9, ExtendsIs, NoGoalTyped DEF Extends, OnItsWay
<1>10. CASE th' = Extended(t, FormatBlank, NoGoal) /\ mounted' = mounted
  BY <1>1, <1>3, <1>4, <1>5, <1>6, <1>7, <1>10, ExtendsIs, NoGoalTyped DEF Extends, OnItsWay
<1> QED BY <1>8, <1>9, <1>10 DEF FirstMount

LEMMA DefaultFileIs ==
    ASSUME Calm, NEW t \in Threads, DefaultFile(t)
    PROVE  LET n == Now(t).name  c == Now(t).data
           IN /\ th' \in [Threads -> AnyCall] /\ Beside(t) /\ th'[t].file = NoFile
              /\ n \in UserFiles /\ c = Default[n] /\ c \in Text /\ {c} \in SUBSET Content
              /\ Missing(n, c) => Extends(t, WriteFile(n, c), Only(n, {c}))
              /\ ~Missing(n, c) => Took(t)
<1> DEFINE n == Now(t).name  c == Now(t).data
<1>1. th[t].todo # <<>> /\ Now(t).do = "default"
  BY DEF DefaultFile, Doing
<1>2. Now(t).do \in Managing
  BY <1>1 DEF Managing, Ended
<1>3. th[t].file = NoFile /\ Defaulted(th[t].todo)
  BY <1>1, <1>2, ManagerIs
<1>4. /\ 1 \in 1 .. Len(th[t].todo) /\ Now(t) = th[t].todo[1] /\ LaidAt(th[t].todo, 1)
  BY <1>1, HeadIs
<1>5. n \in UserFiles /\ c = Default[n]
  BY <1>1, <1>3, <1>4 DEF LaidAt, ManagedAt, Defaulted, DefaultedAt
<1>6. c \in Text /\ {c} \in SUBSET Content
  BY <1>5, Contents DEF Default, Content
<1> HIDE DEF n, c
<1>7. CASE Missing(n, c)
  <2>1. th' = Extended(t, WriteFile(n, c), Only(n, {c}))
    BY <1>7 DEF DefaultFile, n, c
  <2>2. WriteFile(n, c) \in Seq(AnyStep) /\ Only(n, {c}) \in [Files -> SUBSET Content]
    BY <1>5, <1>6, WriteFileIs, OnlyTyped
  <2>3. th' \in [Threads -> AnyCall] /\ Beside(t) /\ Extends(t, WriteFile(n, c), Only(n, {c}))
    BY <1>1, <1>3, <2>1, <2>2, ExtendsIs
  <2> QED BY <1>5, <1>6, <1>7, <2>3 DEF Extends, n, c
<1>8. CASE ~Missing(n, c)
  <2>1. th' = Done(t, NoFile)
    BY <1>8 DEF DefaultFile, n, c
  <2> QED BY <1>1, <1>5, <1>6, <1>8, <2>1, TookIs, NoFileTyped DEF n, c
<1> QED BY <1>7, <1>8

LEMMA LoadNameIs ==
    ASSUME Calm, NEW t \in Threads, LoadName(t)
    PROVE  /\ th' \in [Threads -> AnyCall] /\ Beside(t) /\ OnItsWay(t) /\ th'[t].file = NoFile
           /\ th'[t].clean = th[t].clean /\ th[t].op = "boot"
           /\ DefaultName \in Text /\ {DefaultName} \in SUBSET Content
           /\ \/ Took(t) /\ meant' = meant
              \/ /\ th'[t].todo = Saved("name", DefaultName)
                 /\ th'[t].goal = Instead(Only("name", {DefaultName}), th[t].goal)
                 /\ meant' = Widened(Only("name", {DefaultName})) /\ mounted /\ files["name"] = OldName
<1>1. th[t].todo # <<>> /\ Now(t).do = "loadName"
  BY DEF LoadName, Doing
<1>2. Now(t).do \in Managing
  BY <1>1 DEF Managing, Ended
<1>3. th[t].file = NoFile /\ th[t].op = "boot"
  BY <1>1, <1>2, ManagerIs
<1>4. DefaultName \in Text /\ {DefaultName} \in SUBSET Content
  BY StorageAssumption DEF Content
<1>5. Saved("name", DefaultName) \in Seq(AnyStep) /\ Only("name", {DefaultName}) \in [Files -> SUBSET Content]
  BY <1>4, SavedIs, Contents, OnlyTyped
<1>6. Saved("name", DefaultName) \o Rest(th[t].todo, 2) = Saved("name", DefaultName)
  <2>1. th[t].todo \in Seq(AnyStep) /\ Do(th[t].todo, 2) = "end"
    BY <1>1, HeadIs DEF LaidAt, ManagedAt
  <2>2. \A i \in 1 .. Len(th[t].todo) : th[t].todo[i].do # "end"
    <3> SUFFICES ASSUME NEW i \in 1 .. Len(th[t].todo) PROVE th[t].todo[i].do # "end"
      OBVIOUS
    <3>1. th[t].todo[i] \in AnyStep
      BY <2>1
    <3>2. th[t].todo[i].do \in Operations
      BY <3>1 DEF AnyStep
    <3> QED BY <3>2 DEF Operations
  <2>3. Len(th[t].todo) < 2
    BY <2>1, <2>2 DEF Do
  <2>4. Rest(th[t].todo, 2) \in Seq(AnyStep) /\ Len(Rest(th[t].todo, 2)) = 0
    BY <2>1, <2>3, RestIs
  <2>5. Rest(th[t].todo, 2) = <<>>
    BY <2>4
  <2> QED BY <1>5, <2>5
<1>7. CASE th' = Done(t, NoFile) /\ meant' = meant
  BY <1>1, <1>3, <1>4, <1>7, TookIs, NoFileTyped DEF Took
<1>8. CASE /\ th' = Extended(t, Saved("name", DefaultName), Only("name", {DefaultName}))
           /\ meant' = Widened(Only("name", {DefaultName})) /\ mounted /\ files["name"] = OldName
  <2>1. th' \in [Threads -> AnyCall] /\ Beside(t)
        /\ Extends(t, Saved("name", DefaultName), Only("name", {DefaultName}))
    BY <1>1, <1>3, <1>5, <1>8, ExtendsIs
  <2> QED BY <1>3, <1>4, <1>6, <1>8, <2>1 DEF Extends, OnItsWay
<1> QED BY <1>7, <1>8 DEF LoadName

-----------------------------------------------------------------------------
(* The plans stay well laid, and each thread in its role. *)

\* A call that goes on with the rest of its plan.
LEMMA RestRole ==
    ASSUME Calm, NEW t \in Threads, th[t].todo # <<>>, NEW k \in Nat \ {0},
           th'[t].op = th[t].op, th'[t].todo = Rest(th[t].todo, k)
    PROVE  Roles(t)'
<1> DEFINE s == th[t].todo  r == Rest(s, k)
<1>1. Roles(t) /\ Busy(t) /\ s \in Seq(AnyStep)
  BY HeadIs DEF Calm, AllRoles
<1>2. Laid(r) /\ (Manages(t) => Defaulted(r))
  BY <1>1, RestLaid, RestDefaulted DEF Roles
<1>3. ASSUME NEW i \in 1 .. Len(r)
      PROVE  /\ r[i].do \in Managing => Manages(t)
             /\ r[i].do \in {"init", "remkfs", "remount", "loadName"} => th[t].op = "boot"
  <2>1. i + k - 1 \in 1 .. Len(s) /\ r[i] = s[i + k - 1]
    BY <1>1, RestIs
  <2> QED BY <1>1, <2>1 DEF Roles
<1> HIDE DEF r
<1>4. th'[t].todo = r
  BY DEF r
<1> QED BY <1>1, <1>2, <1>3, <1>4 DEF Roles, Busy, Manages

\* A call that goes on with a new plan.
LEMMA NewRole ==
    ASSUME NEW t \in Threads, Busy(t)',
           th'[t].op = "boot" <=> t = "main",
           Laid(th'[t].todo), Manages(t)' => Defaulted(th'[t].todo),
           \A i \in 1 .. Len(th'[t].todo) :
              /\ th'[t].todo[i].do \in Managing => Manages(t)'
              /\ th'[t].todo[i].do \in {"init", "remkfs", "remount", "loadName"} => th'[t].op = "boot"
    PROVE  Roles(t)'
BY DEF Roles

LEMMA SameRole ==
    ASSUME Calm, NEW u \in Threads, th'[u].op = th[u].op, th'[u].todo = th[u].todo PROVE Roles(u)'
BY DEF Calm, AllRoles, Roles, Busy, Manages, NoCall

LEMMA BesideRoles ==
    ASSUME Calm, NEW t \in Threads, Beside(t), NEW u \in Threads, u # t PROVE Roles(u)'
<1>1. SameCall(th'[u], th[u])
  BY DEF Beside
<1> QED BY <1>1, SameRole DEF SameCall

LEMMA TookRole ==
    ASSUME Calm, NEW t \in Threads, th[t].todo # <<>>, Took(t) \/ Skipped(t) PROVE Roles(t)'
<1>1. 2 \in Nat \ {0} /\ 2 + Now(t).skip \in Nat \ {0}
  BY HeadIs
<1> QED BY <1>1, RestRole DEF Took, Skipped, OnItsWay

LEMMA BootRole ==
    ASSUME NEW t \in Threads, t = "main", th'[t].op = "boot", Laid(th'[t].todo), Defaulted(th'[t].todo)
    PROVE  Roles(t)'
<1>1. Busy(t)' /\ Manages(t)'
  BY DEF Busy, Manages
<1> QED BY <1>1, NewRole

LEMMA StepRole ==
    ASSUME Calm, NEW t \in Threads, Steps(t), ~Return(t)
    PROVE  /\ th' \in [Threads -> AnyCall] /\ Beside(t) /\ OnItsWay(t) /\ Roles(t)' /\ th[t].todo # <<>>
           /\ th'[t].clean => th[t].clean
<1>0. th[t].todo # <<>>
  BY DEF Steps, CheckMounted, Open, Transfer, Close, Unlink, Rename, Fail, Unmount, Mkfs, MkfsFails, Mount,
         FirstMount, NoteMounted, DefaultFile, LoadName, Doing
<1> DEFINE Goal == /\ th' \in [Threads -> AnyCall] /\ Beside(t) /\ OnItsWay(t) /\ Roles(t)' /\ th[t].todo # <<>>
                   /\ th'[t].clean => th[t].clean
<1>1. ASSUME Took(t) \/ Skipped(t) PROVE OnItsWay(t) /\ Roles(t)' /\ (th'[t].clean => th[t].clean)
  BY <1>0, <1>1, TookRole DEF Took, Skipped
<1>2. CASE CheckMounted(t)
  BY <1>0, <1>1, <1>2, CheckIs
<1>3. CASE Open(t)
  BY <1>0, <1>1, <1>3, OpenIs
<1>4. CASE Transfer(t)
  BY <1>0, <1>1, <1>4, TransferIs
<1>5. CASE Close(t)
  BY <1>0, <1>1, <1>5, CloseIs
<1>6. CASE Unlink(t) \/ Rename(t)
  BY <1>0, <1>1, <1>6, RemoveIs
<1>7. CASE Fail(t)
  BY <1>0, <1>1, <1>7, FailIs
<1>8. CASE Unmount(t)
  BY <1>0, <1>1, <1>8, UnmountIs
<1>9. CASE Mkfs(t) \/ Mount(t) \/ NoteMounted(t)
  BY <1>0, <1>1, <1>9, PlainIs
<1>10. CASE MkfsFails(t)
  BY <1>0, <1>1, <1>10, MkfsFailsIs
<1>11. CASE FirstMount(t)
  <2>1. /\ th' \in [Threads -> AnyCall] /\ Beside(t) /\ OnItsWay(t) /\ th'[t].clean = th[t].clean
        /\ \/ Took(t)
           \/ th'[t].todo = Reformat \o Tail(BootPlan)
           \/ th'[t].todo = FormatBlank \o Tail(BootPlan)
        /\ th[t].op = "boot"
    BY <1>11, FirstMountIs
  <2>2. t = "main" /\ th'[t].op = "boot"
    BY <1>0, <2>1, HeadIs DEF Calm, AllRoles, Roles, OnItsWay
  <2>3. Took(t) \/ (Laid(th'[t].todo) /\ Defaulted(th'[t].todo))
    BY <2>1, ReformatLaid, FormatBlankLaid
  <2> QED BY <1>0, <1>1, <2>1, <2>2, <2>3, BootRole
<1>12. CASE DefaultFile(t)
  <2> DEFINE n == Now(t).name  c == Now(t).data  s == th[t].todo  r == Rest(s, 2)
  <2>1. /\ th' \in [Threads -> AnyCall] /\ Beside(t) /\ n \in UserFiles /\ c = Default[n] /\ c \in Text
        /\ Missing(n, c) => Extends(t, WriteFile(n, c), Only(n, {c}))
        /\ ~Missing(n, c) => Took(t)
    BY <1>12, DefaultFileIs
  <2>2. CASE ~Missing(n, c)
    BY <1>0, <1>1, <2>1, <2>2
  <2>3. CASE Missing(n, c)
    <3>1. OnItsWay(t) /\ th'[t].todo = WriteFile(n, c) \o r /\ th'[t].clean = th[t].clean
      BY <2>1, <2>3 DEF Extends
    <3>2. s \in Seq(AnyStep) /\ Now(t) = s[1] /\ Now(t).do = "default" /\ 1 \in 1 .. Len(s) /\ Laid(s)
          /\ Busy(t)
      BY <1>0, <1>12, HeadIs DEF DefaultFile, Doing
    <3>3. Defaulted(s) /\ Manages(t) /\ Roles(t)
      BY <1>0, <3>2, ManagerIs DEF Managing, Ended, Calm, AllRoles
    <3> HIDE DEF s
    <3>4. r \in Seq(AnyStep) /\ Laid(r) /\ Defaulted(r)
      BY <3>2, <3>3, RestIs, RestLaid, RestDefaulted
    <3>5. Len(r) \in Nat /\ \A i \in 1 .. Len(r) : i + 1 \in 2 .. Len(s) /\ r[i] = s[i + 1]
      <4>1. \A i \in 1 .. Len(r) : i + 2 - 1 \in 1 .. Len(s) /\ r[i] = s[i + 2 - 1]
        BY <3>2, RestIs
      <4>2. \A i \in 1 .. Len(r) : i + 2 - 1 = i + 1 /\ i + 1 >= 2
        BY <3>4
      <4>3. Len(r) \in Nat /\ Len(s) \in Nat
        BY <3>2, <3>4
      <4> HIDE DEF r
      <4> QED BY <4>1, <4>2, <4>3
    <3>6. Do(r, 1) = Do(s, 2)
      BY <3>2, RestSteps
    <3>7. Do(s, 2) \in Ended
      <4>1. ManagedAt(s, 1) /\ 1 + 1 = 2
        BY <3>2 DEF Laid, LaidAt
      <4> QED BY <3>2, <4>1 DEF ManagedAt
    <3>8. \A i \in 1 .. Len(r) : r[i].do # "init"
      <4> SUFFICES ASSUME NEW i \in 1 .. Len(r), r[i].do = "init" PROVE FALSE
        OBVIOUS
      <4>1. ManagedAt(s, i + 1) /\ s[i + 1].do = "init" /\ i + 1 \in 2 .. Len(s)
        BY <3>2, <3>5 DEF Laid, LaidAt
      <4> QED BY <4>1 DEF ManagedAt
    <3>9. \A i \in 1 .. Len(r) : r[i].do = "default" => r[i].name # n
      <4>1. DefaultedAt(s, 1) /\ 1 + 1 = 2
        BY <3>2, <3>3 DEF Defaulted
      <4> QED BY <3>2, <3>5, <4>1 DEF DefaultedAt
    <3> DEFINE q == WriteFile(n, c) \o r
    <3> HIDE DEF r, n, c
    <3>10. Laid(q)
      BY <2>1, <3>4, <3>6, <3>7, <3>8, ThenLaid
    <3>11. Defaulted(q)
      BY <2>1, <3>4, <3>9, ThenDefaulted
    <3>12. \A i \in 1 .. Len(q) : q[i].do \in {"init", "remkfs", "remount", "loadName"} => th[t].op = "boot"
      <4>1. /\ Len(q) = Len(r) + 4
            /\ q[1].do = "check" /\ q[2].do = "truncate" /\ q[3].do = "write" /\ q[4].do = "close"
            /\ \A i \in 5 .. Len(q) : i - 4 \in 1 .. Len(r) /\ q[i] = r[i - 4]
        BY <2>1, <3>4, WriteThen
      <4>2. \A i \in 1 .. Len(r) : r[i].do \in {"init", "remkfs", "remount", "loadName"} => th[t].op = "boot"
        <5> SUFFICES ASSUME NEW i \in 1 .. Len(r), r[i].do \in {"init", "remkfs", "remount", "loadName"}
                     PROVE  th[t].op = "boot"
          OBVIOUS
        <5>1. i + 1 \in 1 .. Len(s) /\ r[i] = s[i + 1]
          BY <3>5
        <5> QED BY <3>3, <5>1 DEF Roles, s
      <4> SUFFICES ASSUME NEW i \in 1 .. Len(q), q[i].do \in {"init", "remkfs", "remount", "loadName"}
                   PROVE  th[t].op = "boot"
        OBVIOUS
      <4> HIDE DEF q
      <4>3. i \in 1 .. 4 \/ i \in 5 .. Len(q)
        OBVIOUS
      <4>4. i \notin 1 .. 4
        BY <4>1
      <4> QED BY <4>1, <4>2, <4>3, <4>4
    <3> HIDE DEF q
    <3>13. Roles(t)'
      <4>1. Busy(t)' /\ Manages(t)' /\ (th'[t].op = "boot" <=> t = "main") /\ th'[t].op = th[t].op
            /\ th'[t].todo = q
        BY <3>1, <3>2, <3>3 DEF OnItsWay, Busy, Manages, Roles, q, n, c
      <4> QED BY <3>10, <3>11, <3>12, <4>1, NewRole
    <3> QED BY <1>0, <2>1, <3>1, <3>13
  <2> QED BY <2>2, <2>3
<1>13. CASE LoadName(t)
  <2>1. /\ th' \in [Threads -> AnyCall] /\ Beside(t) /\ OnItsWay(t)
        /\ th'[t].clean = th[t].clean /\ th[t].op = "boot" /\ DefaultName \in Text
        /\ Took(t) \/ th'[t].todo = Saved("name", DefaultName)
    BY <1>13, LoadNameIs
  <2>2. t = "main" /\ th'[t].op = "boot"
    BY <1>0, <2>1, HeadIs DEF Calm, AllRoles, Roles, OnItsWay
  <2>3. CASE th'[t].todo = Saved("name", DefaultName)
    <3> DEFINE q == Saved("name", DefaultName)
    <3>1. /\ Len(q) = 3 /\ q[1].do = "open" /\ q[2].do = "write" /\ q[3].do = "close"
          /\ q[1].name = "name" /\ q[2].name = "name" /\ q[3].name = "name" /\ Laid(q)
      BY <2>1, SavedIs, SavedLaid, Contents
    <3> HIDE DEF q
    <3>2. ASSUME NEW i \in 1 .. 3 PROVE DefaultedAt(q, i)
      BY <3>1, Contents DEF DefaultedAt, Do, Making
    <3>3. Defaulted(q)
      BY <3>1, <3>2 DEF Defaulted
    <3> QED BY <1>0, <2>1, <2>2, <2>3, <3>1, <3>3, BootRole DEF q
  <2> QED BY <1>0, <1>1, <2>1, <2>3
<1> QED BY <1>2, <1>3, <1>4, <1>5, <1>6, <1>7, <1>8, <1>9, <1>10, <1>11, <1>12, <1>13 DEF Steps

-----------------------------------------------------------------------------
(* The calls that begin. *)

Kinds == {"write", "delete", "rename", "read", "restore", "upload", "format", "mode", "name", "sta", "forget"}

\* What a call sets out with.
Suits(op, steps, goal) ==
    /\ op \in Kinds /\ steps \in Seq(AnyStep) /\ goal \in [Files -> SUBSET Content]
    /\ Laid(steps)
    /\ Do(steps, 1) \in {"check", "look", "truncate", "open", "unlink", "unmount"}
    /\ op = "format" => steps = FormatPlan
    /\ op # "format" => \A i \in 1 .. Len(steps) : steps[i].do \notin Managing

LEMMA Singles ==
    /\ \A d \in Text : {d} \in SUBSET Content /\ {Absent} \in SUBSET Content
    /\ \A S \in SUBSET Content : S \ {Absent} \in SUBSET Content
    /\ Scripts \cup Names \cup Records \subseteq Text
BY StorageAssumption DEF Content

LEMMA WriteSuits ==
    ASSUME NEW n \in UserFiles, NEW d \in Text, NEW op \in {"write", "restore"}
    PROVE  Suits(op, WriteFile(n, d), Only(n, {d}))
<1> DEFINE s == WriteFile(n, d)
           g == Only(n, {d})
<1>1. /\ s \in Seq(AnyStep) /\ Len(s) = 4 /\ Laid(s)
      /\ s[1].do = "check" /\ s[2].do = "truncate" /\ s[3].do = "write" /\ s[4].do = "close"
  BY WriteFileIs, WriteFileLaid
<1> HIDE DEF s
<1>2. \A i \in 1 .. 4 : s[i].do \in {"check", "truncate", "write", "close"}
  BY <1>1
<1>3. g \in [Files -> SUBSET Content]
  BY Singles, OnlyTyped
<1> HIDE DEF g
<1>4. Suits(op, s, g)
  BY <1>1, <1>2, <1>3 DEF Suits, Do, Managing, Making, Ended, Kinds
<1> QED BY <1>4 DEF s, g

LEMMA SavedSuits ==
    ASSUME NEW n \in Settings, NEW d \in Text, NEW op \in {"mode", "name", "sta"}
    PROVE  Suits(op, Saved(n, d), Only(n, {d}))
<1> DEFINE s == Saved(n, d)
           g == Only(n, {d})
<1>1. /\ s \in Seq(AnyStep) /\ Len(s) = 3 /\ Laid(s)
      /\ s[1].do = "open" /\ s[2].do = "write" /\ s[3].do = "close"
  BY SavedIs, SavedLaid
<1> HIDE DEF s
<1>2. \A i \in 1 .. 3 : s[i].do \in {"open", "write", "close"}
  BY <1>1
<1>3. g \in [Files -> SUBSET Content]
  BY Singles, OnlyTyped
<1> HIDE DEF g
<1>4. Suits(op, s, g)
  BY <1>1, <1>2, <1>3 DEF Suits, Do, Managing, Making, Ended, Kinds
<1> QED BY <1>4 DEF s, g

LEMMA DeleteSuits ==
    ASSUME NEW n \in UserFiles
    PROVE  Suits("delete", <<Check(1), Step("unlink", n, <<>>, 0)>>, Only(n, {Absent}))
<1> DEFINE s == <<Check(1), Step("unlink", n, <<>>, 0)>>
           g == Only(n, {Absent})
<1>1. s \in Seq(AnyStep) /\ Len(s) = 2 /\ Laid(s) /\ s[1].do = "check" /\ s[2].do = "unlink"
  BY DeleteIs, DeleteLaid
<1> HIDE DEF s
<1>2. \A i \in 1 .. 2 : s[i].do \in {"check", "unlink"}
  BY <1>1
<1>3. g \in [Files -> SUBSET Content]
  BY OnlyTyped DEF Content
<1> HIDE DEF g
<1>4. Suits("delete", s, g)
  BY <1>1, <1>2, <1>3 DEF Suits, Do, Managing, Making, Ended, Kinds
<1> QED BY <1>4 DEF s, g

LEMMA MayHoldTyped ==
    ASSUME meant \in [Files -> SUBSET Content], NEW n \in Files PROVE MayHold(n) \in SUBSET Content
<1>1. <<>> \in Content
  BY Contents DEF Content
<1> QED BY <1>1 DEF MayHold

LEMMA MoveSuits ==
    ASSUME TypeOK, NEW n \in UserFiles, NEW m \in UserFiles
    PROVE  Suits("rename", <<Check(1), Step("rename", n, m, 0)>>,
                 Instead(Only(n, {Absent}), Only(m, MayHold(n) \ {Absent})))
<1> DEFINE s == <<Check(1), Step("rename", n, m, 0)>>
           g == Instead(Only(n, {Absent}), Only(m, MayHold(n) \ {Absent}))
<1>1. s \in Seq(AnyStep) /\ Len(s) = 2 /\ Laid(s) /\ s[1].do = "check" /\ s[2].do = "rename"
  BY MoveIs, MoveLaid
<1>2. g \in [Files -> SUBSET Content]
  <2>1. MayHold(n) \ {Absent} \in SUBSET Content /\ {Absent} \in SUBSET Content
    BY MayHoldTyped, Contents DEF TypeOK, Content
  <2>2. Only(n, {Absent}) \in [Files -> SUBSET Content]
        /\ Only(m, MayHold(n) \ {Absent}) \in [Files -> SUBSET Content]
    BY <2>1, OnlyTyped
  <2> QED BY <2>2, InsteadTyped
<1> HIDE DEF s, g
<1>3. \A i \in 1 .. 2 : s[i].do \in {"check", "rename"}
  BY <1>1
<1>4. Suits("rename", s, g)
  BY <1>1, <1>2, <1>3 DEF Suits, Do, Managing, Making, Ended, Kinds
<1> QED BY <1>4 DEF s, g

LEMMA ReadSuits ==
    ASSUME NEW n \in UserFiles, NEW s \in {ReadFile(n), ServeFile(n)} PROVE Suits("read", s, NoGoal)
<1>1. /\ s \in Seq(AnyStep) /\ Len(s) = 4 /\ Laid(s)
      /\ \A i \in 1 .. 4 : s[i].do \in {"check", "look", "wait", "read", "close"}
      /\ s[1].do \in {"check", "look"}
  <2>1. CASE s = ReadFile(n)
    <3>1. /\ s \in Seq(AnyStep) /\ Len(s) = 4 /\ Laid(s)
          /\ s[1].do = "check" /\ s[2].do = "look" /\ s[3].do = "read" /\ s[4].do = "close"
      BY <2>1, ReadFileIs, ReadFileLaid
    <3> QED BY <3>1
  <2>2. CASE s = ServeFile(n)
    <3>1. /\ s \in Seq(AnyStep) /\ Len(s) = 4 /\ Laid(s)
          /\ s[1].do = "look" /\ s[2].do = "wait" /\ s[3].do = "read" /\ s[4].do = "close"
      BY <2>2, ServeFileIs, ServeFileLaid
    <3> QED BY <3>1
  <2> QED BY <2>1, <2>2
<1> QED BY <1>1, NoGoalTyped DEF Suits, Do, Managing, Making, Ended, Kinds

LEMMA UploadSuits ==
    ASSUME NEW n \in UserFiles PROVE Suits("upload", UploadFile(n), Only(n, {Upload}))
<1> DEFINE s == UploadFile(n)
           g == Only(n, {Upload})
<1>1. /\ s \in Seq(AnyStep) /\ Len(s) = 5 /\ Laid(s)
      /\ s[1].do = "truncate" /\ s[2].do = "write" /\ s[3].do = "wait" /\ s[4].do = "append"
         /\ s[5].do = "close"
  BY UploadFileIs, UploadFileLaid
<1> HIDE DEF s
<1>2. \A i \in 1 .. 5 : s[i].do \in {"truncate", "write", "wait", "append", "close"}
  BY <1>1
<1>3. g \in [Files -> SUBSET Content]
  BY Singles, OnlyTyped, Contents
<1> HIDE DEF g
<1>4. Suits("upload", s, g)
  BY <1>1, <1>2, <1>3 DEF Suits, Do, Managing, Making, Ended, Kinds
<1> QED BY <1>4 DEF s, g

LEMMA ForgetSuits ==
    Suits("forget", Forgotten, Instead(Only("sta", {Absent}), Only("mode", {<<"AP">>})))
<1> DEFINE s == Forgotten  g == Instead(Only("sta", {Absent}), Only("mode", {<<"AP">>}))
<1>1. /\ s \in Seq(AnyStep) /\ Len(s) = 5 /\ Laid(s)
      /\ s[1].do = "unlink" /\ s[2].do = "wait" /\ s[3].do = "open" /\ s[4].do = "write" /\ s[5].do = "close"
  BY ForgottenIs, ForgottenLaid
<1>2. g \in [Files -> SUBSET Content]
  <2>1. Only("sta", {Absent}) \in [Files -> SUBSET Content]
        /\ Only("mode", {<<"AP">>}) \in [Files -> SUBSET Content]
    BY Singles, OnlyTyped, Contents
  <2> QED BY <2>1, InsteadTyped
<1> HIDE DEF s, g
<1>3. \A i \in 1 .. 5 : s[i].do \in {"unlink", "wait", "open", "write", "close"}
  BY <1>1
<1>4. Suits("forget", s, g)
  BY <1>1, <1>2, <1>3 DEF Suits, Do, Managing, Making, Ended, Kinds
<1> QED BY <1>4 DEF s, g

FormatAims == [n \in Files |-> CASE n = "demo" -> {Demo} [] n = "howto" -> {Howto} [] OTHER -> {Absent}]

LEMMA FormatSuits == Suits("format", FormatPlan, FormatAims)
<1> DEFINE s == FormatPlan
<1>1. s \in Seq(AnyStep) /\ Len(s) = 6 /\ Laid(s) /\ s[1].do = "unmount"
  BY FormatPlanIs, FormatPlanLaid
<1> HIDE DEF s
<1>2. FormatAims \in [Files -> SUBSET Content]
  BY Contents DEF FormatAims, Content
<1> QED BY <1>1, <1>2 DEF Suits, Do, Kinds, s

\* Every call is one of these.
LEMMA CallIs ==
    ASSUME Calm, \/ \E t \in {"web", "shell"} : Calls(t)
                 \/ Cat \/ Restore \/ Serve \/ Receive
    PROVE  \E t \in {"web", "shell"} : \E op, steps, goal : Begin(t, op, steps, goal)
           /\ Suits(op, steps, goal)
<1>1. ASSUME NEW t \in {"web", "shell"}, Calls(t)
      PROVE  \E op, steps, goal : Begin(t, op, steps, goal) /\ Suits(op, steps, goal)
  <2>1. CASE Write(t)
    BY <2>1, WriteSuits, Singles DEF Write
  <2>2. CASE Delete(t)
    BY <2>2, DeleteSuits DEF Delete
  <2>3. CASE Move(t)
    BY <2>3, MoveSuits DEF Move, Calm
  <2>4. CASE Format(t)
    BY <2>4, FormatSuits DEF Format, FormatAims
  <2>5. CASE SaveMode(t)
    BY <2>5, SavedSuits, Contents DEF SaveMode
  <2>6. CASE SaveName(t)
    BY <2>6, SavedSuits, Contents, Singles DEF SaveName
  <2>7. CASE SaveCredentials(t)
    BY <2>7, SavedSuits, Contents, Singles DEF SaveCredentials
  <2>8. CASE Forget(t)
    BY <2>8, ForgetSuits DEF Forget
  <2> QED BY <1>1, <2>1, <2>2, <2>3, <2>4, <2>5, <2>6, <2>7, <2>8 DEF Calls
<1>2. CASE Cat
  BY <1>2, ReadSuits DEF Cat
<1>3. CASE Restore
  BY <1>3, WriteSuits, Contents DEF Restore
<1>4. CASE Serve
  BY <1>4, ReadSuits DEF Serve
<1>5. CASE Receive
  BY <1>5, UploadSuits DEF Receive
<1> QED BY <1>1, <1>2, <1>3, <1>4, <1>5

LEMMA BeginIs ==
    ASSUME Calm, NEW t \in Threads, NEW op, NEW steps, NEW goal, Suits(op, steps, goal),
           Begin(t, op, steps, goal)
    PROVE  /\ th' \in [Threads -> AnyCall] /\ ~Busy(t) /\ Runs(t) /\ Busy(t)'
           /\ th'[t].op = op /\ th'[t].todo = steps /\ th'[t].file = NoFile /\ th'[t].goal = goal
           /\ th'[t].clean = TRUE /\ (th'[t].alone <=> (\A u \in Threads : ~Busy(u)) /\ Held = {})
           /\ \A u \in Threads \ {t} :
                /\ th'[u].op = th[u].op /\ th'[u].todo = th[u].todo /\ th'[u].file = th[u].file
                /\ th'[u].goal = th[u].goal /\ th'[u].clean = th[u].clean
                /\ th'[u].alone <=> th[u].alone /\ ~Busy(u)
           /\ clash => clash'
           /\ ~clash' => ((\A u \in Threads : ~Busy(u)) /\ Held = {})
                         \/ (op # "format" /\ \A u \in Threads : th[u].op # "format")
<1> DEFINE others == {u \in Threads : Busy(u)}
           lone == others = {} /\ Held = {}
           new == [op |-> op, todo |-> steps, file |-> NoFile, goal |-> goal, alone |-> lone, clean |-> TRUE]
           old(u) == [th[u] EXCEPT !.alone = @ /\ u \notin others]
<1>1. /\ th' = [u \in Threads |-> IF u = t THEN new ELSE old(u)]
      /\ clash' = (clash \/ (~lone /\ "format" \in {op} \cup {th[u].op : u \in others}))
      /\ ~Busy(t) /\ Runs(t)
  BY DEF Begin
<1>2. lone \in BOOLEAN /\ (lone <=> (\A u \in Threads : ~Busy(u)) /\ Held = {})
  OBVIOUS
<1>3. \A u \in Threads : th[u].op = "format" => u \in others
  BY DEF Busy
<1>4. /\ clash => clash'
      /\ ~clash' => lone \/ (op # "format" /\ \A u \in Threads : th[u].op # "format")
  BY <1>1, <1>3
<1>5. op \in Kinds /\ steps \in Seq(AnyStep) /\ goal \in [Files -> SUBSET Content]
  BY DEF Suits
<1>6. ASSUME NEW u \in Threads \ {t}
      PROVE  LET d == old(u)
             IN /\ d \in AnyCall
                /\ d.op = th[u].op /\ d.todo = th[u].todo /\ d.goal = th[u].goal
                /\ d.file = th[u].file /\ d.clean = th[u].clean
                /\ d.alone = (th[u].alone /\ ~Busy(u))
  <2> DEFINE b == th[u].alone /\ u \notin others
  <2>1. b \in BOOLEAN /\ th[u] \in AnyCall /\ b = (th[u].alone /\ ~Busy(u))
    BY CallTyped DEF Calm, TypeOK
  <2> HIDE DEF b
  <2>2. LET d == [th[u] EXCEPT !.alone = b]
        IN /\ d \in AnyCall
           /\ d.op = th[u].op /\ d.todo = th[u].todo /\ d.goal = th[u].goal
           /\ d.file = th[u].file /\ d.clean = th[u].clean
           /\ d.alone = b
    BY <2>1 DEF AnyCall
  <2> QED BY <2>1, <2>2 DEF b
<1> HIDE DEF lone
<1>7. new \in AnyCall
  BY <1>2, <1>5, NoFileTyped DEF AnyCall, Kinds
<1>8. /\ new.op = op /\ new.todo = steps /\ new.file = NoFile /\ new.goal = goal
      /\ new.alone = lone /\ new.clean = TRUE
  OBVIOUS
<1> HIDE DEF new, old
<1>9. /\ th' \in [Threads -> AnyCall] /\ th'[t] = new /\ \A u \in Threads \ {t} : th'[u] = old(u)
  BY <1>1, <1>6, <1>7
<1>10. Busy(t)'
  BY <1>5, <1>8, <1>9 DEF Busy, Kinds
<1> QED BY <1>1, <1>2, <1>4, <1>6, <1>8, <1>9, <1>10

LEMMA NoCallTyped ==
    /\ NoCall \in AnyCall /\ NoCall.op = "none" /\ NoCall.todo = <<>> /\ NoCall.file = NoFile
    /\ NoCall.goal = NoGoal /\ NoCall.alone = TRUE /\ NoCall.clean = TRUE
BY NoFileTyped, NoGoalTyped DEF NoCall, AnyCall

LEMMA ReturnIs ==
    ASSUME Calm, NEW t \in Threads, Return(t)
    PROVE  /\ th' \in [Threads -> AnyCall] /\ SameBut(th', t) /\ Busy(t) /\ ~Busy(t)'
           /\ th'[t].op = "none" /\ th'[t].todo = <<>> /\ th'[t].file = NoFile /\ th[t].todo = <<>>
              /\ th[t].file = NoFile
<1>1. th \in [Threads -> AnyCall] /\ th' = [th EXCEPT ![t] = NoCall]
  BY DEF Return, Calm, TypeOK
<1>2. th' \in [Threads -> AnyCall] /\ SameBut(th', t) /\ th'[t] = NoCall
  BY <1>1, NoCallTyped DEF SameBut
<1>3. th[t].todo = <<>> /\ Busy(t)
  BY DEF Return
<1>4. ~Inside(th[t].todo, 1)
  BY <1>3 DEF Inside
<1>5. th[t].file = NoFile
  BY <1>4 DEF Calm, Handling
<1> QED BY <1>2, <1>3, <1>5, NoCallTyped DEF Busy

LEMMA BootingIs ==
    /\ Booting \in [Threads -> AnyCall]
    /\ Booting["main"].op = "boot" /\ Booting["main"].todo = BootPlan /\ Booting["main"].file = NoFile
    /\ Booting["main"].goal = NoGoal
    /\ \A u \in Threads \ {"main"} : Booting[u] = NoCall
    /\ "main" \in Threads
<1> DEFINE new == [NoCall EXCEPT !.op = "boot", !.todo = BootPlan]
<1>1. new \in AnyCall /\ new.op = "boot" /\ new.todo = BootPlan /\ new.file = NoFile /\ new.goal = NoGoal
  BY NoCallTyped, BootPlanIs DEF AnyCall
<1>2. "main" \in Threads
  BY DEF Threads
<1>3. Booting = [u \in Threads |-> IF u = "main" THEN new ELSE NoCall]
  BY DEF Booting
<1> HIDE DEF new
<1> QED BY <1>1, <1>2, <1>3, NoCallTyped

\* What scripts do to the calls and to their own files.
Watches(u) ==
    /\ th'[u].op = th[u].op /\ th'[u].todo = th[u].todo /\ th'[u].goal = th[u].goal
    /\ th'[u].clean = th[u].clean /\ (th'[u].alone => th[u].alone)
    /\ Fades(th[u].file, th'[u].file)

LEMMA LosingIs ==
    ASSUME Calm, NEW ns, th' = LostAll(Disturbed, ns), LostFds(ns)
    PROVE  /\ th' \in [Threads -> AnyCall] /\ fds' \in [Slots -> Handles]
           /\ \A u \in Threads : /\ Watches(u) /\ (th'[u].alone => ~Busy(u))
                                 /\ th'[u].file = Lost(th[u].file, ns)
           /\ \A fd \in Slots : Fades(fds[fd], fds'[fd])
<1>1. Disturbed \in [Threads -> AnyCall] /\ fds \in [Slots -> Handles]
  BY DisturbedIs DEF Calm, TypeOK
<1>2. th' \in [Threads -> AnyCall] /\ \A u \in Threads : SameCall(th'[u], Disturbed[u])
      /\ th'[u].file = Lost(Disturbed[u].file, ns)
  BY <1>1, LostAllIs
<1>3. ASSUME NEW u \in Threads
      PROVE  Watches(u) /\ (th'[u].alone => ~Busy(u)) /\ th'[u].file = Lost(th[u].file, ns)
  <2>1. /\ th'[u].op = th[u].op /\ th'[u].todo = th[u].todo /\ th'[u].goal = th[u].goal
        /\ th'[u].clean = th[u].clean /\ (th'[u].alone => th[u].alone /\ ~Busy(u))
        /\ th'[u].file = Lost(th[u].file, ns) /\ th[u].file \in Handles
    BY <1>2, DisturbedIs, CallTyped DEF SameCall, Calm, TypeOK
  <2>2. Fades(th[u].file, Lost(th[u].file, ns))
    BY <2>1, LostIs DEF Fades
  <2> QED BY <2>1, <2>2 DEF Watches
<1>4. ASSUME NEW fd \in Slots PROVE fds'[fd] \in Handles /\ Fades(fds[fd], fds'[fd])
  <2>1. fds'[fd] = Lost(fds[fd], ns) /\ fds[fd] \in Handles
    BY <1>1 DEF LostFds
  <2> QED BY <2>1, LostIs DEF Fades
<1>5. fds' \in [Slots -> Handles]
  BY <1>4 DEF LostFds
<1> QED BY <1>2, <1>3, <1>4, <1>5

-----------------------------------------------------------------------------
(* Types. *)

MeantOK == meant \in [Files -> SUBSET Content] /\ \A n \in Files : meant[n] # {}
FlashOK == flash \in [ok : BOOLEAN, size : {"static", "chip"}] /\ part \in {"chip", "unknown"}
FlagsOK == /\ mounted \in BOOLEAN /\ is_mounted \in BOOLEAN
           /\ clash \in BOOLEAN /\ stranded \in BOOLEAN /\ wild \in BOOLEAN
CountsOK == /\ calls \in 0 .. MaxCalls /\ faults \in 0 .. MaxFaults /\ restarts \in 0 .. MaxRestarts
            /\ calls + faults + restarts <= MaxTogether
FilesOK == files \in [Files -> Content] /\ hollow \subseteq Files
FdsOK == fds \in [Slots -> Handles]
StoreOK == FlashOK /\ FilesOK /\ MeantOK /\ FlagsOK /\ FdsOK /\ CountsOK

LEMMA TypeParts == TypeOK <=> StoreOK /\ th \in [Threads -> AnyCall]
BY DEF TypeOK, StoreOK, MeantOK, FlashOK, FlagsOK, CountsOK, FilesOK, FdsOK

LEMMA WidenedTyped ==
    ASSUME MeantOK, NEW g \in [Files -> SUBSET Content]
    PROVE  /\ Widened(g) \in [Files -> SUBSET Content] /\ \A n \in Files : Widened(g)[n] # {}
           /\ \A n \in Files : Widened(g)[n] = meant[n] \cup g[n]
BY DEF Widened, MeantOK

LEMMA CommittedTyped ==
    ASSUME FilesOK, NEW f \in Handles
    PROVE  /\ Committed(f) \in [Files -> Content]
           /\ \A n \in Files : Committed(f)[n] = IF f.state = "open" /\ f.dirty /\ f.name = n THEN f.data ELSE files[n]
           /\ Filled(f) \subseteq Files
           /\ \A n \in hollow : n \in Filled(f) \/ (f.state = "open" /\ f.dirty /\ f.name = n)
<1>1. f.data \in Content
  BY DEF Handles, Content
<1> QED BY <1>1 DEF Committed, Filled, Commits, FilesOK

LEMMA SameStore ==
    /\ FlashOK /\ UNCHANGED <<flash, part>> => FlashOK'
    /\ FilesOK /\ UNCHANGED <<files, hollow>> => FilesOK'
    /\ MeantOK /\ UNCHANGED meant => MeantOK'
    /\ FdsOK /\ UNCHANGED fds => FdsOK'
    /\ CountsOK /\ UNCHANGED counters => CountsOK'
BY DEF FlashOK, FilesOK, MeantOK, FdsOK, CountsOK, counters

LEMMA FaultCounts ==
    ASSUME CountsOK, NEW p, Fault(p), UNCHANGED <<calls, restarts>> PROVE CountsOK'
BY StorageAssumption DEF CountsOK, Fault, Room

LEMMA MoreCounts ==
    ASSUME CountsOK, Room,
           \/ calls < MaxCalls /\ calls' = calls + 1 /\ UNCHANGED <<faults, restarts>>
           \/ restarts < MaxRestarts /\ restarts' = restarts + 1 /\ UNCHANGED <<calls, faults>>
    PROVE  CountsOK'
BY StorageAssumption DEF CountsOK, Room

LEMMA CreatedTyped ==
    ASSUME FilesOK, NEW n \in Files, Created(n) PROVE FilesOK'
<1>1. CASE files[n] = Absent
  <2>1. <<>> \in Content
    BY Contents DEF Content
  <2>2. files' = [files EXCEPT ![n] = <<>>] /\ hollow' = hollow \cup {n}
    BY <1>1 DEF Created
  <2> QED BY <2>1, <2>2 DEF FilesOK
<1>2. CASE files[n] # Absent
  BY <1>2, SameStore DEF Created
<1> QED BY <1>1, <1>2

LEMMA WidenedBy ==
    ASSUME MeantOK, NEW g \in [Files -> SUBSET Content], meant' = Widened(g) PROVE MeantOK'
BY WidenedTyped DEF MeantOK

LEMMA EmptiedTyped == ASSUME FilesOK, MeantOK, Emptied PROVE FilesOK' /\ MeantOK'
BY DEF FilesOK, MeantOK, Emptied, Content

LEMMA BeginStore ==
    ASSUME Calm, NEW t \in Threads, NEW op, NEW steps, NEW goal, Suits(op, steps, goal),
           Begin(t, op, steps, goal)
    PROVE  StoreOK'
<1>1. StoreOK
  BY TypeParts DEF Calm
<1>2. CountsOK'
  BY <1>1, MoreCounts DEF StoreOK, Begin
<1>3. MeantOK'
  BY <1>1, WidenedBy DEF StoreOK, Begin, Suits
<1>4. FlagsOK'
  BY <1>1 DEF StoreOK, Begin, FlagsOK
<1> QED BY <1>1, <1>2, <1>3, <1>4, SameStore DEF StoreOK, Begin

LEMMA StepStore ==
    ASSUME Calm, NEW t \in Threads, Steps(t) PROVE StoreOK'
<1>1. StoreOK /\ FlashOK /\ FilesOK /\ MeantOK /\ FlagsOK /\ FdsOK /\ CountsOK /\ th[t].file \in Handles
      /\ th[t].goal \in [Files -> SUBSET Content]
  BY TypeParts, CallTyped DEF Calm, StoreOK
<1>2. CASE CheckMounted(t)
  BY <1>1, <1>2, SameStore DEF StoreOK, CheckMounted, UNCH_flash, UNCH_count, FlagsOK
<1>3. CASE Open(t)
  <2>1. FilesOK'
    BY <1>1, <1>3, OpenIs, CreatedTyped DEF Open
  <2> QED BY <1>1, <1>3, <2>1, SameStore DEF StoreOK, Open, UNCH_flash, UNCH_count, FlagsOK
<1>4. CASE Transfer(t)
  BY <1>1, <1>4, SameStore DEF StoreOK, Transfer, UNCH_flash, UNCH_count, FlagsOK
<1>5. CASE Close(t)
  <2>1. FilesOK'
    BY <1>1, <1>5, CommittedTyped DEF Close, FilesOK
  <2> QED BY <1>1, <1>5, <2>1, SameStore DEF StoreOK, Close, UNCH_flash, UNCH_count, FlagsOK
<1>6. CASE Unlink(t)
  <2>1. files' = [files EXCEPT ![Now(t).name] = Absent] /\ LostFds({Now(t).name})
        /\ hollow' = hollow \ {Now(t).name}
    BY <1>6 DEF Unlink, RemoveFile
  <2>2. FilesOK'
    BY <1>1, <2>1 DEF FilesOK, Content
  <2>3. FdsOK'
    BY <1>1, <2>1, LostIs DEF FdsOK, LostFds
  <2> QED BY <1>1, <1>6, <2>2, <2>3, SameStore DEF StoreOK, Unlink, UNCH_flash, UNCH_count, FlagsOK
<1>7. CASE Rename(t)
  <2> DEFINE n == Now(t).name  m == Now(t).data
  <2>1. files' = [files EXCEPT ![m] = files[n], ![n] = Absent] /\ LostFds({n, m})
        /\ hollow' = hollow \ {n, m}
        /\ meant' = Widened(Only(m, MayHold(n) \ {Absent}))
    BY <1>7 DEF Rename, RenameFile
  <2>2. n \in Files
    BY <1>7, HeadIs DEF Rename, Doing, LaidAt, WrittenAt
  <2> HIDE DEF n, m
  <2>3. FilesOK'
    BY <1>1, <2>1, <2>2 DEF FilesOK, Content
  <2>4. FdsOK'
    BY <1>1, <2>1, LostIs DEF FdsOK, LostFds
  <2>5. MeantOK'
    <3>1. MayHold(n) \ {Absent} \in SUBSET Content
      BY <1>1, <2>2, MayHoldTyped DEF MeantOK
    <3> QED BY <1>1, <2>1, <3>1, OnlyTyped, WidenedBy
  <2> QED BY <1>1, <1>7, <2>3, <2>4, <2>5, SameStore DEF StoreOK, Rename, UNCH_flash, UNCH_count, FlagsOK
<1>8. CASE Fail(t)
  <2>1. CountsOK'
    BY <1>1, <1>8, FaultCounts DEF Fail
  <2>2. MeantOK'
    <3> DEFINE f == th[t].file
    <3>1. meant' = Widened(Only(f.name, {f.data})) \/ meant' = meant
      BY <1>8 DEF Fail
    <3>2. {f.data} \in SUBSET Content
      BY <1>1 DEF Handles, Content
    <3> QED BY <1>1, <3>1, <3>2, OnlyTyped, WidenedBy, SameStore
  <2> QED BY <1>1, <1>8, <2>1, <2>2, SameStore DEF StoreOK, Fail, UNCH_flash, FlagsOK
<1>9. CASE Unmount(t)
  <2>1. FdsOK'
    BY <1>9, UnmountIs DEF FdsOK
  <2> QED BY <1>1, <1>9, <2>1, SameStore DEF StoreOK, Unmount, UNCH_count, FlagsOK
<1>10. CASE Mkfs(t)
  <2>1. FlashOK'
    BY <1>1, <1>10 DEF Mkfs, FlashOK, Size
  <2>2. FilesOK' /\ MeantOK'
    BY <1>1, <1>10, EmptiedTyped DEF Mkfs
  <2> QED BY <1>1, <1>10, <2>1, <2>2, SameStore DEF StoreOK, Mkfs, UNCH_count, FlagsOK
<1>11. CASE MkfsFails(t)
  <2>1. CountsOK'
    BY <1>1, <1>11, FaultCounts DEF MkfsFails
  <2>2. FlashOK'
    BY <1>1, <1>11 DEF MkfsFails, FlashOK
  <2>3. FilesOK' /\ MeantOK'
    BY <1>1, <1>11, EmptiedTyped, SameStore DEF MkfsFails
  <2> QED BY <1>1, <1>11, <2>1, <2>2, <2>3, SameStore DEF StoreOK, MkfsFails, FlagsOK
<1>12. CASE Mount(t)
  BY <1>1, <1>12, SameStore DEF StoreOK, Mount, UNCH_count, FlagsOK
<1>13. CASE FirstMount(t)
  <2>1. CountsOK'
    BY <1>1, <1>13, FaultCounts, SameStore DEF FirstMount, counters
  <2> QED BY <1>1, <1>13, <2>1, SameStore DEF StoreOK, FirstMount, FlagsOK
<1>14. CASE NoteMounted(t)
  BY <1>1, <1>14, SameStore DEF StoreOK, NoteMounted, UNCH_flash, UNCH_count, FlagsOK
<1>15. CASE DefaultFile(t)
  <2>1. MeantOK'
    <3>1. {Now(t).data} \in SUBSET Content
      BY <1>15, DefaultFileIs
    <3>2. meant' = Widened(Only(Now(t).name, {Now(t).data})) \/ meant' = meant
      BY <1>15 DEF DefaultFile
    <3> QED BY <1>1, <3>1, <3>2, OnlyTyped, WidenedBy, SameStore
  <2> QED BY <1>1, <1>15, <2>1, SameStore DEF StoreOK, DefaultFile, UNCH_flash, UNCH_count, FlagsOK
<1>16. CASE LoadName(t)
  <2>1. MeantOK'
    BY <1>1, <1>16, LoadNameIs, OnlyTyped, WidenedBy, SameStore
  <2> QED BY <1>1, <1>16, <2>1, SameStore DEF StoreOK, LoadName, UNCH_flash, UNCH_count, FlagsOK
<1>17. CASE Return(t)
  <2>1. MeantOK'
    <3>1. meant' = Instead(th[t].goal, meant) \/ meant' = meant
      BY <1>17 DEF Return
    <3> QED BY <1>1, <3>1, InsteadTyped, SameStore DEF MeantOK
  <2> QED BY <1>1, <1>17, <2>1, SameStore DEF StoreOK, Return, FlagsOK
<1> QED BY <1>2, <1>3, <1>4, <1>5, <1>6, <1>7, <1>8, <1>9, <1>10, <1>11, <1>12, <1>13, <1>14, <1>15,
           <1>16, <1>17 DEF Steps

-----------------------------------------------------------------------------
(* What scripts do. *)

\* A descriptor is freed, goes on, or is taken into use.
ScriptFd(fd) ==
    LET f == fds[fd]  g == fds'[fd]
    IN \/ g = NoFile
       \/ g.name = f.name /\ g.state # "closed" /\ f.state # "closed"
          /\ (g.state = "stale" => f.state = "stale")
       \/ g.name \in UserFiles /\ g.state = "open" /\ f.state = "closed"
          /\ (clash' \/ \A u \in Threads : th[u].op # "format")

LEMMA FadesFd ==
    ASSUME Calm, NEW fd \in Slots, Fades(fds[fd], fds'[fd]), fds'[fd].state # "stale"
           \/ fds[fd].state = "stale"
    PROVE  ScriptFd(fd)
BY DEF Fades, ScriptFd, Calm, Handling

\* How the calls of the others are disturbed: those that lose what they were alone with ...
Disturbs == \/ \A u \in Threads : th'[u].alone => ~Busy(u)
            \/ Held # {} /\ th' = th

LEMMA FdOpenIs ==
    ASSUME Calm, NEW n \in UserFiles, NEW do, FdOpen(n, do)
    PROVE  /\ th' \in [Threads -> AnyCall] /\ StoreOK' /\ (\A u \in Threads : Watches(u))
           /\ \A fd \in Slots : ScriptFd(fd)
           /\ Disturbs /\ (clash => clash')
<1>1. StoreOK /\ FlashOK /\ FilesOK /\ MeantOK /\ FlagsOK /\ FdsOK /\ CountsOK
  BY TypeParts DEF Calm, StoreOK
<1>2. /\ Disturbed \in [Threads -> AnyCall]
      /\ \A u \in Threads :
            /\ Disturbed[u].op = th[u].op /\ Disturbed[u].todo = th[u].todo /\ Disturbed[u].goal = th[u].goal
            /\ Disturbed[u].file = th[u].file /\ Disturbed[u].clean = th[u].clean
            /\ Disturbed[u].alone <=> th[u].alone /\ ~Busy(u)
  BY DisturbedIs DEF Calm
<1>3. th' = Disturbed /\ (clash' = (clash \/ \E u \in Threads : th[u].op = "format"))
  BY DEF FdOpen
<1>4. n \in Files
  BY Contents
<1>5. Opened(n, do) \in Handles /\ Opened(n, do).name = n /\ Opened(n, do).state = "open"
  BY <1>4, OpenedIs DEF Calm
<1>6. PICK new \in Slots \ Held : fds' = [fds EXCEPT ![new] = Opened(n, do)]
  BY DEF FdOpen
<1>7. FdsOK'
  BY <1>1, <1>5, <1>6 DEF FdsOK
<1>8. ASSUME NEW fd \in Slots PROVE ScriptFd(fd)
  <2>1. CASE fd # new
    <3>1. fds'[fd] = fds[fd]
      BY <1>1, <1>6, <2>1 DEF FdsOK
    <3> QED BY <3>1, FadesSame, FadesFd
  <2>2. CASE fd = new
    <3>1. fds'[fd] = Opened(n, do)
      BY <1>1, <1>6, <2>2 DEF FdsOK
    <3>2. clash' \/ \A u \in Threads : th[u].op # "format"
      BY <1>3
    <3>3. fds[fd].state = "closed"
      BY <1>6, <2>2 DEF Held
    <3> QED BY <1>5, <3>1, <3>2, <3>3 DEF ScriptFd
  <2> QED BY <2>1, <2>2
<1>9. FilesOK' /\ MeantOK'
  BY <1>1, <1>4, CreatedTyped, SameStore DEF FdOpen
<1>10. CountsOK'
  BY <1>1, MoreCounts DEF FdOpen, ScriptCalls
<1>11. FlagsOK'
  BY <1>1 DEF FdOpen, FlagsOK, UNCH_flash
<1>12. StoreOK'
  BY <1>1, <1>7, <1>9, <1>10, <1>11, SameStore DEF StoreOK, FdOpen, UNCH_flash
<1>13. \A u \in Threads : Watches(u)
  BY <1>2, <1>3, FadesSame DEF Watches
<1>14. Disturbs
  BY <1>2, <1>3 DEF Disturbs
<1> QED BY <1>2, <1>3, <1>8, <1>12, <1>13, <1>14

LEMMA ScriptLosing ==
    ASSUME Calm, NEW ns, th' = LostAll(Disturbed, ns), LostFds(ns)
    PROVE  /\ th' \in [Threads -> AnyCall] /\ FdsOK' /\ (\A u \in Threads : Watches(u))
           /\ (\A fd \in Slots : ScriptFd(fd)) /\ Disturbs
<1>1. /\ th' \in [Threads -> AnyCall] /\ fds' \in [Slots -> Handles]
      /\ \A u \in Threads : Watches(u) /\ (th'[u].alone => ~Busy(u))
      /\ \A fd \in Slots : Fades(fds[fd], fds'[fd])
  BY LosingIs
<1>2. ASSUME NEW fd \in Slots PROVE ScriptFd(fd)
  <2>1. fds'[fd] = Lost(fds[fd], ns) /\ fds[fd] \in Handles
    BY DEF LostFds, Calm, TypeOK
  <2>2. fds'[fd].state # "stale" \/ fds[fd].state = "stale"
    BY <2>1, LostIs
  <2> QED BY <1>1, <2>2, FadesFd
<1> QED BY <1>1, <1>2 DEF FdsOK, Disturbs

LEMMA unlinkIs ==
    ASSUME Calm, NEW n \in UserFiles, unlink(n)
    PROVE  /\ th' \in [Threads -> AnyCall] /\ StoreOK' /\ (\A u \in Threads : Watches(u))
           /\ (\A fd \in Slots : ScriptFd(fd)) /\ Disturbs
<1>1. StoreOK /\ FlashOK /\ FilesOK /\ MeantOK /\ FlagsOK /\ FdsOK /\ CountsOK
  BY TypeParts DEF Calm, StoreOK
<1>2. th' = LostAll(Disturbed, {n}) /\ LostFds({n}) /\ files' = [files EXCEPT ![n] = Absent]
      /\ hollow' = hollow \ {n}
  BY DEF unlink, RemoveFile
<1>3. /\ th' \in [Threads -> AnyCall] /\ FdsOK' /\ (\A u \in Threads : Watches(u))
      /\ (\A fd \in Slots : ScriptFd(fd)) /\ Disturbs
  BY <1>2, ScriptLosing
<1>4. FilesOK'
  BY <1>1, <1>2 DEF FilesOK, Content
<1>5. MeantOK'
  <2>1. {Absent} \in SUBSET Content
    BY DEF Content
  <2> QED BY <1>1, <2>1, OnlyTyped, WidenedBy DEF unlink
<1>6. CountsOK'
  BY <1>1, MoreCounts DEF unlink, ScriptCalls
<1> QED BY <1>1, <1>3, <1>4, <1>5, <1>6, SameStore DEF StoreOK, unlink, UNCH_flash, FlagsOK

LEMMA renameIs ==
    ASSUME Calm, NEW n \in UserFiles, NEW m \in UserFiles, rename(n, m)
    PROVE  /\ th' \in [Threads -> AnyCall] /\ StoreOK' /\ (\A u \in Threads : Watches(u))
           /\ (\A fd \in Slots : ScriptFd(fd)) /\ Disturbs
<1>1. StoreOK /\ FlashOK /\ FilesOK /\ MeantOK /\ FlagsOK /\ FdsOK /\ CountsOK /\ n \in Files /\ m \in Files
  BY TypeParts, Contents DEF Calm, StoreOK
<1>2. th' = LostAll(Disturbed, {n, m}) /\ LostFds({n, m})
      /\ files' = [files EXCEPT ![m] = files[n], ![n] = Absent] /\ hollow' = hollow \ {n, m}
  BY DEF rename, RenameFile
<1>3. /\ th' \in [Threads -> AnyCall] /\ FdsOK' /\ (\A u \in Threads : Watches(u))
      /\ (\A fd \in Slots : ScriptFd(fd)) /\ Disturbs
  BY <1>2, ScriptLosing
<1>4. FilesOK'
  BY <1>1, <1>2 DEF FilesOK, Content
<1>5. MeantOK'
  <2>1. {Absent} \in SUBSET Content /\ MayHold(n) \ {Absent} \in SUBSET Content
    BY <1>1, MayHoldTyped DEF Content, MeantOK
  <2>2. Only(n, {Absent}) \in [Files -> SUBSET Content]
        /\ Only(m, MayHold(n) \ {Absent}) \in [Files -> SUBSET Content]
    BY <2>1, OnlyTyped
  <2>3. Instead(Only(n, {Absent}), Only(m, MayHold(n) \ {Absent})) \in [Files -> SUBSET Content]
    BY <2>2, InsteadTyped
  <2> QED BY <1>1, <2>3, WidenedBy DEF rename
<1>6. CountsOK'
  BY <1>1, MoreCounts DEF rename, ScriptCalls
<1> QED BY <1>1, <1>3, <1>4, <1>5, <1>6, SameStore DEF StoreOK, rename, UNCH_flash, FlagsOK

LEMMA FdWriteIs ==
    ASSUME Calm, NEW fd \in Slots, NEW d \in Text, FdWrite(fd, d)
    PROVE  /\ th' = th /\ StoreOK' /\ (\A g \in Slots : ScriptFd(g)) /\ Held # {}
           /\ (wild' => fds[fd].state = "stale")
<1>1. StoreOK /\ FlashOK /\ FilesOK /\ MeantOK /\ FlagsOK /\ FdsOK /\ CountsOK /\ fds[fd] \in Handles
  BY TypeParts DEF Calm, StoreOK, FdsOK
<1>2. fd \in Held /\ th' = th /\ fds[fd].state # "closed"
  BY DEF FdWrite, Held
<1> DEFINE f == fds[fd]
<1>3. \E g \in Handles : /\ fds' = [fds EXCEPT ![fd] = g]
                         /\ g.name = f.name /\ g.state # "closed" /\ (g.state = "stale" => f.state = "stale")
  <2>1. CASE fds' = [fds EXCEPT ![fd].data = Overlaid(d, @), ![fd].dirty = TRUE]
    <3> DEFINE e == Overlaid(d, f.data)  g == [f EXCEPT !.data = e, !.dirty = TRUE]
    <3>1. e \in Text
      BY <1>1, OverlaidTyped DEF Handles
    <3>2. fds' = [fds EXCEPT ![fd] = g]
      BY <1>1, <2>1 DEF FdsOK
    <3> HIDE DEF e
    <3>3. g \in Handles /\ g.name = f.name /\ g.state = f.state
      BY <1>1, <3>1 DEF Handles
    <3> QED BY <1>2, <3>2, <3>3
  <2>2. CASE fds' = [fds EXCEPT ![fd].state = "lost"]
    <3> DEFINE g == [f EXCEPT !.state = "lost"]
    <3>1. fds' = [fds EXCEPT ![fd] = g]
      BY <1>1, <2>2 DEF FdsOK
    <3>2. g \in Handles /\ g.name = f.name /\ g.state = "lost"
      BY <1>1 DEF Handles
    <3> QED BY <1>2, <3>1, <3>2
  <2> QED BY <2>1, <2>2 DEF FdWrite
<1>4. PICK g \in Handles : /\ fds' = [fds EXCEPT ![fd] = g]
                           /\ g.name = f.name /\ g.state # "closed"
                              /\ (g.state = "stale" => f.state = "stale")
  BY <1>3
<1>5. FdsOK'
  BY <1>1, <1>4 DEF FdsOK
<1>6. ASSUME NEW h \in Slots PROVE ScriptFd(h)
  <2>1. CASE h = fd
    <3>1. fds'[h] = g
      BY <1>1, <1>4, <2>1 DEF FdsOK
    <3> QED BY <1>2, <1>4, <2>1, <3>1 DEF ScriptFd
  <2>2. CASE h # fd
    <3>1. fds'[h] = fds[h]
      BY <1>1, <1>4, <2>2 DEF FdsOK
    <3> QED BY <3>1, FadesSame, FadesFd
  <2> QED BY <2>1, <2>2
<1>7. CountsOK'
  BY <1>1, FaultCounts, SameStore DEF FdWrite, counters
<1> QED BY <1>1, <1>2, <1>5, <1>6, <1>7, SameStore DEF StoreOK, FdWrite, UNCH_flash, FlagsOK

LEMMA FdCloseIs ==
    ASSUME Calm, NEW fd \in Slots, FdClose(fd)
    PROVE  /\ th' = th /\ StoreOK' /\ (\A g \in Slots : ScriptFd(g)) /\ Held # {}
           /\ (wild' => fds[fd].state = "stale")
<1>1. StoreOK /\ FlashOK /\ FilesOK /\ MeantOK /\ FlagsOK /\ FdsOK /\ CountsOK /\ fds[fd] \in Handles
  BY TypeParts DEF Calm, StoreOK, FdsOK
<1>2. fd \in Held /\ th' = th /\ fds' = [fds EXCEPT ![fd] = NoFile]
  BY DEF FdClose
<1>3. FdsOK'
  BY <1>1, <1>2, NoFileTyped DEF FdsOK
<1>4. ASSUME NEW h \in Slots PROVE ScriptFd(h)
  <2>1. CASE h = fd
    <3>1. fds'[h] = NoFile
      BY <1>1, <1>2, <2>1 DEF FdsOK
    <3> QED BY <3>1 DEF ScriptFd
  <2>2. CASE h # fd
    <3>1. fds'[h] = fds[h]
      BY <1>1, <1>2, <2>2 DEF FdsOK
    <3> QED BY <3>1, FadesSame, FadesFd
  <2> QED BY <2>1, <2>2
<1>5. CountsOK'
  BY <1>1, FaultCounts, SameStore DEF FdClose, counters
<1>6. FilesOK'
  BY <1>1, CommittedTyped, SameStore DEF FdClose, FilesOK
<1>7. MeantOK'
  <2>1. fds[fd].data \in Content
    BY <1>1 DEF Handles, Content
  <2>2. meant' = [meant EXCEPT ![fds[fd].name] = @ \cup {fds[fd].data}]
    BY DEF FdClose
  <2> QED BY <1>1, <2>1, <2>2 DEF MeantOK
<1> QED BY <1>1, <1>2, <1>3, <1>4, <1>5, <1>6, <1>7, SameStore DEF StoreOK, FdClose, UNCH_flash, FlagsOK

LEMMA ScriptIs ==
    ASSUME Calm, Script
    PROVE  /\ th' \in [Threads -> AnyCall] /\ StoreOK' /\ (\A u \in Threads : Watches(u))
           /\ (\A fd \in Slots : ScriptFd(fd)) /\ Disturbs /\ Runs("script")
           /\ (clash => clash') /\ UNCHANGED <<flash, mounted, is_mounted, part, stranded>>
           /\ (wild' => clash)
<1>0. Runs("script") /\ UNCHANGED wild => ~wild'
  <2>1. Runs("script") => ~wild
    BY DEF Runs
  <2> QED BY <2>1
<1>1. ASSUME NEW do, FdOpen("demo", do)
      PROVE  /\ th' \in [Threads -> AnyCall] /\ StoreOK' /\ (\A u \in Threads : Watches(u))
             /\ (\A fd \in Slots : ScriptFd(fd)) /\ Disturbs /\ Runs("script")
             /\ (clash => clash') /\ UNCHANGED <<flash, mounted, is_mounted, part, stranded>>
             /\ (wild' => clash)
  BY <1>0, <1>1, FdOpenIs, Contents DEF FdOpen, ScriptCalls, UNCH_flash
<1>2. CASE unlink("demo")
  BY <1>0, <1>2, unlinkIs, Contents DEF unlink, ScriptCalls, UNCH_flash
<1>3. CASE rename("demo", "howto")
  BY <1>0, <1>3, renameIs, Contents DEF rename, ScriptCalls, UNCH_flash
<1>4. ASSUME NEW fd \in Slots, FdClose(fd) \/ \E d \in Scripts : FdWrite(fd, d)
      PROVE  /\ th' \in [Threads -> AnyCall] /\ StoreOK' /\ (\A u \in Threads : Watches(u))
             /\ (\A g \in Slots : ScriptFd(g)) /\ Disturbs /\ Runs("script")
             /\ (clash => clash') /\ UNCHANGED <<flash, mounted, is_mounted, part, stranded>>
             /\ (wild' => clash)
  <2>1. /\ th' = th /\ StoreOK' /\ (\A g \in Slots : ScriptFd(g)) /\ Held # {}
        /\ (wild' => fds[fd].state = "stale")
    BY <1>4, FdCloseIs, FdWriteIs, Singles
  <2>2. /\ Runs("script") /\ UNCHANGED <<flash, mounted, is_mounted, part, stranded, clash>>
    BY <1>4 DEF FdClose, FdWrite, UNCH_flash
  <2>3. wild' => clash
    BY <2>1 DEF Calm, Handling
  <2>4. \A u \in Threads : Watches(u)
    BY <2>1, FadesSame DEF Watches
  <2> QED BY <2>1, <2>2, <2>3, <2>4 DEF Disturbs, Calm, TypeOK
<1> QED BY <1>1, <1>2, <1>3, <1>4 DEF Script

-----------------------------------------------------------------------------
(* Who is alone. *)

LEMMA SingleKept ==
    ASSUME Single, \A u \in Threads : Busy(u)' => th'[u].op = th[u].op /\ (th'[u].alone => th[u].alone),
           \A fd \in Slots : fds'[fd].state # "closed" => fds[fd].state # "closed", clash => clash'
    PROVE  Single'
<1>1. \A u \in Threads : Busy(u)' => Busy(u)
  BY DEF Busy
<1>2. Held' \subseteq Held
  BY DEF Held
<1>3. \A u \in Threads : OnlyOne(u) => OnlyOne(u)'
  BY <1>1, <1>2 DEF OnlyOne, Others
<1>4. \A u \in Threads : th'[u].op = "format" => Busy(u)'
  BY DEF Busy
<1>5. "main" \in Threads
  BY DEF Threads
<1> QED BY <1>1, <1>3, <1>4, <1>5 DEF Single

\* While the device boots, nothing else runs.
LEMMA BootRunsFirst ==
    ASSUME Calm, NEW t \in {"web", "script", "shell"}, Runs(t) PROVE ~Busy("main")
<1>1. "main" \in Above[t] \cap Threads
  BY DEF Above, Threads
<1>2. SUFFICES ASSUME Waits("main") PROVE FALSE
  BY <1>1 DEF Runs
<1>3. th["main"].todo # <<>> /\ Now("main").do = "wait"
  BY <1>2 DEF Waits, Now
<1>4. /\ 1 \in 1 .. Len(th["main"].todo) /\ Now("main") = th["main"].todo[1] /\ Busy("main") /\ Roles("main")
  BY <1>1, <1>3, HeadIs DEF Calm, AllRoles
<1>5. Defaulted(th["main"].todo)
  BY <1>1, <1>4 DEF Roles, Manages
<1>6. DefaultedAt(th["main"].todo, 1)
  BY <1>4, <1>5 DEF Defaulted
<1> QED BY <1>3, <1>4, <1>6 DEF DefaultedAt, Managing, Making, Ended

LEMMA BeginSingle ==
    ASSUME Calm, NEW t \in {"web", "shell"}, NEW op, NEW steps, NEW goal, Suits(op, steps, goal),
           Begin(t, op, steps, goal)
    PROVE  Single'
<1>1. t \in Threads
  BY DEF Threads
<1>2. /\ ~Busy(t) /\ Runs(t) /\ Busy(t)'
      /\ th'[t].op = op /\ (th'[t].alone <=> (\A u \in Threads : ~Busy(u)) /\ Held = {})
      /\ \A u \in Threads \ {t} : th'[u].op = th[u].op /\ (th'[u].alone <=> th[u].alone /\ ~Busy(u))
      /\ clash => clash'
      /\ ~clash' => ((\A u \in Threads : ~Busy(u)) /\ Held = {})
                    \/ (op # "format" /\ \A u \in Threads : th[u].op # "format")
  BY <1>1, BeginIs
<1>3. ~Busy("main") /\ t # "main" /\ "main" \in Threads
  BY <1>2, BootRunsFirst DEF Threads
<1>4. Held' = Held
  BY DEF Held, Begin
<1>5. \A u \in Threads \ {t} : Busy(u)' <=> Busy(u)
  BY <1>2 DEF Busy
<1>6. (\A u \in Threads : ~Busy(u)) /\ Held = {} => OnlyOne(t)'
  BY <1>4, <1>5 DEF OnlyOne, Others
<1>7. \A u \in Threads : Busy(u)' /\ th'[u].alone => OnlyOne(u)'
  BY <1>1, <1>2, <1>5, <1>6
<1>8. ~Busy("main")'
  BY <1>3, <1>5
<1>9. ASSUME NEW u \in Threads, th'[u].op = "format", ~clash' PROVE OnlyOne(u)'
  <2>1. CASE u = t
    BY <1>2, <1>6, <1>9, <2>1
  <2>2. CASE u # t
    <3>1. th[u].op = "format"
      BY <1>2, <1>9, <2>2
    <3>2. Busy(u)
      BY <3>1 DEF Busy
    <3> QED BY <1>2, <1>9, <3>1, <3>2
  <2> QED BY <2>1, <2>2
<1> QED BY <1>7, <1>8, <1>9 DEF Single

LEMMA ScriptSingle ==
    ASSUME Calm, Script PROVE Single'
<1>1. /\ (\A u \in Threads : Watches(u)) /\ (\A fd \in Slots : ScriptFd(fd)) /\ Disturbs /\ Runs("script")
      /\ (clash => clash')
  BY ScriptIs
<1>2. \A u \in Threads : th'[u].op = th[u].op /\ (Busy(u)' <=> Busy(u)) /\ (th'[u].alone => th[u].alone)
  BY <1>1 DEF Watches, Busy
<1>3. ~Busy("main")' /\ "main" \in Threads
  BY <1>1, <1>2, BootRunsFirst DEF Threads
<1>4. Single
  BY DEF Calm
<1>5. ASSUME NEW u \in Threads, Busy(u)', th'[u].alone PROVE FALSE
  BY <1>1, <1>2, <1>4, <1>5 DEF Disturbs, Single, OnlyOne
<1>6. ASSUME NEW u \in Threads, th'[u].op = "format", ~clash' PROVE OnlyOne(u)'
  <2>1. OnlyOne(u)
    BY <1>1, <1>2, <1>4, <1>6 DEF Single
  <2>2. \A fd \in Slots : fds'[fd].state = "closed"
    <3> SUFFICES ASSUME NEW fd \in Slots PROVE fds'[fd].state = "closed"
      OBVIOUS
    <3>1. fds[fd].state = "closed"
      BY <2>1 DEF OnlyOne, Held
    <3>2. th[u].op = "format"
      BY <1>2, <1>6
    <3> QED BY <1>1, <1>6, <3>1, <3>2, NoFileTyped DEF ScriptFd
  <2>3. Held' = {}
    BY <2>2 DEF Held
  <2> QED BY <1>2, <2>1, <2>3 DEF OnlyOne, Others
<1> QED BY <1>3, <1>5, <1>6 DEF Single

LEMMA RestartSingle ==
    ASSUME th' = Booting, fds' = NoFds PROVE Single'
<1>1. \A u \in Threads \ {"main"} : ~Busy(u)' /\ th'[u].op = "none"
  BY BootingIs, NoCallTyped DEF Busy
<1>2. Held' = {}
  BY NoFileTyped DEF Held, NoFds
<1>3. OnlyOne("main")' /\ th'["main"].op = "boot"
  BY <1>1, <1>2, BootingIs DEF OnlyOne, Others
<1> QED BY <1>1, <1>3 DEF Single

\* No step of a call opens a descriptor.
LEMMA StepFds ==
    ASSUME Calm, NEW t \in Threads, Steps(t)
    PROVE  clash' = clash /\ \A fd \in Slots : Fades(fds[fd], fds'[fd])
<1>1. CASE Unlink(t) \/ Rename(t)
  <2>1. PICK ns : LostFds(ns)
    BY <1>1 DEF Unlink, Rename, RemoveFile, RenameFile
  <2>2. \A fd \in Slots : fds'[fd] = Lost(fds[fd], ns) /\ fds[fd] \in Handles
    BY <2>1 DEF LostFds, Calm, TypeOK
  <2>3. clash' = clash
    BY <1>1 DEF Unlink, Rename, UNCH_count
  <2>4. ASSUME NEW f \in Handles PROVE Fades(f, Lost(f, ns))
    BY LostIs DEF Fades
  <2> QED BY <2>2, <2>3, <2>4
<1>2. CASE Unmount(t)
  BY <1>2, UnmountIs DEF Unmount, UNCH_count
<1>3. CASE ~(Unlink(t) \/ Rename(t) \/ Unmount(t))
  <2>1. fds' = fds /\ clash' = clash
    BY <1>3 DEF Steps, CheckMounted, Open, Transfer, Close, Fail, Mkfs, MkfsFails, Mount,
         FirstMount, NoteMounted, DefaultFile, LoadName, Return, UNCH_count
  <2> QED BY <2>1, FadesSame
<1> QED BY <1>1, <1>2, <1>3

LEMMA StepSingle ==
    ASSUME Calm, NEW t \in Threads, Steps(t) PROVE Single'
<1>1. clash' = clash /\ \A fd \in Slots : fds'[fd].state # "closed" => fds[fd].state # "closed"
  BY StepFds DEF Fades
<1>2. \A u \in Threads : Busy(u)' => th'[u].op = th[u].op /\ (th'[u].alone => th[u].alone)
  <2>1. CASE Return(t)
    BY <2>1, ReturnIs DEF SameBut
  <2>2. CASE ~Return(t)
    BY <2>2, StepRole DEF Beside, SameCall, OnItsWay
  <2> QED BY <2>1, <2>2
<1> QED BY <1>1, <1>2, SingleKept DEF Calm

-----------------------------------------------------------------------------
(* Files are opened before they are used, and closed after. *)

HandledIn(t) ==
    /\ ~Inside(th[t].todo, 1) => th[t].file = NoFile
    /\ Inside(th[t].todo, 1) => th[t].file.state # "closed" /\ th[t].file.name = th[t].todo[1].name
    /\ ~clash => th[t].file.state # "stale"

HandledFd(fd) ==
    /\ fds[fd].state = "closed" => fds[fd] = NoFile
    /\ fds[fd].state # "closed" => fds[fd].name \in UserFiles
    /\ ~clash => fds[fd].state # "stale"

LEMMA HandlingParts == Handling <=> (\A t \in Threads : HandledIn(t)) /\ (\A fd \in Slots : HandledFd(fd))
BY DEF Handling, HandledIn, HandledFd

LEMMA FadesHandled ==
    ASSUME Handling, NEW u \in Threads, th'[u].todo = th[u].todo, Fades(th[u].file, th'[u].file),
           clash => clash'
    PROVE  HandledIn(u)'
<1>1. HandledIn(u)
  BY HandlingParts
<1> QED BY <1>1, NoFileTyped DEF HandledIn, Fades

LEMMA FadesFdHandled ==
    ASSUME Handling, NEW fd \in Slots, Fades(fds[fd], fds'[fd]), clash => clash' PROVE HandledFd(fd)'
<1>1. HandledFd(fd)
  BY HandlingParts
<1> QED BY <1>1, NoFileTyped DEF HandledFd, Fades

LEMMA ScriptFdHandled ==
    ASSUME Handling, NEW fd \in Slots, ScriptFd(fd), clash => clash' PROVE HandledFd(fd)'
<1>1. HandledFd(fd)
  BY HandlingParts
<1> QED BY <1>1, NoFileTyped DEF HandledFd, ScriptFd

\* Its file has been given up.
LEMMA OutsideHandled ==
    ASSUME NEW t \in Threads, th'[t].file = NoFile, ~Inside(th'[t].todo, 1) PROVE HandledIn(t)'
BY NoFileTyped DEF HandledIn

\* What comes after a step, or after those that depend on it.
LEMMA RestHandled ==
    ASSUME Calm, NEW t \in Threads, th[t].todo # <<>>, NEW k \in {2, 2 + Now(t).skip},
           th'[t].todo = Rest(th[t].todo, k),
           clash => clash',
           LET f == th[t].file  g == th'[t].file  x == Now(t)
           IN \/ (Inner(x) => x.do = "close") /\ x.do \notin Opening /\ g = NoFile
              \/ x.do \in Opening /\ k = 2 /\ g.name = x.name /\ g.state = "open"
              \/ x.do \in Opening /\ k = 2 + x.skip /\ g = NoFile
              \/ Inner(x) /\ x.do # "close" /\ g.name = f.name /\ g.state # "closed"
                 /\ (g.state = "stale" => f.state = "stale")
    PROVE  HandledIn(t)'
<1> DEFINE s == th[t].todo  x == Now(t)  r == Rest(s, k)
<1>1. /\ s \in Seq(AnyStep) /\ LaidAt(s, 1) /\ x = s[1] /\ x.skip \in Nat
      /\ Inner(x) => th[t].file.state # "closed" /\ th[t].file.name = x.name
      /\ 1 + 1 = 2 /\ 1 + 1 + x.skip = 2 + x.skip
  BY HeadIs
<1>2. k \in Nat \ {0}
  BY <1>1
<1>3. /\ Inside(r, 1) <=> Inside(s, k)
      /\ Inside(s, k) => r[1] = s[k]
  <2>1. 1 + k - 1 = k /\ 1 \in Nat \ {0}
    BY <1>2
  <2>2. Inside(r, 1) <=> Inside(s, 1 + k - 1)
    BY <1>1, <1>2, <2>1, RestSteps
  <2>3. 1 \in 1 .. Len(r) => r[1] = s[1 + k - 1]
    BY <1>1, <1>2, <2>1, RestSteps
  <2> QED BY <2>1, <2>2, <2>3 DEF Inside
<1>4. HandledAt(s, 1)
  BY <1>1 DEF LaidAt
<1>5. HandledIn(t)
  BY HandlingParts DEF Calm
<1>6. th'[t].todo = r
  OBVIOUS
<1> HIDE DEF r
<1>7. CASE (Inner(x) => x.do = "close") /\ x.do \notin Opening /\ th'[t].file = NoFile
  <2>1. ~Inside(s, k)
    BY <1>1, <1>4, <1>7 DEF HandledAt
  <2> QED BY <1>3, <1>6, <1>7, <2>1, OutsideHandled
<1>8. CASE x.do \in Opening /\ k = 2 + x.skip /\ th'[t].file = NoFile
  <2>1. ~Inside(s, k)
    BY <1>1, <1>4, <1>8 DEF HandledAt
  <2> QED BY <1>3, <1>6, <1>8, <2>1, OutsideHandled
<1>9. CASE x.do \in Opening /\ k = 2 /\ th'[t].file.name = x.name /\ th'[t].file.state = "open"
  <2>1. Inside(s, k) /\ s[k].name = x.name
    BY <1>1, <1>4, <1>9 DEF HandledAt, InsideOf
  <2> QED BY <1>3, <1>6, <1>9, <2>1 DEF HandledIn
<1>10. CASE /\ Inner(x) /\ x.do # "close" /\ th'[t].file.name = th[t].file.name /\ th'[t].file.state # "closed"
            /\ (th'[t].file.state = "stale" => th[t].file.state = "stale")
  <2>1. Inside(s, k) /\ s[k].name = x.name
    BY <1>1, <1>4, <1>10 DEF HandledAt, InsideOf
  <2> QED BY <1>1, <1>3, <1>5, <1>6, <1>10, <2>1 DEF HandledIn
<1> QED BY <1>7, <1>8, <1>9, <1>10

LEMMA PlainHandled ==
    ASSUME Calm, NEW t \in Threads, th[t].todo # <<>>, Took(t) \/ Skipped(t), clash => clash',
           Inner(Now(t)) => Now(t).do = "close", Now(t).do \notin Opening, th'[t].file = NoFile
    PROVE  HandledIn(t)'
BY RestHandled DEF Took, Skipped

LEMMA StepHandled ==
    ASSUME Calm, NEW t \in Threads, Steps(t) PROVE HandledIn(t)'
<1>0. clash => clash'
  BY StepFds
<1>1. CASE CheckMounted(t)
  <2>1. th[t].todo # <<>> /\ Now(t).do = "check"
    BY <1>1 DEF CheckMounted, Doing
  <2> QED BY <1>0, <1>1, <2>1, CheckIs, PlainHandled DEF Inner, Opening
<1>2. CASE Open(t)
  <2>1. th[t].todo # <<>> /\ Now(t).do \in Opening
    BY <1>2 DEF Open, Doing, Opening
  <2>2. /\ Took(t) /\ th'[t].file.name = Now(t).name /\ th'[t].file.state = "open"
    BY <1>2, OpenIs, OpenedIs DEF Calm
  <2> QED BY <1>0, <2>1, <2>2, RestHandled DEF Took
<1>3. CASE Transfer(t)
  <2>1. th[t].todo # <<>> /\ Now(t).do \in {"write", "append", "read", "wait"}
    BY <1>3 DEF Transfer, Doing
  <2>2. Took(t) /\ th'[t].file.name = th[t].file.name /\ th'[t].file.state = th[t].file.state
        /\ (Now(t).do = "wait" => th'[t].file = th[t].file)
    BY <1>3, TransferIs
  <2>3. CASE Inner(Now(t))
    <3>1. th[t].file.state # "closed"
      BY <2>1, <2>3, HeadIs
    <3> QED BY <1>0, <2>1, <2>2, <2>3, <3>1, RestHandled DEF Took
  <2>4. CASE ~Inner(Now(t))
    <3>1. Now(t).do = "wait" /\ th[t].file = NoFile
      BY <2>1, <2>4, HeadIs DEF Inner
    <3> QED BY <1>0, <2>1, <2>2, <2>4, <3>1, PlainHandled DEF Opening
  <2> QED BY <2>3, <2>4
<1>4. CASE Close(t)
  <2>1. th[t].todo # <<>> /\ Now(t).do = "close"
    BY <1>4 DEF Close, Doing
  <2> QED BY <1>0, <1>4, <2>1, CloseIs, PlainHandled DEF Opening
<1>5. CASE Unlink(t) \/ Rename(t)
  <2>1. th[t].todo # <<>> /\ Now(t).do \in {"unlink", "rename"}
    BY <1>5 DEF Unlink, Rename, Doing
  <2> QED BY <1>0, <1>5, <2>1, RemoveIs, PlainHandled DEF Inner, Opening
<1>6. CASE Fail(t)
  <2>1. th[t].todo # <<>>
    BY <1>6 DEF Fail, Doing
  <2>2. LET f == th[t].file  g == th'[t].file
        IN /\ Skipped(t)
           /\ Now(t).do = "close" => g = NoFile
           /\ Now(t).do # "close" => /\ g.name = f.name
                                     /\ g.state = f.state \/ (g.state = "lost" /\ f.state = "open")
           /\ Now(t).do \notin {"close", "write", "append"} => g = f
    BY <1>6, FailIs
  <2>3. ~Inner(Now(t)) => th[t].file = NoFile
    BY <2>1, HeadIs
  <2>4. CASE Now(t).do \in Opening
    BY <1>0, <2>1, <2>2, <2>3, <2>4, RestHandled DEF Skipped, Inner, Opening
  <2>5. CASE Now(t).do \notin Opening /\ (Inner(Now(t)) => Now(t).do = "close")
    <3>1. th'[t].file = NoFile
      BY <2>2, <2>3, <2>5 DEF Inner
    <3> QED BY <1>0, <2>1, <2>2, <2>5, <3>1, PlainHandled
  <2>6. CASE Inner(Now(t)) /\ Now(t).do # "close"
    <3>1. th[t].file.state # "closed"
      BY <2>1, <2>6, HeadIs
    <3> QED BY <1>0, <2>1, <2>2, <2>6, <3>1, RestHandled DEF Skipped
  <2> QED BY <2>4, <2>5, <2>6
<1>7. CASE Unmount(t)
  <2>1. th[t].todo # <<>> /\ Now(t).do = "unmount"
    BY <1>7 DEF Unmount, Doing
  <2> QED BY <1>0, <1>7, <2>1, UnmountIs, PlainHandled DEF Inner, Opening
<1>8. CASE Mkfs(t) \/ Mount(t) \/ NoteMounted(t)
  <2>1. th[t].todo # <<>> /\ Now(t).do \in {"mkfs", "remkfs", "mount", "remount", "set"}
    BY <1>8 DEF Mkfs, Mount, NoteMounted, Doing
  <2> QED BY <1>0, <1>8, <2>1, PlainIs, PlainHandled DEF Inner, Opening
<1>9. CASE MkfsFails(t)
  <2>1. th[t].todo # <<>> /\ Now(t).do \in {"mkfs", "remkfs"}
    BY <1>9 DEF MkfsFails, Doing
  <2> QED BY <1>0, <1>9, <2>1, MkfsFailsIs, PlainHandled DEF Inner, Opening
<1>10. CASE FirstMount(t)
  <2>1. th[t].todo # <<>> /\ Now(t).do = "init"
    BY <1>10 DEF FirstMount, Doing
  <2>2. /\ th'[t].file = NoFile
        /\ \/ Took(t) \/ th'[t].todo = Reformat \o Tail(BootPlan)
           \/ th'[t].todo = FormatBlank \o Tail(BootPlan)
    BY <1>10, FirstMountIs
  <2>3. CASE Took(t)
    BY <1>0, <2>1, <2>2, <2>3, PlainHandled DEF Inner, Opening
  <2>4. CASE th'[t].todo = Reformat \o Tail(BootPlan)
    <3>1. ~Inside(th'[t].todo, 1)
      BY <2>4, ReformatIs DEF Inside, Inner
    <3> QED BY <2>2, <3>1, OutsideHandled
  <2>5. CASE th'[t].todo = FormatBlank \o Tail(BootPlan)
    <3>1. ~Inside(th'[t].todo, 1)
      BY <2>5, FormatBlankIs DEF Inside, Inner
    <3> QED BY <2>2, <3>1, OutsideHandled
  <2> QED BY <2>2, <2>3, <2>4, <2>5
<1>11. CASE DefaultFile(t)
  <2> DEFINE n == Now(t).name  c == Now(t).data
  <2>1. th[t].todo # <<>> /\ Now(t).do = "default"
    BY <1>11 DEF DefaultFile, Doing
  <2>2. /\ th'[t].file = NoFile /\ n \in UserFiles /\ c \in Text
        /\ Missing(n, c) => Extends(t, WriteFile(n, c), Only(n, {c}))
        /\ ~Missing(n, c) => Took(t)
    BY <1>11, DefaultFileIs
  <2>3. CASE ~Missing(n, c)
    BY <1>0, <2>1, <2>2, <2>3, PlainHandled DEF Inner, Opening
  <2>4. CASE Missing(n, c)
    <3> DEFINE r == Rest(th[t].todo, 2)
    <3>1. th'[t].todo = WriteFile(n, c) \o r /\ r \in Seq(AnyStep)
      BY <2>1, <2>2, <2>4, HeadIs, RestIs DEF Extends
    <3>2. th'[t].todo[1].do = "check"
      BY <2>2, <3>1, WriteThen
    <3>3. ~Inside(th'[t].todo, 1)
      BY <3>2 DEF Inside, Inner
    <3> QED BY <2>2, <3>3, OutsideHandled
  <2> QED BY <2>3, <2>4
<1>12. CASE LoadName(t)
  <2>1. th[t].todo # <<>> /\ Now(t).do = "loadName"
    BY <1>12 DEF LoadName, Doing
  <2>2. /\ th'[t].file = NoFile /\ DefaultName \in Text
        /\ Took(t) \/ th'[t].todo = Saved("name", DefaultName)
    BY <1>12, LoadNameIs
  <2>3. CASE Took(t)
    BY <1>0, <2>1, <2>2, <2>3, PlainHandled DEF Inner, Opening
  <2>4. CASE th'[t].todo = Saved("name", DefaultName)
    <3>1. ~Inside(th'[t].todo, 1)
      BY <2>2, <2>4, SavedIs, Contents DEF Inside, Inner
    <3> QED BY <2>2, <3>1, OutsideHandled
  <2> QED BY <2>2, <2>3, <2>4
<1>13. CASE Return(t)
  BY <1>13, ReturnIs, OutsideHandled DEF Inside
<1> QED BY <1>1, <1>2, <1>3, <1>4, <1>5, <1>6, <1>7, <1>8, <1>9, <1>10, <1>11, <1>12, <1>13 DEF Steps

-----------------------------------------------------------------------------
(* Every step keeps the calls in order. *)

LEMMA TypeNext == StoreOK' /\ th' \in [Threads -> AnyCall] => TypeOK'
BY DEF TypeOK, StoreOK, MeantOK, FlashOK, FlagsOK, CountsOK, FilesOK, FdsOK

LEMMA HandlingNext == (\A t \in Threads : HandledIn(t)') /\ (\A fd \in Slots : HandledFd(fd)') => Handling'
BY DEF Handling, HandledIn, HandledFd

LEMMA BeginCalm ==
    ASSUME Calm, NEW t \in {"web", "shell"}, NEW op, NEW steps, NEW goal, Suits(op, steps, goal),
           Begin(t, op, steps, goal)
    PROVE  Calm'
<1>1. t \in Threads /\ t # "main"
  BY DEF Threads
<1>2. /\ th' \in [Threads -> AnyCall] /\ Busy(t)' /\ (clash => clash')
      /\ th'[t].op = op /\ th'[t].todo = steps /\ th'[t].file = NoFile
      /\ \A u \in Threads \ {t} : th'[u].op = th[u].op /\ th'[u].todo = th[u].todo /\ th'[u].file = th[u].file
  BY <1>1, BeginIs
<1>3. TypeOK'
  BY <1>1, <1>2, BeginStore, TypeNext
<1>4. Roles(t)'
  <2>1. op # "boot" /\ Laid(steps)
    BY DEF Suits, Kinds
  <2>2. CASE op = "format"
    <3>1. steps = FormatPlan /\ Defaulted(steps)
      BY <2>2, FormatPlanLaid DEF Suits
    <3>2. \A i \in 1 .. Len(steps) : steps[i].do \notin {"init", "remkfs", "remount", "loadName"}
      BY <3>1, FormatPlanIs
    <3> QED BY <1>1, <1>2, <2>1, <2>2, <3>1, <3>2, NewRole DEF Manages
  <2>3. CASE op # "format"
    <3>1. \A i \in 1 .. Len(steps) : steps[i].do \notin Managing
      BY <2>3 DEF Suits
    <3>2. \A i \in 1 .. Len(steps) : steps[i].do \notin {"init", "remkfs", "remount", "loadName"}
      BY <3>1 DEF Managing, Making, Ended
    <3>3. ~Manages(t)'
      BY <1>2, <2>1, <2>3 DEF Manages
    <3> QED BY <1>1, <1>2, <2>1, <3>1, <3>2, <3>3, NewRole
  <2> QED BY <2>2, <2>3
<1>5. AllRoles'
  <2>1. \A u \in Threads \ {t} : Roles(u)'
    BY <1>2, SameRole
  <2> QED BY <1>4, <2>1 DEF AllRoles
<1>6. Single'
  BY BeginSingle
<1>7. Handling'
  <2>1. HandledIn(t)'
    <3>1. Do(steps, 1) \in {"check", "look", "truncate", "open", "unlink", "unmount"}
      BY DEF Suits
    <3>2. ~Inside(steps, 1)
      BY <3>1 DEF Inside, Inner, Do
    <3>3. th'[t].file = NoFile /\ ~Inside(th'[t].todo, 1)
      BY <1>2, <3>2
    <3> QED BY <1>1, <3>3, OutsideHandled
  <2>2. \A u \in Threads \ {t} : HandledIn(u)'
    BY <1>2, FadesSame, FadesHandled DEF Calm
  <2>3. \A fd \in Slots : HandledFd(fd)'
    BY <1>2, FadesSame, FadesFdHandled DEF Calm, Begin
  <2> QED BY <2>1, <2>2, <2>3, HandlingNext
<1> QED BY <1>3, <1>5, <1>6, <1>7 DEF Calm

LEMMA StepCalm ==
    ASSUME Calm, NEW t \in Threads, Steps(t) PROVE Calm'
<1>1. clash' = clash /\ \A fd \in Slots : Fades(fds[fd], fds'[fd])
  BY StepFds
<1>2. /\ th' \in [Threads -> AnyCall]
      /\ \A u \in Threads \ {t} : /\ th'[u].op = th[u].op /\ th'[u].todo = th[u].todo
                                  /\ Fades(th[u].file, th'[u].file)
      /\ Roles(t)'
  <2>1. CASE Return(t)
    <3>1. /\ th' \in [Threads -> AnyCall] /\ SameBut(th', t) /\ ~Busy(t)' /\ Busy(t)
          /\ th'[t].op = "none" /\ th'[t].todo = <<>>
      BY <2>1, ReturnIs
    <3>2. Roles(t)'
      BY <3>1 DEF Roles, Laid, Manages
    <3> QED BY <3>1, <3>2, FadesSame DEF SameBut
  <2>2. CASE ~Return(t)
    BY <2>2, StepRole DEF Beside, SameCall
  <2> QED BY <2>1, <2>2
<1>3. TypeOK'
  BY <1>2, StepStore, TypeNext
<1>4. AllRoles'
  <2>1. \A u \in Threads \ {t} : Roles(u)'
    BY <1>2, SameRole
  <2> QED BY <1>2, <2>1 DEF AllRoles
<1>5. Single'
  BY StepSingle
<1>6. Handling'
  <2>1. HandledIn(t)'
    BY StepHandled
  <2>2. \A u \in Threads \ {t} : HandledIn(u)'
    BY <1>1, <1>2, FadesHandled DEF Calm
  <2>3. \A fd \in Slots : HandledFd(fd)'
    BY <1>1, FadesFdHandled DEF Calm
  <2> QED BY <2>1, <2>2, <2>3, HandlingNext
<1> QED BY <1>3, <1>4, <1>5, <1>6 DEF Calm

LEMMA ScriptCalm ==
    ASSUME Calm, Script PROVE Calm'
<1>1. /\ th' \in [Threads -> AnyCall] /\ StoreOK' /\ (\A u \in Threads : Watches(u))
      /\ (\A fd \in Slots : ScriptFd(fd)) /\ (clash => clash')
  BY ScriptIs
<1>2. TypeOK'
  BY <1>1, TypeNext
<1>3. AllRoles'
  BY <1>1, SameRole DEF AllRoles, Watches
<1>4. Single'
  BY ScriptSingle
<1>5. Handling'
  <2>1. \A u \in Threads : HandledIn(u)'
    BY <1>1, FadesHandled DEF Calm, Watches
  <2>2. \A fd \in Slots : HandledFd(fd)'
    BY <1>1, ScriptFdHandled DEF Calm
  <2> QED BY <2>1, <2>2, HandlingNext
<1> QED BY <1>2, <1>3, <1>4, <1>5 DEF Calm

\* The device as it starts, for the first time or once more.
LEMMA BootCalls ==
    ASSUME NEW b, b = Booting, NEW u \in Threads
    PROVE  /\ u = "main" => b[u].op = "boot" /\ b[u].todo = BootPlan /\ b[u].file = NoFile
           /\ u # "main" => b[u].op = "none" /\ b[u].todo = <<>> /\ b[u].file = NoFile
BY BootingIs, NoCallTyped

LEMMA RestartCalm ==
    ASSUME Calm, Restart PROVE Calm'
<1>0. th' = Booting /\ fds' = NoFds
  BY DEF Restart
<1>1. \A u \in Threads : /\ u = "main" => th'[u].op = "boot" /\ th'[u].todo = BootPlan /\ th'[u].file = NoFile
                         /\ u # "main" => th'[u].op = "none" /\ th'[u].todo = <<>> /\ th'[u].file = NoFile
  BY <1>0, BootCalls
<1>2. TypeOK'
  <2>1. StoreOK /\ FlashOK /\ FilesOK /\ MeantOK /\ FlagsOK /\ FdsOK /\ CountsOK
    BY TypeParts DEF Calm, StoreOK
  <2>2. CountsOK'
    BY <2>1, MoreCounts DEF Restart
  <2>3. FdsOK'
    BY <1>0, NoFileTyped DEF NoFds, FdsOK
  <2>4. FlashOK' /\ FlagsOK'
    BY <2>1 DEF Restart, FlashOK, FlagsOK
  <2>5. FilesOK' /\ MeantOK'
    BY <2>1, SameStore DEF Restart
  <2> QED BY <1>0, <2>2, <2>3, <2>4, <2>5, BootingIs, TypeNext DEF StoreOK
<1>3. AllRoles'
  <2>1. Roles("main")'
    BY <1>1, BootingIs, BootPlanLaid, BootRole
  <2>2. \A u \in Threads \ {"main"} : Roles(u)'
    BY <1>1 DEF Roles, Laid, Manages, Busy
  <2> QED BY <2>1, <2>2 DEF AllRoles
<1>4. Single'
  BY <1>0, RestartSingle
<1>5. Handling'
  <2>1. \A u \in Threads : ~Inside(th'[u].todo, 1) /\ th'[u].file = NoFile
    BY <1>1, BootPlanIs DEF Inside, Inner
  <2>2. \A u \in Threads : HandledIn(u)'
    BY <2>1, OutsideHandled
  <2>3. \A fd \in Slots : HandledFd(fd)'
    BY <1>0, NoFileTyped DEF NoFds, HandledFd
  <2> QED BY <2>2, <2>3, HandlingNext
<1> QED BY <1>2, <1>3, <1>4, <1>5 DEF Calm

LEMMA InitCalm == ASSUME Init PROVE Calm
<1>0. th = Booting /\ fds = NoFds
  BY DEF Init
<1>1. \A u \in Threads : /\ u = "main" => th[u].op = "boot" /\ th[u].todo = BootPlan /\ th[u].file = NoFile
                         /\ u # "main" => th[u].op = "none" /\ th[u].todo = <<>> /\ th[u].file = NoFile
  BY <1>0, BootCalls
<1>2. TypeOK
  <2>1. CountsOK
    BY StorageAssumption DEF Init, CountsOK
  <2>2. FdsOK
    BY <1>0, NoFileTyped DEF NoFds, FdsOK
  <2>3. FlashOK /\ FlagsOK
    <3>1. flash \in [ok : BOOLEAN, size : {"static", "chip"}]
      <4>1. CASE flash = [ok |-> FALSE, size |-> "static"]
        BY <4>1
      <4>2. CASE flash \in [ok : {TRUE}, size : {"static", "chip"}]
        BY <4>2
      <4> QED BY <4>1, <4>2 DEF Init
    <3> QED BY <3>1 DEF Init, FlashOK, FlagsOK
  <2>4. FilesOK
    <3>1. OldName \in Text /\ Demo \in Text
      BY StorageAssumption
    <3> QED BY <3>1 DEF Init, FilesOK, Content
  <2>5. MeantOK
    BY <2>4 DEF Init, FilesOK, MeantOK
  <2> QED BY <1>0, <2>1, <2>2, <2>3, <2>4, <2>5, BootingIs, TypeParts DEF StoreOK
<1>3. AllRoles
  <2>1. Roles("main")
    <3>1. th["main"].op = "boot" /\ th["main"].todo = BootPlan
      BY <1>1, BootingIs
    <3>2. Laid(BootPlan) /\ Defaulted(BootPlan)
      BY BootPlanLaid
    <3> QED BY <3>1, <3>2 DEF Roles, Busy, Manages
  <2>2. \A u \in Threads \ {"main"} : Roles(u)
    BY <1>1 DEF Roles, Laid, Manages, Busy
  <2> QED BY <2>1, <2>2 DEF AllRoles
<1>4. Single
  <2>1. \A u \in Threads \ {"main"} : ~Busy(u) /\ th[u].op = "none"
    BY <1>1 DEF Busy
  <2>2. Held = {}
    BY <1>0, NoFileTyped DEF Held, NoFds
  <2>3. OnlyOne("main") /\ th["main"].op = "boot"
    BY <1>1, <2>1, <2>2, BootingIs DEF OnlyOne, Others
  <2> QED BY <2>1, <2>3 DEF Single
<1>5. Handling
  <2>1. \A u \in Threads : ~Inside(th[u].todo, 1) /\ th[u].file = NoFile
    BY <1>1, BootPlanIs DEF Inside, Inner
  <2>2. \A u \in Threads : HandledIn(u)
    BY <2>1, NoFileTyped DEF HandledIn
  <2>3. \A fd \in Slots : HandledFd(fd)
    BY <1>0, NoFileTyped DEF NoFds, HandledFd
  <2> QED BY <2>2, <2>3, HandlingParts
<1> QED BY <1>2, <1>3, <1>4, <1>5 DEF Calm

-----------------------------------------------------------------------------
(* Mounting and formatting. *)

OneNotes == \A t, u \in Threads : Next1(t) = "set" /\ Next1(u) = "set" => t = u

Ordered == (\A t \in Threads : Mounting(t)) /\ OneNotes /\ Noting /\ MountedIsReal

InvWild == Calm /\ Ordered /\ OnlyClashesWild

\* The call is not in the middle of mounting.
Outside(t) == Next1(t) \notin Making \/ (Next1(t) = "unmount" /\ th[t].op # "boot")

LEMMA OutsideMounting == ASSUME NEW t \in Threads, Outside(t)' PROVE Mounting(t)' /\ Next1(t)' # "set"
BY DEF Outside, Mounting, Making

LEMMA NextIs ==
    ASSUME Calm, NEW t \in Threads, th[t].todo # <<>>
    PROVE  /\ Took(t) => Next1(t)' = Do(th[t].todo, 2)
           /\ Skipped(t) => Next1(t)' = Do(th[t].todo, 2 + Now(t).skip)
           /\ Next1(t) = Now(t).do /\ ManagedAt(th[t].todo, 1) /\ Now(t) = th[t].todo[1]
           /\ 1 + 1 = 2 /\ 1 + 1 + Now(t).skip = 2 + Now(t).skip
<1> DEFINE s == th[t].todo  k == 2 + Now(t).skip
<1>1. s \in Seq(AnyStep) /\ LaidAt(s, 1) /\ Now(t).do = Do(s, 1) /\ Now(t) = s[1] /\ k \in Nat \ {0}
      /\ 1 + 1 = 2 /\ 1 + 1 + Now(t).skip = k
  BY HeadIs
<1>2. 1 + 2 - 1 = 2 /\ 1 + k - 1 = k
  BY <1>1
<1> HIDE DEF s, k
<1>3. Do(Rest(s, 2), 1) = Do(s, 2) /\ Do(Rest(s, k), 1) = Do(s, k)
  BY <1>1, <1>2, RestSteps
<1> QED BY <1>1, <1>3 DEF Took, Skipped, Next1, LaidAt, s, k

\* Steps that neither mount nor note anything.
LEMMA Aside ==
    ASSUME Ordered, NEW t \in Threads,
           \A u \in Threads \ {t} : th'[u].op = th[u].op /\ th'[u].todo = th[u].todo,
           Outside(t), Outside(t)', UNCHANGED <<mounted, is_mounted>>, stranded => stranded', clash => clash'
    PROVE  Ordered'
<1>1. \A u \in Threads \ {t} : Next1(u)' = Next1(u)
  BY DEF Next1
<1>2. Mounting(t)' /\ Next1(t)' # "set"
  BY OutsideMounting
<1>3. ASSUME NEW u \in Threads \ {t} PROVE Mounting(u)'
  <2>1. Mounting(u)
    BY DEF Ordered
  <2> QED BY <1>1, <2>1 DEF Mounting
<1>4. OneNotes'
  BY <1>1, <1>2 DEF Ordered, OneNotes
<1>5. Noting'
  <2>1. Next1(t) # "set" /\ ~(th[t].op = "boot" /\ Next1(t) = "unmount")
    BY DEF Outside, Making
  <2> QED BY <1>1, <2>1 DEF Ordered, Noting
<1>6. MountedIsReal'
  BY DEF Ordered, MountedIsReal
<1> QED BY <1>2, <1>3, <1>4, <1>5, <1>6 DEF Ordered

\* Steps of a call that nobody else has a call beside.
LEMMA Alone ==
    ASSUME Calm, NEW t \in Threads, OnlyOne(t),
           \A u \in Threads \ {t} : th'[u].todo = th[u].todo,
           Mounting(t)', MountedIsReal',
           mounted' /\ ~is_mounted' => Next1(t)' = "set" \/ (th'[t].op = "boot" /\ Next1(t)' = "unmount")
    PROVE  Ordered'
<1>1. ASSUME NEW u \in Threads \ {t} PROVE Next1(u)' = "end"
  <2>1. th[u].todo = <<>>
    BY IdleIs DEF OnlyOne, Others
  <2> QED BY <2>1 DEF Next1, Do
<1>2. \A u \in Threads \ {t} : Mounting(u)'
  BY <1>1 DEF Mounting, Making
<1>3. OneNotes'
  BY <1>1 DEF OneNotes
<1>4. Noting'
  BY DEF Noting
<1> QED BY <1>2, <1>3, <1>4 DEF Ordered

LEMMA UnmountOrdered ==
    ASSUME Calm, Ordered, NEW t \in Threads, Unmount(t) PROVE Ordered'
<1>1. th[t].todo # <<>> /\ Now(t).do = "unmount"
  BY DEF Unmount, Doing
<1>2. Now(t).do \in Managing
  BY <1>1 DEF Managing, Making
<1>3. Manages(t) /\ (th[t].op = "boot" => OnlyOne(t)) /\ (~clash => OnlyOne(t))
  BY <1>1, <1>2, ManagerIs
<1>4. /\ \A u \in Threads \ {t} : th'[u].op = th[u].op /\ th'[u].todo = th[u].todo
      /\ Took(t) /\ th'[t].op = th[t].op
  BY UnmountIs DEF Beside, SameCall, Took, OnItsWay
<1>5. Next1(t)' \in {"mkfs", "remkfs"} /\ Next1(t) = "unmount"
  BY <1>1, <1>4, NextIs DEF ManagedAt
<1>6. \A u \in Threads \ {t} : Next1(u)' = Next1(u)
  BY <1>4 DEF Next1
<1>7. clash' = clash /\ stranded' = stranded
  BY DEF Unmount, UNCH_count
<1>8. Mounting(t) /\ Noting /\ OneNotes /\ MountedIsReal
  BY DEF Ordered
<1>9. CASE is_mounted \/ th[t].op = "boot"
  <2>1. mounted' = FALSE /\ is_mounted' = FALSE
    BY <1>9 DEF Unmount
  <2>2. Mounting(t)'
    BY <1>5, <2>1 DEF Mounting
  <2>3. ASSUME NEW u \in Threads \ {t} PROVE Mounting(u)'
    <3>1. Mounting(u) /\ Mounting(t)
      BY DEF Ordered
    <3>2. CASE th[t].op = "boot"
      <4>1. th[u].todo = <<>>
        BY <1>3, <3>2, IdleIs DEF OnlyOne, Others
      <4>2. Next1(u)' = "end"
        BY <1>4, <4>1 DEF Next1, Do
      <4> QED BY <4>2 DEF Mounting, Making
    <3>3. CASE is_mounted
      <4>1. Next1(u) # "set"
        BY <3>1, <3>3 DEF Mounting
      <4> QED BY <1>6, <2>1, <4>1 DEF Mounting
    <3> QED BY <1>9, <3>2, <3>3
  <2>4. OneNotes'
    BY <1>5, <1>6, <1>8 DEF OneNotes
  <2>5. Noting' /\ MountedIsReal'
    BY <2>1 DEF Noting, MountedIsReal
  <2> QED BY <2>2, <2>3, <2>4, <2>5 DEF Ordered
<1>10. CASE ~is_mounted /\ th[t].op # "boot"
  <2>1. UNCHANGED <<mounted, is_mounted>>
    BY <1>10 DEF Unmount
  <2>2. ~clash => ~mounted
    <3>1. SUFFICES ASSUME ~clash, mounted PROVE FALSE
      OBVIOUS
    <3>2. PICK u \in Threads : Next1(u) = "set" \/ (th[u].op = "boot" /\ Next1(u) = "unmount")
      BY <1>8, <1>10, <3>1 DEF Noting
    <3>3. u # t
      BY <1>5, <1>10, <3>2
    <3>4. th[u].todo = <<>>
      BY <1>3, <3>1, <3>3, IdleIs DEF OnlyOne, Others
    <3> QED BY <3>2, <3>4 DEF Next1, Do
  <2>3. Mounting(t)'
    BY <1>4, <1>5, <1>7, <1>10, <2>1, <2>2 DEF Mounting
  <2>4. ASSUME NEW u \in Threads \ {t} PROVE Mounting(u)'
    <3>1. Mounting(u)
      BY DEF Ordered
    <3> QED BY <1>4, <1>6, <1>7, <2>1, <3>1 DEF Mounting
  <2>5. OneNotes'
    BY <1>5, <1>6, <1>8 DEF OneNotes
  <2>6. Noting'
    BY <1>4, <1>5, <1>6, <1>8, <1>10, <2>1 DEF Noting
  <2>7. MountedIsReal'
    BY <1>7, <1>8, <2>1 DEF MountedIsReal
  <2> QED BY <2>3, <2>4, <2>5, <2>6, <2>7 DEF Ordered
<1> QED BY <1>9, <1>10

LEMMA MkfsOrdered ==
    ASSUME Calm, Ordered, NEW t \in Threads, Mkfs(t) \/ MkfsFails(t) PROVE Ordered'
<1>1. th[t].todo # <<>> /\ Now(t).do \in {"mkfs", "remkfs"}
  BY DEF Mkfs, MkfsFails, Doing
<1>2. /\ \A u \in Threads \ {t} : th'[u].op = th[u].op /\ th'[u].todo = th[u].todo
      /\ th'[t].op = th[t].op /\ (Mkfs(t) => Took(t)) /\ (MkfsFails(t) => Skipped(t))
  BY PlainIs, MkfsFailsIs DEF Beside, SameCall, Took, Skipped, OnItsWay
<1>3. /\ UNCHANGED <<mounted, is_mounted, clash>> /\ (stranded => stranded')
      /\ (MkfsFails(t) /\ Now(t).do = "remkfs" => stranded')
  <2>1. CASE Mkfs(t)
    BY <2>1 DEF Mkfs, MkfsFails, UNCH_count, UNCH_flash
  <2>2. CASE MkfsFails(t)
    <3>1. stranded' = (stranded \/ Now(t).do = "remkfs") /\ UNCHANGED <<mounted, is_mounted, clash>>
      BY <2>2 DEF MkfsFails
    <3> QED BY <3>1
  <2> QED BY <2>1, <2>2
<1>4. /\ Mkfs(t) /\ Now(t).do = "mkfs" => Next1(t)' = "mount"
      /\ Mkfs(t) /\ Now(t).do = "remkfs" => Next1(t)' = "remount"
      /\ MkfsFails(t) /\ Now(t).do = "mkfs" => Next1(t)' \in Ended
      /\ MkfsFails(t) /\ Now(t).do = "remkfs" => Next1(t)' = "set"
      /\ Next1(t) = Now(t).do
  BY <1>1, <1>2, NextIs DEF ManagedAt
<1>5. Now(t).do \in Managing
  BY <1>1 DEF Managing, Making
<1>6. (Now(t).do = "remkfs" => th[t].op = "boot") /\ (th[t].op = "boot" => OnlyOne(t))
  BY <1>1, <1>5, ManagerIs
<1>7. Mounting(t) /\ Noting /\ OneNotes /\ MountedIsReal
  BY DEF Ordered
<1>8. \A u \in Threads \ {t} : Next1(u)' = Next1(u)
  BY <1>2 DEF Next1
<1>9. Mounting(t)'
  BY <1>1, <1>2, <1>3, <1>4, <1>6, <1>7 DEF Mounting, Making, Ended
<1>10. ASSUME NEW u \in Threads \ {t} PROVE Mounting(u)'
  <2>1. Mounting(u)
    BY DEF Ordered
  <2> QED BY <1>2, <1>3, <1>8, <2>1 DEF Mounting
<1>11. MountedIsReal'
  BY <1>3, <1>7 DEF MountedIsReal
<1>12. Noting'
  BY <1>1, <1>2, <1>3, <1>4, <1>7, <1>8 DEF Noting
<1>13. OneNotes'
  <2>1. CASE th[t].op = "boot"
    <3>1. ASSUME NEW u \in Threads \ {t} PROVE Next1(u) = "end"
      <4>1. th[u].todo = <<>>
        BY <1>6, <2>1, IdleIs DEF OnlyOne, Others
      <4> QED BY <4>1 DEF Next1, Do
    <3> QED BY <1>8, <3>1 DEF OneNotes
  <2>2. CASE th[t].op # "boot"
    BY <1>1, <1>4, <1>6, <1>7, <1>8, <2>2 DEF OneNotes, Ended
  <2> QED BY <2>1, <2>2
<1> QED BY <1>9, <1>10, <1>11, <1>12, <1>13 DEF Ordered

LEMMA MountOrdered ==
    ASSUME Calm, Ordered, NEW t \in Threads, Mount(t) PROVE Ordered'
<1>1. th[t].todo # <<>> /\ Now(t).do \in {"mount", "remount"} /\ ~mounted
  BY DEF Mount, Doing
<1>2. /\ \A u \in Threads \ {t} : th'[u].op = th[u].op /\ th'[u].todo = th[u].todo
      /\ th'[t].op = th[t].op /\ Took(t)
  BY PlainIs DEF Beside, SameCall, Took, OnItsWay
<1>3. mounted' = TRUE /\ UNCHANGED <<is_mounted, clash>>
  BY DEF Mount, UNCH_count
<1>4. Next1(t)' = "set" /\ Next1(t) = Now(t).do
  BY <1>1, <1>2, NextIs DEF ManagedAt
<1>5. Now(t).do \in Managing
  BY <1>1 DEF Managing, Making
<1>6. /\ Now(t).do = "remount" => th[t].op = "boot"
      /\ th[t].op \in {"boot", "format"} /\ Busy(t) /\ (th[t].op = "boot" => t = "main")
         /\ (~clash => OnlyOne(t))
  BY <1>1, <1>5, ManagerIs DEF Manages
<1>7. Mounting(t) /\ Noting /\ OneNotes /\ MountedIsReal
  BY DEF Ordered
<1>8. \A u \in Threads \ {t} : Next1(u)' = Next1(u)
  BY <1>2 DEF Next1
<1>9. ~is_mounted
  BY <1>1, <1>4, <1>6, <1>7 DEF Mounting, Making
<1>10. Mounting(t)'
  BY <1>3, <1>4, <1>9 DEF Mounting
<1>11. \A u \in Threads \ {t} : th[u].op # "boot"
  <2>1. SUFFICES ASSUME NEW u \in Threads \ {t}, th[u].op = "boot" PROVE FALSE
    OBVIOUS
  <2>2. Busy(u) /\ u = "main"
    BY <2>1 DEF Calm, AllRoles, Roles
  <2>3. OnlyOne(u)
    BY <2>2 DEF Calm, Single
  <2> QED BY <1>6, <2>3 DEF OnlyOne, Others
<1>12. ASSUME NEW u \in Threads \ {t} PROVE Mounting(u)' /\ Next1(u) # "set"
  <2>1. Mounting(u) /\ th[u].op # "boot" /\ Roles(u)
    BY <1>11 DEF Ordered, Calm, AllRoles
  <2>2. Next1(u) # "set"
    BY <1>1, <2>1 DEF Mounting
  <2>3. Next1(u) # "init"
    <3>1. SUFFICES ASSUME Next1(u) = "init" PROVE FALSE
      OBVIOUS
    <3>2. 1 \in 1 .. Len(th[u].todo) /\ th[u].todo[1].do = "init"
      BY <3>1 DEF Next1, Do
    <3> QED BY <2>1, <3>2 DEF Roles
  <2>4. th[u].op = "format" => clash
    <3>1. th[u].op = "format" => Busy(u)
      BY DEF Busy
    <3> QED BY <1>6, <3>1 DEF OnlyOne, Others
  <2> QED BY <1>2, <1>3, <1>8, <2>1, <2>2, <2>3, <2>4 DEF Mounting
<1>13. OneNotes'
  BY <1>8, <1>12 DEF OneNotes
<1>14. Noting' /\ MountedIsReal'
  BY <1>3, <1>4 DEF Noting, MountedIsReal
<1> QED BY <1>10, <1>12, <1>13, <1>14 DEF Ordered

LEMMA FirstMountOrdered ==
    ASSUME Calm, Ordered, NEW t \in Threads, FirstMount(t) PROVE Ordered'
<1>1. th[t].todo # <<>> /\ Now(t).do = "init" /\ UNCHANGED is_mounted
  BY DEF FirstMount, Doing
<1>2. /\ \A u \in Threads \ {t} : th'[u].todo = th[u].todo
      /\ th'[t].op = th[t].op
      /\ \/ Took(t) /\ mounted'
         \/ th'[t].todo = Reformat \o Tail(BootPlan) /\ mounted'
         \/ th'[t].todo = FormatBlank \o Tail(BootPlan) /\ mounted' = mounted
      /\ th[t].todo = BootPlan /\ th[t].op = "boot"
  BY FirstMountIs DEF Beside, SameCall, OnItsWay
<1>3. Now(t).do \in Managing
  BY <1>1 DEF Managing, Making
<1>4. OnlyOne(t)
  BY <1>1, <1>2, <1>3, ManagerIs
<1>5. Mounting(t) /\ Next1(t) = "init"
  BY <1>1, NextIs DEF Ordered
<1>6. ~mounted /\ ~is_mounted
  BY <1>2, <1>5 DEF Mounting, Making
<1>7. \/ Next1(t)' = "set" /\ mounted'
      \/ Next1(t)' = "unmount" /\ mounted'
      \/ Next1(t)' = "mkfs" /\ ~mounted'
  <2>1. CASE Took(t) /\ mounted'
    <3>1. Next1(t)' = Do(BootPlan, 2)
      BY <1>1, <1>2, <2>1, NextIs
    <3> QED BY <2>1, <3>1, BootPlanIs DEF Do
  <2>2. CASE th'[t].todo = Reformat \o Tail(BootPlan) /\ mounted'
    BY <2>2, ReformatIs DEF Next1, Do
  <2>3. CASE th'[t].todo = FormatBlank \o Tail(BootPlan) /\ mounted' = mounted
    BY <1>6, <2>3, FormatBlankIs DEF Next1, Do
  <2> QED BY <1>2, <2>1, <2>2, <2>3
<1>8. ~is_mounted'
  BY <1>1, <1>6
<1>9. Mounting(t)'
  BY <1>2, <1>7, <1>8 DEF Mounting
<1>10. MountedIsReal'
  BY <1>8 DEF MountedIsReal
<1> QED BY <1>2, <1>4, <1>7, <1>9, <1>10, Alone

LEMMA NoteOrdered ==
    ASSUME Calm, Ordered, NEW t \in Threads, NoteMounted(t) PROVE Ordered'
<1>1. th[t].todo # <<>> /\ Now(t).do = "set" /\ is_mounted' = TRUE /\ UNCHANGED <<mounted, stranded, clash>>
  BY DEF NoteMounted, Doing, UNCH_flash, UNCH_count
<1>2. /\ \A u \in Threads \ {t} : th'[u].op = th[u].op /\ th'[u].todo = th[u].todo
      /\ Took(t)
  BY PlainIs DEF Beside, SameCall
<1>3. Next1(t)' \in Ended /\ Next1(t) = "set"
  BY <1>1, <1>2, NextIs DEF ManagedAt
<1>4. \A u \in Threads \ {t} : Next1(u)' = Next1(u) /\ Next1(u) # "set"
  BY <1>2, <1>3 DEF Next1, Ordered, OneNotes
<1>5. mounted \/ (th[t].op = "boot" /\ stranded)
  BY <1>3 DEF Ordered, Mounting
<1>6. Mounting(t)'
  BY <1>3 DEF Mounting, Ended, Making
<1>7. ASSUME NEW u \in Threads \ {t} PROVE Mounting(u)'
  <2>1. CASE Busy(u)
    <3>1. th[u].op # "boot"
      <4>1. SUFFICES ASSUME th[u].op = "boot" PROVE FALSE
        OBVIOUS
      <4>2. Busy(u) /\ u = "main"
        BY <4>1 DEF Calm, AllRoles, Roles
      <4>3. OnlyOne(u)
        BY <4>2 DEF Calm, Single
      <4>4. Busy(t)
        BY <1>1, HeadIs
      <4> QED BY <4>3, <4>4 DEF OnlyOne, Others
    <3>2. th[t].op # "boot"
      <4>1. SUFFICES ASSUME th[t].op = "boot" PROVE FALSE
        OBVIOUS
      <4>2. Busy(t) /\ t = "main"
        BY <4>1 DEF Calm, AllRoles, Roles
      <4>3. OnlyOne(t)
        BY <4>2 DEF Calm, Single
      <4> QED BY <2>1, <4>3 DEF OnlyOne, Others
    <3>3. Mounting(u)
      BY DEF Ordered
    <3> QED BY <1>1, <1>2, <1>4, <1>5, <3>1, <3>2, <3>3 DEF Mounting
  <2>2. CASE ~Busy(u)
    <3>1. th'[u].todo = <<>>
      BY <1>2, <2>2, IdleIs
    <3>2. Next1(u)' = "end"
      BY <3>1 DEF Next1, Do
    <3> QED BY <3>2 DEF Mounting, Making
  <2> QED BY <2>1, <2>2
<1>8. OneNotes'
  BY <1>3, <1>4 DEF OneNotes, Ended
<1>9. Noting' /\ MountedIsReal'
  BY <1>1, <1>5 DEF Noting, MountedIsReal
<1> QED BY <1>6, <1>7, <1>8, <1>9 DEF Ordered

LEMMA FailOrdered ==
    ASSUME Calm, Ordered, NEW t \in Threads, Fail(t) PROVE Ordered'
<1>1. /\ th[t].todo # <<>> /\ UNCHANGED <<mounted, is_mounted, clash>>
      /\ Now(t).do \in {"open", "truncate", "look", "write", "append", "read", "wait", "close",
                        "unlink", "rename", "mount", "remount"}
      /\ stranded' = (stranded \/ Now(t).do = "remount")
  BY DEF Fail, Doing, UNCH_flash
<1>2. /\ \A u \in Threads \ {t} : th'[u].op = th[u].op /\ th'[u].todo = th[u].todo
      /\ th'[t].op = th[t].op /\ Skipped(t)
  BY FailIs DEF Beside, SameCall, Skipped, OnItsWay
<1>3. (stranded => stranded') /\ (Now(t).do = "remount" => stranded')
  BY <1>1
<1>4. Next1(t) = Now(t).do
  BY <1>1, NextIs
<1>5. CASE Now(t).do # "mount" /\ Now(t).do # "remount"
  <2>1. Next1(t) \notin Managing
    BY <1>1, <1>4, <1>5 DEF Managing, Making, Ended
  <2>2. Next1(t)' \notin Making
    BY <1>1, <1>2, <1>4, <2>1, NextIs DEF ManagedAt
  <2> QED BY <1>1, <1>2, <1>3, <2>1, <2>2, Aside DEF Outside, Managing
<1>6. CASE Now(t).do = "mount"
  <2>1. Next1(t)' \in Ended
    BY <1>1, <1>2, <1>6, NextIs DEF ManagedAt
  <2>2. Mounting(t)' /\ Next1(t)' # "set"
    BY <2>1 DEF Mounting, Ended, Making
  <2>3. \A u \in Threads \ {t} : Next1(u)' = Next1(u)
    BY <1>2 DEF Next1
  <2>4. ASSUME NEW u \in Threads \ {t} PROVE Mounting(u)'
    <3>1. Mounting(u)
      BY DEF Ordered
    <3> QED BY <1>1, <1>2, <1>3, <2>3, <3>1 DEF Mounting
  <2>5. OneNotes'
    BY <2>2, <2>3 DEF OneNotes, Ordered
  <2>6. Noting'
    BY <1>1, <1>2, <1>4, <1>6, <2>3 DEF Noting, Ordered
  <2>7. MountedIsReal'
    BY <1>1, <1>3 DEF MountedIsReal, Ordered
  <2> QED BY <2>2, <2>4, <2>5, <2>6, <2>7 DEF Ordered
<1>7. CASE Now(t).do = "remount"
  <2>1. Next1(t)' = "set"
    BY <1>1, <1>2, <1>7, NextIs DEF ManagedAt
  <2>2. Now(t).do \in Managing
    BY <1>7 DEF Managing, Making
  <2>3. th[t].op = "boot" /\ OnlyOne(t)
    BY <1>1, <1>7, <2>2, ManagerIs
  <2>4. Mounting(t) /\ MountedIsReal
    BY DEF Ordered
  <2>5. ~is_mounted /\ ~mounted
    BY <1>4, <1>7, <2>3, <2>4 DEF Mounting, Making
  <2>6. Mounting(t)'
    BY <1>1, <1>2, <1>3, <1>7, <2>1, <2>3, <2>5 DEF Mounting
  <2>7. MountedIsReal' /\ ~mounted'
    BY <1>1, <2>5 DEF MountedIsReal
  <2> QED BY <1>2, <2>3, <2>6, <2>7, Alone
<1> QED BY <1>5, <1>6, <1>7

\* The first step of what comes after a step that does not mount.
LEMMA AsideNext ==
    ASSUME Calm, NEW t \in Threads, th[t].todo # <<>>, Now(t).do \notin Making,
           Took(t) \/ (Skipped(t) /\ Now(t).do \notin Managing)
    PROVE  Outside(t) /\ Outside(t)'
<1>1. Next1(t) = Now(t).do
  BY NextIs
<1>2. CASE Now(t).do \notin Managing
  <2>1. Next1(t)' \notin Making
    BY <1>2, NextIs DEF ManagedAt
  <2> QED BY <1>1, <2>1 DEF Outside
<1>3. CASE Now(t).do \in Managing /\ Took(t)
  <2>1. Now(t).do # "end"
    BY HeadIs DEF Operations
  <2>2. Now(t).do \in {"default", "loadName"}
    BY <1>3, <2>1 DEF Managing, Ended
  <2>3. Do(th[t].todo, 2) \in Ended
    BY <2>2, NextIs DEF ManagedAt, Ended
  <2>4. Next1(t)' \in Ended
    BY <1>3, <2>3, NextIs
  <2> QED BY <1>1, <2>4 DEF Outside, Ended, Making
<1> QED BY <1>2, <1>3

LEMMA StepOrdered ==
    ASSUME Calm, Ordered, NEW t \in Threads, Steps(t) PROVE Ordered'
<1>1. clash => clash'
  BY StepFds
<1>2. ASSUME ~Return(t)
      PROVE  /\ \A u \in Threads \ {t} : th'[u].op = th[u].op /\ th'[u].todo = th[u].todo
             /\ th[t].todo # <<>>
  BY <1>2, StepRole DEF Beside, SameCall
<1>3. CASE CheckMounted(t) \/ Open(t) \/ Transfer(t) \/ Close(t) \/ Unlink(t) \/ Rename(t)
  <2>1. ~Return(t)
    BY <1>3 DEF Return, CheckMounted, Open, Transfer, Close, Unlink, Rename, Doing
  <2>2. Now(t).do \in {"check", "open", "truncate", "look", "write", "append", "read", "wait", "close",
                       "unlink", "rename"}
        /\ UNCHANGED <<mounted, is_mounted, stranded>>
    BY <1>3 DEF CheckMounted, Open, Transfer, Close, Unlink, Rename, Doing, UNCH_flash
  <2>3. Now(t).do \notin Managing /\ Now(t).do \notin Making
    BY <2>2 DEF Managing, Making, Ended
  <2>4. Took(t) \/ Skipped(t)
    BY <1>3, CheckIs, OpenIs, TransferIs, CloseIs, RemoveIs
  <2> QED BY <1>1, <1>2, <2>1, <2>2, <2>3, <2>4, AsideNext, Aside
<1>4. CASE Fail(t)
  BY <1>4, FailOrdered
<1>5. CASE Unmount(t)
  BY <1>5, UnmountOrdered
<1>6. CASE Mkfs(t) \/ MkfsFails(t)
  BY <1>6, MkfsOrdered
<1>7. CASE Mount(t)
  BY <1>7, MountOrdered
<1>8. CASE FirstMount(t)
  BY <1>8, FirstMountOrdered
<1>9. CASE NoteMounted(t)
  BY <1>9, NoteOrdered
<1>10. CASE DefaultFile(t)
  <2> DEFINE n == Now(t).name  c == Now(t).data
  <2>1. th[t].todo # <<>> /\ Now(t).do = "default" /\ UNCHANGED <<mounted, is_mounted, stranded>>
        /\ ~Return(t)
    BY <1>10 DEF DefaultFile, Doing, UNCH_flash, Return
  <2>2. /\ n \in UserFiles /\ c \in Text
        /\ Missing(n, c) => Extends(t, WriteFile(n, c), Only(n, {c}))
        /\ ~Missing(n, c) => Took(t)
    BY <1>10, DefaultFileIs
  <2>3. Now(t).do \notin Making
    BY <2>1 DEF Making
  <2>4. Outside(t) /\ Outside(t)'
    <3>1. CASE Took(t)
      BY <2>1, <2>3, <3>1, AsideNext
    <3>2. CASE Extends(t, WriteFile(n, c), Only(n, {c}))
      <4> DEFINE r == Rest(th[t].todo, 2)
      <4>1. th'[t].todo = WriteFile(n, c) \o r /\ r \in Seq(AnyStep)
        BY <2>1, <3>2, HeadIs, RestIs DEF Extends
      <4>2. th'[t].todo[1].do = "check" /\ Next1(t) = "default"
        BY <2>1, <2>2, <4>1, WriteThen, NextIs
      <4>3. Next1(t)' \in {"check", "end"}
        BY <4>2 DEF Next1, Do
      <4> QED BY <4>2, <4>3 DEF Outside, Making
    <3> QED BY <2>2, <3>1, <3>2
  <2> QED BY <1>1, <1>2, <2>1, <2>4, Aside
<1>11. CASE LoadName(t)
  <2>1. th[t].todo # <<>> /\ Now(t).do = "loadName" /\ UNCHANGED <<mounted, is_mounted, stranded>>
        /\ ~Return(t)
    BY <1>11 DEF LoadName, Doing, UNCH_flash, Return
  <2>2. DefaultName \in Text /\ (Took(t) \/ th'[t].todo = Saved("name", DefaultName))
    BY <1>11, LoadNameIs
  <2>3. Now(t).do \notin Making
    BY <2>1 DEF Making
  <2>4. Outside(t) /\ Outside(t)'
    <3>1. CASE Took(t)
      BY <2>1, <2>3, <3>1, AsideNext
    <3>2. CASE th'[t].todo = Saved("name", DefaultName)
      <4>1. th'[t].todo[1].do = "open" /\ Next1(t) = "loadName"
        BY <2>1, <2>2, <3>2, SavedIs, Contents, NextIs
      <4>2. Next1(t)' \in {"open", "end"}
        BY <4>1 DEF Next1, Do
      <4> QED BY <4>1, <4>2 DEF Outside, Making
    <3> QED BY <2>2, <3>1, <3>2
  <2> QED BY <1>1, <1>2, <2>1, <2>4, Aside
<1>12. CASE Return(t)
  <2>1. SameBut(th', t) /\ th'[t].todo = <<>> /\ th[t].todo = <<>>
        /\ UNCHANGED <<mounted, is_mounted, stranded>>
    BY <1>12, ReturnIs DEF Return
  <2>2. Outside(t) /\ Outside(t)'
    BY <2>1 DEF Outside, Next1, Do, Making
  <2> QED BY <1>1, <2>1, <2>2, Aside DEF SameBut
<1> QED BY <1>3, <1>4, <1>5, <1>6, <1>7, <1>8, <1>9, <1>10, <1>11, <1>12 DEF Steps

LEMMA BeginOrdered ==
    ASSUME Calm, Ordered, NEW t \in {"web", "shell"}, NEW op, NEW steps, NEW goal,
           Suits(op, steps, goal), Begin(t, op, steps, goal)
    PROVE  Ordered'
<1>1. t \in Threads
  BY DEF Threads
<1>2. /\ ~Busy(t) /\ th'[t].op = op /\ th'[t].todo = steps /\ (clash => clash')
      /\ \A u \in Threads \ {t} : th'[u].op = th[u].op /\ th'[u].todo = th[u].todo
      /\ UNCHANGED <<mounted, is_mounted, stranded>>
  BY <1>1, BeginIs DEF Begin
<1>3. Outside(t)
  BY <1>1, <1>2, IdleIs DEF Outside, Next1, Do, Making
<1>4. Outside(t)'
  <2>1. Do(steps, 1) \in {"check", "look", "truncate", "open", "unlink", "unmount"} /\ op # "boot"
    BY DEF Suits, Kinds
  <2> QED BY <1>2, <2>1 DEF Outside, Next1, Making
<1> QED BY <1>1, <1>2, <1>3, <1>4, Aside

LEMMA ScriptOrdered ==
    ASSUME Calm, Ordered, Script PROVE Ordered'
<1>1. /\ \A u \in Threads : th'[u].op = th[u].op /\ th'[u].todo = th[u].todo
      /\ (clash => clash') /\ UNCHANGED <<mounted, is_mounted, stranded>>
  BY ScriptIs DEF Watches
<1>2. \A u \in Threads : Next1(u)' = Next1(u)
  BY <1>1 DEF Next1
<1>3. ASSUME NEW u \in Threads PROVE Mounting(u)'
  <2>1. Mounting(u)
    BY DEF Ordered
  <2> QED BY <1>1, <1>2, <2>1 DEF Mounting
<1>4. OneNotes' /\ Noting' /\ MountedIsReal'
  BY <1>1, <1>2 DEF Ordered, OneNotes, Noting, MountedIsReal
<1> QED BY <1>3, <1>4 DEF Ordered

LEMMA BootOrdered ==
    /\ th = Booting /\ ~mounted /\ ~is_mounted => Ordered
    /\ th' = Booting /\ ~mounted' /\ ~is_mounted' => Ordered'
<1>1. /\ Do(BootPlan, 1) = "init" /\ Do(<<>>, 1) = "end"
  BY BootPlanIs DEF Do
<1>2. ASSUME th = Booting, ~mounted, ~is_mounted PROVE Ordered
  <2>1. \A u \in Threads : /\ u = "main" => th[u].op = "boot" /\ th[u].todo = BootPlan
                           /\ u # "main" => th[u].op = "none" /\ th[u].todo = <<>>
    BY <1>2, BootCalls
  <2>2. \A u \in Threads : Next1(u) \in {"init", "end"}
    BY <1>1, <2>1 DEF Next1
  <2> QED BY <1>2, <2>2 DEF Ordered, Mounting, OneNotes, Noting, MountedIsReal
<1>3. ASSUME th' = Booting, ~mounted', ~is_mounted' PROVE Ordered'
  <2>1. \A u \in Threads : /\ u = "main" => th'[u].op = "boot" /\ th'[u].todo = BootPlan
                           /\ u # "main" => th'[u].op = "none" /\ th'[u].todo = <<>>
    BY <1>3, BootCalls
  <2>2. \A u \in Threads : Next1(u)' \in {"init", "end"}
    BY <1>1, <2>1 DEF Next1
  <2> QED BY <1>3, <2>2 DEF Ordered, Mounting, OneNotes, Noting, MountedIsReal
<1> QED BY <1>2, <1>3

LEMMA StepWild ==
    ASSUME Calm, Ordered, OnlyClashesWild, NEW t \in Threads, Steps(t) PROVE OnlyClashesWild'
<1>1. clash' = clash
  BY StepFds
<1>2. th[t].file.state = "stale" => clash
  BY DEF Calm, Handling
<1>3. CASE Transfer(t) \/ Close(t) \/ Fail(t)
  <2>1. wild' => th[t].file.state = "stale"
    BY <1>3 DEF Transfer, Close, Fail
  <2> QED BY <1>1, <1>2, <2>1 DEF OnlyClashesWild
<1>4. CASE Mkfs(t) \/ MkfsFails(t)
  <2>1. wild' = mounted /\ th[t].todo # <<>> /\ Now(t).do \in {"mkfs", "remkfs"}
    BY <1>4 DEF Mkfs, MkfsFails, Doing
  <2>2. Now(t).do \in Managing
    BY <2>1 DEF Managing, Making
  <2>3. Manages(t) /\ (Now(t).do = "remkfs" => th[t].op = "boot") /\ Next1(t) = Now(t).do
    BY <2>1, <2>2, ManagerIs, NextIs
  <2>4. Mounting(t)
    BY DEF Ordered
  <2>5. mounted => clash
    BY <2>1, <2>3, <2>4 DEF Mounting, Manages
  <2> QED BY <1>1, <2>1, <2>5 DEF OnlyClashesWild
<1>5. CASE Return(t)
  <2>1. th[t].file = NoFile /\ wild' = (th[t].file.state # "closed")
    BY <1>5, ReturnIs DEF Return
  <2> QED BY <2>1, NoFileTyped DEF OnlyClashesWild
<1>6. CASE ~(Transfer(t) \/ Close(t) \/ Fail(t) \/ Mkfs(t) \/ MkfsFails(t) \/ Return(t))
  <2>1. UNCHANGED wild
    BY <1>6 DEF Steps, CheckMounted, Open, Unlink, Rename, Unmount, Mount, FirstMount, NoteMounted,
       DefaultFile, LoadName
  <2> QED BY <1>1, <2>1 DEF OnlyClashesWild
<1> QED BY <1>3, <1>4, <1>5, <1>6

LEMMA InvWildInit == Init => InvWild
<1> SUFFICES ASSUME Init PROVE InvWild
  OBVIOUS
<1>1. Calm
  BY InitCalm
<1>2. Ordered
  BY BootOrdered DEF Init
<1>3. OnlyClashesWild
  BY DEF Init, OnlyClashesWild
<1> QED BY <1>1, <1>2, <1>3 DEF InvWild

LEMMA InvWildNext == InvWild /\ [Next]_vars => InvWild'
<1> SUFFICES ASSUME InvWild, [Next]_vars PROVE InvWild'
  OBVIOUS
<1>0. Calm /\ Ordered /\ OnlyClashesWild
  BY DEF InvWild
<1>1. CASE \/ \E t \in {"web", "shell"} : Calls(t)
           \/ Cat \/ Restore \/ Serve \/ Receive
  <2>0. PICK t \in {"web", "shell"} : \E op, steps, goal : Begin(t, op, steps, goal) /\ Suits(op, steps, goal)
    BY <1>0, <1>1, CallIs
  <2>1. PICK op, steps, goal : Begin(t, op, steps, goal) /\ Suits(op, steps, goal)
    BY <2>0
  <2>2. Calm' /\ Ordered'
    BY <1>0, <2>1, BeginCalm, BeginOrdered
  <2>3. t \in Threads
    BY DEF Threads
  <2>4. UNCHANGED wild /\ (clash => clash')
    BY <1>0, <2>1, <2>3, BeginIs DEF Begin
  <2>5. OnlyClashesWild'
    BY <1>0, <2>4 DEF OnlyClashesWild
  <2> QED BY <2>2, <2>5 DEF InvWild
<1>2. ASSUME NEW t \in Threads, Steps(t) PROVE InvWild'
  BY <1>0, <1>2, StepCalm, StepOrdered, StepWild DEF InvWild
<1>3. CASE Script
  <2>1. Calm' /\ Ordered'
    BY <1>0, <1>3, ScriptCalm, ScriptOrdered
  <2>2. OnlyClashesWild'
    BY <1>0, <1>3, ScriptIs DEF OnlyClashesWild
  <2> QED BY <2>1, <2>2 DEF InvWild
<1>4. CASE Restart
  <2>1. Calm'
    BY <1>0, <1>4, RestartCalm
  <2>2. Ordered'
    BY <1>4, BootOrdered DEF Restart
  <2>3. OnlyClashesWild'
    BY <1>0, <1>4 DEF Restart, OnlyClashesWild
  <2> QED BY <2>1, <2>2, <2>3 DEF InvWild
<1>5. CASE UNCHANGED vars
  BY <1>5 DEF InvWild, Calm, TypeOK, AllRoles, Roles, Laid, Defaulted, Manages, Busy, Single, OnlyOne, Held,
      Handling, Ordered, Mounting, Next1, OneNotes, Noting, MountedIsReal, OnlyClashesWild, vars, counters
<1> QED BY <1>1, <1>2, <1>3, <1>4, <1>5 DEF Next

THEOREM Wild == Spec => []InvWild
BY InvWildInit, InvWildNext, PTL DEF Spec

-----------------------------------------------------------------------------
(* The default files. *)

Defaulting(t) == Sole(t) /\ Manages(t) =>
    LET f == th[t].file  s == th[t].todo
    IN /\ \A n \in UserFiles : n \notin Names_(s) => Settled(n)
       /\ Inside(s, 1) => f.state = "open"
       /\ Next1(t) = "write" /\ f.name \in UserFiles => f.data = <<>>
       /\ Next1(t) = "close" /\ f.name \in UserFiles => f.dirty /\ f.data = Default[f.name]

LEMMA SoleIs ==
    ASSUME Calm, NEW t \in Threads, Sole(t) PROVE OnlyOne(t) /\ \A u \in Threads : Busy(u) => u = t
BY DEF Calm, Single, Sole, OnlyOne, Others

\* Where others act, no call is alone.
LEMMA SoleStep ==
    ASSUME Calm, NEW t \in Threads, Steps(t), NEW u \in Threads \ {t} PROVE ~Sole(u)'
<1>1. Busy(t)
  BY StepRole, HeadIs DEF Return
<1>2. SUFFICES ASSUME Sole(u)' PROVE FALSE
  OBVIOUS
<1>3. th'[u].op = th[u].op /\ th'[u].alone = th[u].alone /\ th'[u].clean = th[u].clean
  <2>1. CASE Return(t)
    BY <2>1, ReturnIs DEF SameBut
  <2>2. CASE ~Return(t)
    BY <2>2, StepRole DEF Beside, SameCall
  <2> QED BY <2>1, <2>2
<1>4. Sole(u)
  BY <1>2, <1>3 DEF Sole, Busy
<1> QED BY <1>1, <1>4, SoleIs

LEMMA SoleBegin ==
    ASSUME Calm, NEW t \in Threads, NEW op, NEW steps, NEW goal, Suits(op, steps, goal),
           Begin(t, op, steps, goal),
           NEW u \in Threads \ {t}
    PROVE ~Sole(u)'
<1>1. th'[u].op = th[u].op /\ (th'[u].alone => ~Busy(u))
  BY BeginIs
<1> QED BY <1>1 DEF Sole, Busy

LEMMA SoleScript ==
    ASSUME Calm, Script, NEW u \in Threads PROVE ~Sole(u)'
<1>1. Watches(u) /\ Disturbs
  BY ScriptIs
<1>2. SUFFICES ASSUME Sole(u)' PROVE FALSE
  OBVIOUS
<1>3. Sole(u)
  BY <1>1, <1>2 DEF Watches, Sole, Busy
<1>4. OnlyOne(u) /\ Busy(u)
  BY <1>3, SoleIs DEF Sole
<1> QED BY <1>1, <1>2, <1>4 DEF Disturbs, OnlyOne, Sole

LEMMA RestNames ==
    ASSUME NEW s \in Seq(AnyStep), s # <<>>
    PROVE  LET r == Rest(s, 2)
           IN /\ \A n : n \in Names_(s) => n = s[1].name \/ n \in Names_(r)
              /\ \A n : InsideOf(s, 2, n) => n \in Names_(r)
              /\ \A j \in 2 .. Len(s) : s[j].name \in Names_(r)
<1> DEFINE r == Rest(s, 2)
<1>1. ASSUME NEW j \in 2 .. Len(s) PROVE s[j].name \in Names_(r)
  <2>1. j - 1 \in Nat \ {0} /\ (j - 1) + 2 - 1 = j
    OBVIOUS
  <2>2. j - 1 \in 1 .. Len(r) /\ r[j - 1] = s[j]
    BY <2>1, RestSteps
  <2> HIDE DEF r
  <2> QED BY <2>2 DEF Names_
<1> HIDE DEF r
<1>2. ASSUME NEW n, n \in Names_(s) PROVE n = s[1].name \/ n \in Names_(r)
  <2>1. PICK i \in 1 .. Len(s) : n = s[i].name
    BY <1>2 DEF Names_
  <2>2. CASE i = 1
    BY <2>1, <2>2
  <2>3. CASE i \in 2 .. Len(s)
    BY <1>1, <2>1, <2>3
  <2> QED BY <2>2, <2>3
<1>3. \A n : InsideOf(s, 2, n) => n \in Names_(r)
  BY <1>1 DEF InsideOf, Inside
<1> QED BY <1>1, <1>2, <1>3 DEF r

\* A step that is done, the files being as they were.
LEMMA TookNames ==
    ASSUME Calm, NEW t \in Threads, th[t].todo # <<>>, Took(t), Defaulting(t), Sole(t), Manages(t),
           NEW n \in UserFiles, n \notin Names_(th'[t].todo), n # Now(t).name
    PROVE  Settled(n)
<1>1. n \notin Names_(th[t].todo)
  BY HeadIs, RestNames DEF Took
<1> QED BY <1>1 DEF Defaulting

LEMMA MakingNames ==
    ASSUME NEW s \in Seq(AnyStep), s # <<>>, Defaulted(s), s[1].do \in Making
    PROVE  UserFiles \subseteq Names_(Rest(s, 2))
<1>1. 1 \in 1 .. Len(s) /\ 1 + 1 = 2
  OBVIOUS
<1>2. DefaultedAt(s, 1)
  BY <1>1 DEF Defaulted
<1>3. \A n \in UserFiles : \E j \in 2 .. Len(s) : s[j].name = n
  BY <1>1, <1>2 DEF DefaultedAt
<1> QED BY <1>3, RestNames

LEMMA OverlaidEmpty == ASSUME NEW d \in Text PROVE Overlaid(d, <<>>) = d
BY DEF Overlaid, Text

\* A step that leaves the user files alone and opens none of them.
LEMMA PlainDefaulting ==
    ASSUME Calm, NEW t \in Threads, Defaulting(t), th[t].todo # <<>>, Took(t), Sole(t), Manages(t),
           ~Inside(th'[t].todo, 1), \A n \in UserFiles : files'[n] = files[n],
           \A n \in UserFiles : n = Now(t).name => n \in Names_(th'[t].todo) \/ Settled(n)
    PROVE  Defaulting(t)'
<1>1. ASSUME NEW n \in UserFiles, n \notin Names_(th'[t].todo) PROVE Settled(n)'
  <2>1. Settled(n)
    BY <1>1, TookNames
  <2> QED BY <2>1 DEF Settled
<1>2. Next1(t)' # "write" /\ Next1(t)' # "close"
  BY DEF Next1, Inside, Inner, Do
<1> QED BY <1>1, <1>2 DEF Defaulting

LEMMA MakingDefaulting ==
    ASSUME Calm, NEW t \in Threads, Defaulting(t), th[t].todo # <<>>, Took(t), Sole(t), Manages(t),
           Now(t).do \in Making
    PROVE  Defaulting(t)'
<1>1. /\ th[t].todo \in Seq(AnyStep) /\ Now(t) = th[t].todo[1] /\ LaidAt(th[t].todo, 1) /\ Now(t).skip \in Nat
  BY HeadIs
<1>2. Defaulted(th[t].todo)
  BY <1>1 DEF Calm, AllRoles, Roles
<1>3. UserFiles \subseteq Names_(th'[t].todo)
  BY <1>1, <1>2, MakingNames DEF Took
<1>4. ManagedAt(th[t].todo, 1) /\ 1 + 1 = 2
  BY <1>1 DEF LaidAt
<1>5. Next1(t)' \in Making \cup Ended
  <2>1. Next1(t)' = Do(th[t].todo, 2)
    BY NextIs
  <2>2. Now(t).do = "init" => Do(th[t].todo, 2) = "set"
    BY <1>1, <1>4, BootPlanIs DEF ManagedAt, Do
  <2> QED BY <1>1, <1>4, <2>1, <2>2 DEF ManagedAt, Making, Ended
<1>6. ~Inside(th'[t].todo, 1)
  BY <1>5 DEF Next1, Do, Inside, Inner, Making, Ended
<1>7. Next1(t)' # "write" /\ Next1(t)' # "close"
  BY <1>5 DEF Making, Ended
<1> QED BY <1>3, <1>6, <1>7 DEF Defaulting

LEMMA StepDefaulting ==
    ASSUME Calm, NEW t \in Threads, Defaulting(t), Steps(t) PROVE Defaulting(t)'
<1> SUFFICES ASSUME Sole(t)', Manages(t)' PROVE Defaulting(t)'
  BY DEF Defaulting
<1> DEFINE s == th[t].todo  x == Now(t)  n == x.name
<1>1. ~Return(t)
  BY ReturnIs DEF Sole, Busy
<1>2. s # <<>> /\ Sole(t) /\ Manages(t)
  <2>1. th'[t].op = th[t].op /\ th'[t].alone = th[t].alone /\ (th'[t].clean => th[t].clean) /\ s # <<>>
    BY <1>1, StepRole DEF OnItsWay
  <2> QED BY <2>1 DEF Sole, Busy, Manages
<1>3. ~Skipped(t)
  BY DEF Skipped, Sole
<1>4. /\ s \in Seq(AnyStep) /\ LaidAt(s, 1) /\ x = s[1] /\ x.do = Do(s, 1) /\ n \in Files \cup {"none"}
      /\ Inside(s, 1) <=> Inner(x)
      /\ Inner(x) => th[t].file.state # "closed" /\ th[t].file.name = n
      /\ 1 \in 1 .. Len(s) /\ 1 + 1 = 2
  BY <1>2, HeadIs
<1>5. HandledAt(s, 1) /\ ManagedAt(s, 1) /\ WrittenAt(s, 1) /\ DefaultedAt(s, 1)
  <2>1. Defaulted(s)
    BY <1>2 DEF Calm, AllRoles, Roles
  <2> QED BY <1>4, <2>1 DEF LaidAt, Defaulted
<1>6. x.do \in Managing \cup {"check", "open", "truncate", "write", "close"}
  BY <1>4, <1>5 DEF DefaultedAt
<1>7. Took(t) => /\ th'[t].todo = Rest(s, 2) /\ Next1(t)' = Do(s, 2)
                 /\ \A m : InsideOf(s, 2, m) => m \in Names_(th'[t].todo)
                 /\ Inside(th'[t].todo, 1) <=> Inside(s, 2)
  <2>1. 1 + 2 - 1 = 2
    OBVIOUS
  <2> QED BY <1>2, <1>4, <2>1, NextIs, RestNames, RestSteps DEF Took
<1>8. CASE CheckMounted(t)
  <2>1. Took(t) /\ x.do = "check" /\ files' = files
    BY <1>3, <1>8, CheckIs DEF CheckMounted, Doing
  <2>2. ~Inside(th'[t].todo, 1)
    BY <1>4, <1>5, <1>7, <2>1 DEF HandledAt, Inner, Opening
  <2>3. n \notin UserFiles \/ Settled(n) \/ n \in Names_(th'[t].todo)
    BY <1>4, <1>5, <2>1 DEF ManagedAt, UserFiles
  <2> QED BY <1>2, <2>1, <2>2, <2>3, PlainDefaulting
<1>9. CASE Open(t)
  <2>1. Took(t) /\ x.do \in {"open", "truncate", "look"} /\ Created(n) /\ th'[t].file = Opened(n, x.do)
        /\ n \in Files
    BY <1>9, OpenIs DEF Open, Doing
  <2>2. x.do \in {"open", "truncate"} /\ InsideOf(s, 2, n)
    BY <1>4, <1>5, <1>6, <2>1 DEF HandledAt, Opening, Managing, Making, Ended
  <2>3. th'[t].file.state = "open" /\ th'[t].file.name = n /\ (x.do = "truncate" => th'[t].file.data = <<>>)
    BY <2>1, OpenedIs DEF Calm
  <2>4. Do(s, 2) = "write" /\ (x.do = "open" => n \in Settings)
    BY <1>4, <1>5, <2>2 DEF WrittenAt
  <2>5. n \in UserFiles => x.do = "truncate"
    BY <2>2, <2>4, Contents
  <2>6. ASSUME NEW m \in UserFiles, m \notin Names_(th'[t].todo) PROVE Settled(m)'
    <3>1. m # n
      BY <1>7, <2>1, <2>2, <2>6
    <3>2. Settled(m)
      BY <1>2, <2>1, <2>6, <3>1, TookNames
    <3>3. files'[m] = files[m]
      <4>1. m \in Files /\ files \in [Files -> Content]
        BY Contents DEF Calm, TypeOK
      <4> QED BY <2>1, <3>1, <4>1 DEF Created
    <3> QED BY <3>2, <3>3 DEF Settled
  <2> QED BY <1>7, <2>1, <2>3, <2>4, <2>5, <2>6 DEF Defaulting
<1>10. CASE Transfer(t)
  <2>1. Took(t) /\ x.do \in {"write", "append", "read", "wait"} /\ files' = files
    BY <1>10, TransferIs DEF Transfer, Doing
  <2>2. x.do = "write"
    BY <1>6, <2>1 DEF Managing, Making, Ended
  <2>3. InsideOf(s, 2, n) /\ Do(s, 2) = "close" /\ Inner(x)
    BY <1>4, <1>5, <2>2 DEF HandledAt, DefaultedAt, Inner
  <2>4. /\ th'[t].file.name = n /\ th'[t].file.state = "open" /\ th'[t].file.dirty
        /\ th'[t].file.data = Overlaid(x.data, th[t].file.data)
    BY <1>2, <1>4, <1>10, <2>2, <2>3, TransferIs DEF Defaulting
  <2>5. n \in UserFiles => th'[t].file.data = Default[n]
    <3>1. SUFFICES ASSUME n \in UserFiles PROVE th'[t].file.data = Default[n]
      OBVIOUS
    <3>2. th[t].file.data = <<>>
      BY <1>2, <1>4, <2>2, <2>3, <3>1 DEF Defaulting, Next1
    <3>3. x.data = Default[n] /\ x.data \in Text
      BY <1>4, <1>5, <2>2, <3>1 DEF DefaultedAt, WrittenAt
    <3> QED BY <2>4, <3>2, <3>3, OverlaidEmpty
  <2>6. ASSUME NEW m \in UserFiles, m \notin Names_(th'[t].todo) PROVE Settled(m)'
    <3>1. m # n
      BY <1>7, <2>1, <2>3, <2>6
    <3>2. Settled(m)
      BY <1>2, <2>1, <2>6, <3>1, TookNames
    <3> QED BY <2>1, <3>2 DEF Settled
  <2> QED BY <1>7, <2>1, <2>3, <2>4, <2>5, <2>6 DEF Defaulting
<1>11. CASE Close(t)
  <2>1. Took(t) /\ x.do = "close" /\ files' = Committed(th[t].file)
    BY <1>11, CloseIs DEF Close, Doing
  <2>2. ~Inside(th'[t].todo, 1)
    BY <1>4, <1>5, <1>7, <2>1 DEF HandledAt, Opening
  <2>3. th[t].file.name = n /\ th[t].file.state = "open" /\ th[t].file \in Handles
    BY <1>2, <1>4, <2>1, HeadIs DEF Inner, Defaulting
  <2>4. n \in UserFiles => th[t].file.dirty /\ th[t].file.data = Default[n]
    BY <1>2, <1>4, <2>1, <2>3 DEF Defaulting, Next1
  <2>5. \A m \in Files : files'[m] = IF th[t].file.dirty /\ n = m THEN th[t].file.data ELSE files[m]
    BY <2>1, <2>3, CommittedTyped DEF Calm, TypeOK, FilesOK
  <2>6. ASSUME NEW m \in UserFiles, m \notin Names_(th'[t].todo) PROVE Settled(m)'
    <3>1. m \in Files
      BY Contents
    <3>2. CASE m = n
      <4>1. files'[m] = Default[m]
        BY <2>4, <2>5, <3>1, <3>2
      <4>2. Default[m] # Absent /\ (m = "howto" => Default[m] = Howto)
        BY Contents, StorageAssumption DEF Default
      <4> QED BY <4>1, <4>2 DEF Settled
    <3>3. CASE m # n
      <4>1. Settled(m)
        BY <1>2, <2>1, <2>6, <3>3, TookNames
      <4> QED BY <2>5, <3>1, <3>3, <4>1 DEF Settled
    <3> QED BY <3>2, <3>3
  <2>7. Next1(t)' # "write" /\ Next1(t)' # "close"
    BY <2>2 DEF Next1, Inside, Inner, Do
  <2> QED BY <2>2, <2>6, <2>7 DEF Defaulting
<1>12. CASE Unlink(t) \/ Rename(t)
  BY <1>6, <1>12 DEF Unlink, Rename, Doing, Managing, Making, Ended
<1>13. CASE Fail(t)
  BY <1>3, <1>13, FailIs
<1>14. CASE MkfsFails(t)
  BY <1>3, <1>14, MkfsFailsIs
<1>15. CASE Unmount(t) \/ Mkfs(t) \/ Mount(t) \/ NoteMounted(t)
  <2>1. Took(t) /\ x.do \in Making
    BY <1>15, UnmountIs, PlainIs DEF Unmount, Mkfs, Mount, NoteMounted, Doing, Making
  <2> QED BY <1>2, <2>1, MakingDefaulting
<1>16. CASE FirstMount(t)
  <2>1. /\ x.do \in Making
        /\ \/ Took(t) \/ th'[t].todo = Reformat \o Tail(BootPlan)
           \/ th'[t].todo = FormatBlank \o Tail(BootPlan)
    BY <1>16, FirstMountIs DEF FirstMount, Doing, Making
  <2>2. CASE Took(t)
    BY <1>2, <2>1, <2>2, MakingDefaulting
  <2>3. CASE th'[t].todo = Reformat \o Tail(BootPlan)
    <3> DEFINE q == Reformat \o Tail(BootPlan)
    <3>1. q[1].do = "unmount" /\ q[5].name = "demo" /\ q[6].name = "howto" /\ Len(q) = 7
      BY ReformatIs
    <3> HIDE DEF q
    <3>2. "demo" \in Names_(q) /\ "howto" \in Names_(q)
      BY <3>1 DEF Names_
    <3>3. ~Inside(q, 1) /\ Do(q, 1) = "unmount"
      BY <3>1 DEF Inside, Inner, Do
    <3> QED BY <2>3, <3>2, <3>3 DEF Defaulting, Next1, UserFiles, q
  <2>4. CASE th'[t].todo = FormatBlank \o Tail(BootPlan)
    <3> DEFINE q == FormatBlank \o Tail(BootPlan)
    <3>1. q[1].do = "mkfs" /\ q[4].name = "demo" /\ q[5].name = "howto" /\ Len(q) = 6
      BY FormatBlankIs
    <3> HIDE DEF q
    <3>2. "demo" \in Names_(q) /\ "howto" \in Names_(q)
      BY <3>1 DEF Names_
    <3>3. ~Inside(q, 1) /\ Do(q, 1) = "mkfs"
      BY <3>1 DEF Inside, Inner, Do
    <3> QED BY <2>4, <3>2, <3>3 DEF Defaulting, Next1, UserFiles, q
  <2> QED BY <2>1, <2>2, <2>3, <2>4
<1>17. CASE DefaultFile(t)
  <2> DEFINE c == x.data
  <2>1. x.do = "default" /\ files' = files
    BY <1>17 DEF DefaultFile, Doing
  <2>2. /\ n \in UserFiles /\ c = Default[n] /\ c \in Text
        /\ Missing(n, c) => Extends(t, WriteFile(n, c), Only(n, {c}))
        /\ ~Missing(n, c) => Took(t)
    BY <1>17, DefaultFileIs
  <2>3. CASE ~Missing(n, c)
    <3>1. Took(t) /\ Settled(n)
      BY <2>2, <2>3 DEF Missing, Settled, Default
    <3>2. ~Inside(th'[t].todo, 1)
      BY <1>4, <1>5, <1>7, <2>1, <3>1 DEF HandledAt, Inner, Opening
    <3> QED BY <1>2, <2>1, <3>1, <3>2, PlainDefaulting
  <2>4. CASE Missing(n, c)
    <3> DEFINE r == Rest(s, 2)  q == WriteFile(n, c) \o r
    <3>1. th'[t].todo = q /\ r \in Seq(AnyStep)
      <4>1. Extends(t, WriteFile(n, c), Only(n, {c}))
        BY <2>2, <2>4
      <4>2. r \in Seq(AnyStep)
        BY <1>4, RestIs
      <4> QED BY <4>1, <4>2 DEF Extends
    <3>2. /\ q[1].do = "check" /\ q[2].name = n /\ Len(q) = Len(r) + 4 /\ Rest(q, 5) = r /\ q \in Seq(AnyStep)
          /\ Len(r) \in Nat
      BY <2>2, <3>1, WriteThen
    <3> HIDE DEF q
    <3>3. n \in Names_(q)
      <4>1. 2 \in 1 .. Len(q)
        BY <3>2
      <4> QED BY <3>2, <4>1 DEF Names_
    <3>4. Names_(r) \subseteq Names_(q)
      <4>1. ASSUME NEW i \in 1 .. Len(r) PROVE r[i].name \in Names_(q)
        <5>1. i + 5 - 1 \in 1 .. Len(q) /\ Rest(q, 5)[i] = q[i + 5 - 1]
          BY <3>2, RestIs
        <5> QED BY <3>2, <5>1 DEF Names_
      <4> QED BY <4>1 DEF Names_
    <3>5. ASSUME NEW m \in UserFiles, m \notin Names_(q) PROVE Settled(m)'
      <4>1. m # n /\ m \notin Names_(r)
        BY <3>3, <3>4, <3>5
      <4>2. m \notin Names_(s)
        BY <1>2, <1>4, <4>1, RestNames
      <4>3. Settled(m)
        BY <1>2, <4>2 DEF Defaulting
      <4> QED BY <2>1, <4>3 DEF Settled
    <3>6. ~Inside(q, 1) /\ Do(q, 1) # "write" /\ Do(q, 1) # "close"
      BY <3>2 DEF Inside, Inner, Do
    <3> QED BY <3>1, <3>5, <3>6 DEF Defaulting, Next1
  <2> QED BY <2>3, <2>4
<1>18. CASE LoadName(t)
  <2>1. x.do = "loadName" /\ files' = files
    BY <1>18 DEF LoadName, Doing
  <2>2. DefaultName \in Text /\ (Took(t) \/ th'[t].todo = Saved("name", DefaultName))
    BY <1>18, LoadNameIs
  <2>3. n \notin UserFiles /\ Do(s, 2) = "end"
    BY <1>4, <1>5, <2>1 DEF ManagedAt, UserFiles
  <2>4. CASE Took(t)
    <3>1. ~Inside(th'[t].todo, 1)
      BY <1>4, <1>5, <1>7, <2>1, <2>4 DEF HandledAt, Inner, Opening
    <3> QED BY <1>2, <2>1, <2>3, <2>4, <3>1, PlainDefaulting
  <2>5. CASE th'[t].todo = Saved("name", DefaultName)
    <3>1. Len(s) < 2
      <4>1. \A i \in 1 .. Len(s) : s[i].do # "end"
        <5> SUFFICES ASSUME NEW i \in 1 .. Len(s) PROVE s[i].do # "end"
          OBVIOUS
        <5>1. s[i] \in AnyStep
          BY <1>4
        <5> QED BY <5>1 DEF AnyStep, Operations
      <4> QED BY <1>4, <2>3, <4>1 DEF Do
    <3>2. ASSUME NEW m \in UserFiles PROVE Settled(m)'
      <4>1. m \notin Names_(s)
        BY <1>4, <2>3, <3>1 DEF Names_
      <4>2. Settled(m)
        BY <1>2, <4>1 DEF Defaulting
      <4> QED BY <2>1, <4>2 DEF Settled
    <3>3. th'[t].todo[1].do = "open"
      BY <2>2, <2>5, SavedIs, Contents
    <3>4. ~Inside(th'[t].todo, 1) /\ Next1(t)' # "write" /\ Next1(t)' # "close"
      BY <3>3 DEF Inside, Inner, Next1, Do
    <3> QED BY <3>2, <3>4 DEF Defaulting
  <2> QED BY <2>2, <2>4, <2>5
<1> QED BY <1>1, <1>8, <1>9, <1>10, <1>11, <1>12, <1>13, <1>14, <1>15, <1>16, <1>17, <1>18 DEF Steps

AllDefaulting == \A t \in Threads : Defaulting(t)

LEMMA PlanNames ==
    /\ UserFiles \subseteq Names_(BootPlan) /\ Do(BootPlan, 1) = "init" /\ ~Inside(BootPlan, 1)
    /\ UserFiles \subseteq Names_(FormatPlan) /\ Do(FormatPlan, 1) = "unmount" /\ ~Inside(FormatPlan, 1)
<1>1. /\ Len(BootPlan) = 5 /\ BootPlan[1].do = "init" /\ BootPlan[3].name = "demo"
         /\ BootPlan[4].name = "howto"
      /\ Len(FormatPlan) = 6 /\ FormatPlan[1].do = "unmount" /\ FormatPlan[5].name = "demo"
         /\ FormatPlan[6].name = "howto"
  BY BootPlanIs, FormatPlanIs
<1>2. /\ 3 \in 1 .. Len(BootPlan) /\ 4 \in 1 .. Len(BootPlan)
      /\ 5 \in 1 .. Len(FormatPlan) /\ 6 \in 1 .. Len(FormatPlan)
  BY <1>1
<1> QED BY <1>1, <1>2 DEF Names_, UserFiles, Do, Inside, Inner

LEMMA BootDefaulting ==
    /\ th = Booting => AllDefaulting
    /\ th' = Booting => AllDefaulting'
<1>1. ASSUME th = Booting PROVE AllDefaulting
  <2>1. \A u \in Threads : /\ u = "main" => th[u].todo = BootPlan
                           /\ u # "main" => th[u].op = "none"
    BY <1>1, BootCalls
  <2> QED BY <2>1, PlanNames DEF AllDefaulting, Defaulting, Next1, Manages
<1>2. ASSUME th' = Booting PROVE AllDefaulting'
  <2>1. \A u \in Threads : /\ u = "main" => th'[u].todo = BootPlan
                           /\ u # "main" => th'[u].op = "none"
    BY <1>2, BootCalls
  <2> QED BY <2>1, PlanNames DEF AllDefaulting, Defaulting, Next1, Manages
<1> QED BY <1>1, <1>2

LEMMA DefaultingInit == Init => AllDefaulting
BY BootDefaulting DEF Init

LEMMA DefaultingNext == InvWild /\ AllDefaulting /\ [Next]_vars => AllDefaulting'
<1> SUFFICES ASSUME InvWild, AllDefaulting, [Next]_vars PROVE AllDefaulting'
  OBVIOUS
<1>0. Calm
  BY DEF InvWild
<1>1. CASE \/ \E t \in {"web", "shell"} : Calls(t)
           \/ Cat \/ Restore \/ Serve \/ Receive
  <2>0. PICK t \in {"web", "shell"} : \E op, steps, goal : Begin(t, op, steps, goal) /\ Suits(op, steps, goal)
    BY <1>0, <1>1, CallIs
  <2>1. PICK op, steps, goal : Begin(t, op, steps, goal) /\ Suits(op, steps, goal)
    BY <2>0
  <2>2. t \in Threads
    BY DEF Threads
  <2>3. ASSUME NEW u \in Threads \ {t} PROVE Defaulting(u)'
    BY <1>0, <2>1, <2>2, SoleBegin DEF Defaulting
  <2>4. Defaulting(t)'
    <3>1. th'[t].op = op /\ th'[t].todo = steps
      BY <1>0, <2>1, <2>2, BeginIs
    <3>2. op # "boot" /\ (op = "format" => steps = FormatPlan)
      BY <2>1 DEF Suits, Kinds
    <3> QED BY <3>1, <3>2, PlanNames DEF Defaulting, Manages, Next1
  <2> QED BY <2>3, <2>4 DEF AllDefaulting
<1>2. ASSUME NEW t \in Threads, Steps(t) PROVE AllDefaulting'
  <2>1. Defaulting(t)'
    BY <1>0, <1>2, StepDefaulting DEF AllDefaulting
  <2>2. ASSUME NEW u \in Threads \ {t} PROVE Defaulting(u)'
    BY <1>0, <1>2, SoleStep DEF Defaulting
  <2> QED BY <2>1, <2>2 DEF AllDefaulting
<1>3. CASE Script
  BY <1>0, <1>3, SoleScript DEF AllDefaulting, Defaulting
<1>4. CASE Restart
  BY <1>4, BootDefaulting DEF Restart
<1>5. CASE UNCHANGED vars
  BY <1>5 DEF AllDefaulting, Defaulting, Sole, Busy, Manages, Settled, Next1, vars
<1> QED BY <1>1, <1>2, <1>3, <1>4, <1>5 DEF Next

LEMMA ReadyFrom == InvWild /\ AllDefaulting => FileSystemReady
<1> SUFFICES ASSUME InvWild, AllDefaulting PROVE MountedIsReal /\ DefaultsThere
  BY DEF FileSystemReady
<1>1. MountedIsReal
  BY DEF InvWild, Ordered
<1>2. ASSUME NEW t \in Threads, th[t].op \in {"boot", "format"}, th[t].todo = <<>>, th[t].clean, th[t].alone
      PROVE  files["demo"] # Absent /\ files["howto"] # Absent /\ Len(files["howto"]) = Len(Howto)
  <2>1. Sole(t) /\ Manages(t) /\ Names_(th[t].todo) = {}
    BY <1>2 DEF Sole, Busy, Manages, Names_
  <2>2. Settled("demo") /\ Settled("howto")
    BY <2>1, Contents DEF AllDefaulting, Defaulting
  <2> QED BY <2>2 DEF Settled
<1> QED BY <1>1, <1>2 DEF DefaultsThere

-----------------------------------------------------------------------------
(* What calls are for. *)

Intends(op, s, goal) ==
    /\ \A i \in 1 .. Len(s) :
          /\ AimedAt(s, i, goal, goal)
          /\ s[i].do = "rename" => /\ MayHold(s[i].name) \ {Absent} \subseteq goal[s[i].data]
                                   /\ goal[s[i].name] = {Absent}
    /\ \A n \in Files : goal[n] # {} => Touched(s, n)
    /\ op = "format" => goal = FormatAims

LEMMA WriteIntends ==
    ASSUME NEW n \in UserFiles, NEW d \in Text, NEW op \in {"write", "restore"}
    PROVE  Intends(op, WriteFile(n, d), Only(n, {d}))
<1> DEFINE s == WriteFile(n, d)  g == Only(n, {d})
<1>1. /\ Len(s) = 4 /\ s[1].do = "check" /\ s[2].do = "truncate"
      /\ s[3].do = "write" /\ s[3].name = n /\ s[3].data = d
      /\ s[4].do = "close" /\ s[4].name = n
  BY WriteFileIs
<1>2. \A m \in Files : g[m] = IF m = n THEN {d} ELSE {}
  BY Singles, OnlyTyped
<1>3. n \in Files /\ n \notin Sized
  BY Contents DEF Sized, UserFiles
<1> HIDE DEF s, g
<1>4. ASSUME NEW i \in 1 .. 4 PROVE AimedAt(s, i, g, g) /\ s[i].do # "rename"
  <2>1. CASE i = 3
    BY <1>1, <1>2, <1>3, <2>1 DEF AimedAt, Ends, Final, Do
  <2>2. CASE i \in {1, 2, 4}
    BY <1>1, <2>2 DEF AimedAt, Ends
  <2> QED BY <2>1, <2>2
<1>5. ASSUME NEW m \in Files, g[m] # {} PROVE Touched(s, m)
  BY <1>1, <1>2, <1>5 DEF Touched, Touches
<1>6. Intends(op, s, g)
  BY <1>1, <1>4, <1>5 DEF Intends
<1> QED BY <1>6 DEF s, g

LEMMA SavedIntends ==
    ASSUME NEW n \in Settings, NEW d \in Text, n \in Sized => d \in Full(n),
           NEW op \in {"mode", "name", "sta"}
    PROVE  Intends(op, Saved(n, d), Only(n, {d}))
<1> DEFINE s == Saved(n, d)  g == Only(n, {d})
<1>1. /\ Len(s) = 3 /\ s[1].do = "open"
      /\ s[2].do = "write" /\ s[2].name = n /\ s[2].data = d
      /\ s[3].do = "close" /\ s[3].name = n
  BY SavedIs
<1>2. \A m \in Files : g[m] = IF m = n THEN {d} ELSE {}
  BY Singles, OnlyTyped
<1>3. n \in Files
  BY Contents
<1> HIDE DEF s, g
<1>4. ASSUME NEW i \in 1 .. 3 PROVE AimedAt(s, i, g, g) /\ s[i].do # "rename"
  <2>1. CASE i = 2
    BY <1>1, <1>2, <1>3, <2>1 DEF AimedAt, Ends, Final, Do
  <2>2. CASE i \in {1, 3}
    BY <1>1, <2>2 DEF AimedAt, Ends
  <2> QED BY <2>1, <2>2
<1>5. ASSUME NEW m \in Files, g[m] # {} PROVE Touched(s, m)
  BY <1>1, <1>2, <1>5 DEF Touched, Touches
<1>6. Intends(op, s, g)
  BY <1>1, <1>4, <1>5 DEF Intends
<1> QED BY <1>6 DEF s, g

LEMMA DeleteIntends ==
    ASSUME NEW n \in UserFiles
    PROVE  Intends("delete", <<Check(1), Step("unlink", n, <<>>, 0)>>, Only(n, {Absent}))
<1> DEFINE s == <<Check(1), Step("unlink", n, <<>>, 0)>>  g == Only(n, {Absent})
<1>1. Len(s) = 2 /\ s[1].do = "check" /\ s[2].do = "unlink" /\ s[2].name = n
  BY DeleteIs
<1>2. (\A m \in Files : g[m] = IF m = n THEN {Absent} ELSE {}) /\ n \in Files
  BY OnlyTyped, Contents DEF Content
<1> HIDE DEF s, g
<1>4. ASSUME NEW i \in 1 .. 2 PROVE AimedAt(s, i, g, g) /\ s[i].do # "rename"
  <2>1. CASE i = 2
    BY <1>1, <1>2, <2>1 DEF AimedAt, Ends
  <2>2. CASE i = 1
    BY <1>1, <2>2 DEF AimedAt, Ends
  <2> QED BY <2>1, <2>2
<1>5. ASSUME NEW m \in Files, g[m] # {} PROVE Touched(s, m)
  BY <1>1, <1>2, <1>5 DEF Touched, Touches
<1>6. Intends("delete", s, g)
  BY <1>1, <1>4, <1>5 DEF Intends
<1> QED BY <1>6 DEF s, g

LEMMA MoveIntends ==
    ASSUME TypeOK, NEW n \in UserFiles, NEW m \in UserFiles, n # m
    PROVE  Intends("rename", <<Check(1), Step("rename", n, m, 0)>>,
                   Instead(Only(n, {Absent}), Only(m, MayHold(n) \ {Absent})))
<1> DEFINE s == <<Check(1), Step("rename", n, m, 0)>>
           g == Instead(Only(n, {Absent}), Only(m, MayHold(n) \ {Absent}))
<1>1. Len(s) = 2 /\ s[1].do = "check" /\ s[2].do = "rename" /\ s[2].name = n /\ s[2].data = m
  BY MoveIs
<1>2. /\ n \in Files /\ m \in Files /\ g[n] = {Absent} /\ g[m] = MayHold(n) \ {Absent}
      /\ \A f \in Files : g[f] # {} => f \in {n, m}
  <2>1. MayHold(n) \ {Absent} \in SUBSET Content /\ {Absent} \in SUBSET Content
    BY MayHoldTyped, Contents DEF TypeOK, Content
  <2>2. /\ Only(n, {Absent}) \in [Files -> SUBSET Content]
           /\ Only(m, MayHold(n) \ {Absent}) \in [Files -> SUBSET Content]
        /\ \A f \in Files : /\ Only(n, {Absent})[f] = IF f = n THEN {Absent} ELSE {}
                            /\ Only(m, MayHold(n) \ {Absent})[f] = IF f = m THEN MayHold(n) \ {Absent} ELSE {}
    BY <2>1, OnlyTyped
  <2>3. \A f \in Files : g[f] = IF f = n THEN {Absent} ELSE IF f = m THEN MayHold(n) \ {Absent} ELSE {}
    <3> DEFINE a == Only(n, {Absent})  b == Only(m, MayHold(n) \ {Absent})
    <3>1. \A f \in Files : g[f] = IF a[f] # {} THEN a[f] ELSE b[f]
      BY <2>2, InsteadTyped
    <3> HIDE DEF g
    <3> QED BY <2>2, <3>1
  <2> QED BY <2>3, Contents
<1> HIDE DEF s, g
<1>4. ASSUME NEW i \in 1 .. 2
      PROVE  /\ AimedAt(s, i, g, g)
             /\ s[i].do = "rename" => MayHold(s[i].name) \ {Absent} \subseteq g[s[i].data]
                /\ g[s[i].name] = {Absent}
  <2>1. CASE i = 2
    BY <1>1, <1>2, <2>1 DEF AimedAt, Ends
  <2>2. CASE i = 1
    BY <1>1, <2>2 DEF AimedAt, Ends
  <2> QED BY <2>1, <2>2
<1>5. ASSUME NEW f \in Files, g[f] # {} PROVE Touched(s, f)
  BY <1>1, <1>2, <1>5 DEF Touched, Touches
<1>6. Intends("rename", s, g)
  BY <1>1, <1>4, <1>5 DEF Intends
<1> QED BY <1>6 DEF s, g

LEMMA ReadIntends ==
    ASSUME NEW n \in UserFiles, NEW s \in {ReadFile(n), ServeFile(n)} PROVE Intends("read", s, NoGoal)
<1>1. /\ Len(s) = 4
      /\ \A i \in 1 .. 4 : s[i].do \in {"check", "look", "wait", "read", "close"}
         /\ (s[i].do \in {"look", "read"} => s[i].name = n)
  <2>1. CASE s = ReadFile(n)
    <3>1. /\ Len(s) = 4 /\ s[1].do = "check" /\ s[2].do = "look" /\ s[3].do = "read" /\ s[4].do = "close"
          /\ s[2].name = n /\ s[3].name = n
      BY <2>1, ReadFileIs
    <3> QED BY <3>1
  <2>2. CASE s = ServeFile(n)
    <3>1. /\ Len(s) = 4 /\ s[1].do = "look" /\ s[2].do = "wait" /\ s[3].do = "read" /\ s[4].do = "close"
          /\ s[1].name = n /\ s[3].name = n
      BY <2>2, ServeFileIs
    <3> QED BY <3>1
  <2> QED BY <2>1, <2>2
<1>2. n \in Files
  BY Contents
<1> QED BY <1>1, <1>2, NoGoalTyped DEF Intends, AimedAt, Ends

LEMMA UploadIntends ==
    ASSUME NEW n \in UserFiles PROVE Intends("upload", UploadFile(n), Only(n, {Upload}))
<1> DEFINE s == UploadFile(n)  g == Only(n, {Upload})
<1>1. /\ Len(s) = 5 /\ s[1].do = "truncate" /\ s[2].do = "write" /\ s[2].name = n
      /\ s[3].do = "wait" /\ s[4].do = "append" /\ s[4].name = n
      /\ s[5].do = "close" /\ s[5].data = Upload
  BY UploadFileIs
<1>2. (\A m \in Files : g[m] = IF m = n THEN {Upload} ELSE {}) /\ n \in Files
  BY Singles, OnlyTyped, Contents
<1>3. n \notin Sized
  BY Contents DEF Sized, UserFiles
<1> HIDE DEF s, g
<1>4. ASSUME NEW i \in 1 .. 5 PROVE AimedAt(s, i, g, g) /\ s[i].do # "rename"
  <2>1. CASE i = 4
    BY <1>1, <1>2, <1>3, <2>1 DEF AimedAt, Ends, Final, Do
  <2>2. CASE i = 2
    BY <1>1, <1>3, <2>2 DEF AimedAt, Ends, Do
  <2>3. CASE i \in {1, 3, 5}
    BY <1>1, <2>3 DEF AimedAt, Ends
  <2> QED BY <2>1, <2>2, <2>3
<1>5. ASSUME NEW m \in Files, g[m] # {} PROVE Touched(s, m)
  BY <1>1, <1>2, <1>5 DEF Touched, Touches
<1>6. Intends("upload", s, g)
  BY <1>1, <1>4, <1>5 DEF Intends
<1> QED BY <1>6 DEF s, g

LEMMA ForgetIntends ==
    Intends("forget", Forgotten, Instead(Only("sta", {Absent}), Only("mode", {<<"AP">>})))
<1> DEFINE s == Forgotten  g == Instead(Only("sta", {Absent}), Only("mode", {<<"AP">>}))
<1>1. /\ Len(s) = 5 /\ s[1].do = "unlink" /\ s[1].name = "sta" /\ s[2].do = "wait" /\ s[3].do = "open"
      /\ s[4].do = "write" /\ s[4].name = "mode" /\ s[4].data = <<"AP">> /\ s[5].do = "close"
  BY ForgottenIs
<1>2. /\ \A m \in Files : g[m] = IF m = "sta" THEN {Absent} ELSE IF m = "mode" THEN {<<"AP">>} ELSE {}
      /\ "sta" \in Files /\ "mode" \in Files
  <2>1. /\ Only("sta", {Absent}) \in [Files -> SUBSET Content]
           /\ Only("mode", {<<"AP">>}) \in [Files -> SUBSET Content]
        /\ \A m \in Files : /\ Only("sta", {Absent})[m] = IF m = "sta" THEN {Absent} ELSE {}
                            /\ Only("mode", {<<"AP">>})[m] = IF m = "mode" THEN {<<"AP">>} ELSE {}
    BY Singles, OnlyTyped, Contents
  <2>2. \A m \in Files : g[m] = IF m = "sta" THEN {Absent} ELSE IF m = "mode" THEN {<<"AP">>} ELSE {}
    <3> DEFINE a == Only("sta", {Absent})  b == Only("mode", {<<"AP">>})
    <3>1. \A m \in Files : g[m] = IF a[m] # {} THEN a[m] ELSE b[m]
      BY <2>1, InsteadTyped
    <3> HIDE DEF g
    <3> QED BY <2>1, <3>1
  <2> QED BY <2>2, Contents
<1>3. <<"AP">> \in Full("mode")
  BY DEF Full, Modes
<1> HIDE DEF s, g
<1>4. ASSUME NEW i \in 1 .. 5 PROVE AimedAt(s, i, g, g) /\ s[i].do # "rename"
  <2>1. CASE i = 4
    BY <1>1, <1>2, <1>3, <2>1 DEF AimedAt, Ends, Final, Do
  <2>2. CASE i = 1
    BY <1>1, <1>2, <2>2 DEF AimedAt, Ends
  <2>3. CASE i \in {2, 3, 5}
    BY <1>1, <2>3 DEF AimedAt, Ends
  <2> QED BY <2>1, <2>2, <2>3
<1>5. ASSUME NEW m \in Files, g[m] # {} PROVE Touched(s, m)
  BY <1>1, <1>2, <1>5 DEF Touched, Touches
<1>6. Intends("forget", s, g)
  BY <1>1, <1>4, <1>5 DEF Intends
<1> QED BY <1>6 DEF s, g

LEMMA FormatIntends == Intends("format", FormatPlan, FormatAims)
<1> DEFINE s == FormatPlan
<1>1. /\ Len(s) = 6 /\ s[1].do = "unmount" /\ s[2].do = "mkfs" /\ s[3].do = "mount" /\ s[4].do = "set"
      /\ s[5].do = "default" /\ s[6].do = "default"
  BY FormatPlanIs
<1> HIDE DEF s
<1>2. ASSUME NEW i \in 1 .. 6, NEW g PROVE AimedAt(s, i, g, g) /\ s[i].do # "rename"
  BY <1>1 DEF AimedAt, Ends
<1>3. ASSUME NEW m \in Files PROVE Touched(s, m)
  BY <1>1 DEF Touched, Touches
<1>4. Intends("format", s, FormatAims)
  BY <1>1, <1>2, <1>3 DEF Intends
<1> QED BY <1>4 DEF s

LEMMA CallMeans ==
    ASSUME Calm, \/ \E t \in {"web", "shell"} : Calls(t)
                 \/ Cat \/ Restore \/ Serve \/ Receive
    PROVE  \E t \in {"web", "shell"} : \E op, steps, goal :
              Begin(t, op, steps, goal) /\ Suits(op, steps, goal) /\ Intends(op, steps, goal)
<1>1. ASSUME NEW t \in {"web", "shell"}, Calls(t)
      PROVE  \E op, steps, goal : Begin(t, op, steps, goal) /\ Suits(op, steps, goal)
             /\ Intends(op, steps, goal)
  <2>1. CASE Write(t)
    BY <2>1, WriteSuits, WriteIntends, Singles DEF Write
  <2>2. CASE Delete(t)
    BY <2>2, DeleteSuits, DeleteIntends DEF Delete
  <2>3. CASE Move(t)
    BY <2>3, MoveSuits, MoveIntends DEF Move, Calm
  <2>4. CASE Format(t)
    BY <2>4, FormatSuits, FormatIntends DEF Format, FormatAims
  <2>5. CASE SaveMode(t)
    BY <2>5, SavedSuits, SavedIntends, Contents DEF SaveMode, Full
  <2>6. CASE SaveName(t)
    BY <2>6, SavedSuits, SavedIntends, Contents, Singles DEF SaveName, Sized
  <2>7. CASE SaveCredentials(t)
    BY <2>7, SavedSuits, SavedIntends, Contents, Singles DEF SaveCredentials, Full
  <2>8. CASE Forget(t)
    BY <2>8, ForgetSuits, ForgetIntends DEF Forget
  <2> QED BY <1>1, <2>1, <2>2, <2>3, <2>4, <2>5, <2>6, <2>7, <2>8 DEF Calls
<1>2. CASE Cat
  BY <1>2, ReadSuits, ReadIntends DEF Cat
<1>3. CASE Restore
  BY <1>3, WriteSuits, WriteIntends, Contents DEF Restore
<1>4. CASE Serve
  BY <1>4, ReadSuits, ReadIntends DEF Serve
<1>5. CASE Receive
  BY <1>5, UploadSuits, UploadIntends DEF Receive
<1> QED BY <1>1, <1>2, <1>3, <1>4, <1>5

-----------------------------------------------------------------------------
(* What is left of a call is what it is for. *)

LEMMA AimedMore ==
    ASSUME NEW s \in Seq(AnyStep), Laid(s), NEW i \in 1 .. Len(s), NEW goal, NEW may, NEW more,
           \A n \in Files : may[n] \subseteq more[n], AimedAt(s, i, goal, may)
    PROVE  AimedAt(s, i, goal, more)
<1>1. s[i].do \in {"unlink", "rename"} => s[i].name \in Files
  BY DEF Laid, LaidAt, WrittenAt
<1> QED BY <1>1 DEF AimedAt

LEMMA RestAimed ==
    ASSUME NEW s \in Seq(AnyStep), Laid(s), NEW k \in Nat \ {0}, NEW i \in 1 .. Len(Rest(s, k)),
           NEW goal, NEW may
    PROVE  /\ i + k - 1 \in 1 .. Len(s)
           /\ AimedAt(Rest(s, k), i, goal, may) <=> AimedAt(s, i + k - 1, goal, may)
<1> DEFINE r == Rest(s, k)  j == i + k - 1
<1>1. /\ i \in Nat /\ j \in 1 .. Len(s) /\ r[i] = s[j] /\ Do(r, i + 1) = Do(s, j + 1)
      /\ Do(s, j + 1) # "end" => r[i + 1] = s[j + 1]
  BY RestAt
<1>2. s[j].do = "append" => Do(s, j + 1) = "close"
  BY <1>1 DEF Laid, LaidAt, WrittenAt
<1> HIDE DEF r, j
<1>3. (Ends(r, i) <=> Ends(s, j)) /\ (Ends(s, j) => Final(r, i) = Final(s, j))
  BY <1>1, <1>2 DEF Ends, Final
<1>4. AimedAt(r, i, goal, may) <=> AimedAt(s, j, goal, may)
  BY <1>1, <1>3 DEF AimedAt
<1> QED BY <1>1, <1>4 DEF r, j

LEMMA MeantKept ==
    ASSUME Calm, NEW t \in Threads, Steps(t), ~Return(t)
    PROVE  \A n \in Files : meant[n] \subseteq meant'[n]
<1>1. ASSUME NEW g, meant' = Widened(g) PROVE \A n \in Files : meant[n] \subseteq meant'[n]
  BY <1>1 DEF Widened
<1>3. CASE Emptied
  BY <1>3 DEF Emptied
<1>4. CASE UNCHANGED meant
  BY <1>4
<1>5. CASE Rename(t)
  BY <1>1, <1>5 DEF Rename
<1>6. CASE Fail(t)
  BY <1>1, <1>4, <1>6 DEF Fail
<1>7. CASE DefaultFile(t)
  BY <1>1, <1>4, <1>7 DEF DefaultFile
<1>8. CASE LoadName(t)
  BY <1>1, <1>4, <1>8 DEF LoadName
<1>9. CASE \/ CheckMounted(t) \/ Open(t) \/ Transfer(t) \/ Close(t) \/ Unlink(t) \/ Unmount(t) \/ Mkfs(t) \/ MkfsFails(t)
           \/ Mount(t) \/ FirstMount(t) \/ NoteMounted(t)
  BY <1>3, <1>4, <1>9 DEF CheckMounted, Open, Transfer, Close, Unlink, Unmount, Mkfs, MkfsFails, Mount,
     FirstMount, NoteMounted
<1> QED BY <1>5, <1>6, <1>7, <1>8, <1>9 DEF Steps

LEMMA OtherAimed ==
    ASSUME Calm, NEW t \in Threads, Steps(t), NEW u \in Threads \ {t}, Aimed(u) PROVE Aimed(u)'
<1> DEFINE s == th[u].todo
<1>1. s \in Seq(AnyStep) /\ Laid(s)
  BY CallTyped DEF Calm, TypeOK, AllRoles, Roles
<1>2. CASE Return(t)
  <2>1. th'[u] = th[u]
    BY <1>2, ReturnIs DEF SameBut
  <2>2. CASE th[t].alone
    <3>1. ~Busy(u)
      BY <1>2, <2>2 DEF Return, Calm, Single, OnlyOne, Others
    <3>2. s = <<>>
      BY <3>1, IdleIs
    <3> QED BY <2>1, <3>2 DEF Aimed
  <2>3. CASE ~th[t].alone
    <3>1. meant' = meant
      BY <1>2, <2>3 DEF Return
    <3> QED BY <2>1, <3>1 DEF Aimed, AimedAt, Ends, Final
  <2> QED BY <2>2, <2>3
<1>3. CASE ~Return(t)
  <2>1. th'[u].todo = s /\ th'[u].goal = th[u].goal
    BY <1>3, StepRole DEF Beside, SameCall
  <2>2. \A i \in 1 .. Len(s) : AimedAt(s, i, th[u].goal, meant')
    BY <1>1, <1>3, MeantKept, AimedMore DEF Aimed
  <2> HIDE DEF s
  <2> QED BY <2>1, <2>2 DEF Aimed
<1> QED BY <1>2, <1>3

\* What is left when steps are done or left out.
LEMMA CutAimed ==
    ASSUME Calm, NEW t \in Threads, Aimed(t), \A n \in Files : meant[n] \subseteq meant'[n],
           NEW k \in Nat \ {0}, th'[t].todo = Rest(th[t].todo, k), th'[t].goal = th[t].goal
    PROVE  Aimed(t)'
<1> DEFINE s == th[t].todo  r == Rest(s, k)
<1>1. s \in Seq(AnyStep) /\ Laid(s)
  BY CallTyped DEF Calm, TypeOK, AllRoles, Roles
<1>2. ASSUME NEW i \in 1 .. Len(r) PROVE AimedAt(r, i, th[t].goal, meant')
  <2>1. i + k - 1 \in 1 .. Len(s)
        /\ (AimedAt(r, i, th[t].goal, meant') <=> AimedAt(s, i + k - 1, th[t].goal, meant'))
    BY <1>1, RestAimed
  <2>2. AimedAt(s, i + k - 1, th[t].goal, meant)
    BY <2>1 DEF Aimed
  <2> QED BY <1>1, <2>1, <2>2, AimedMore
<1> HIDE DEF s, r
<1>3. th'[t].todo = r
  BY DEF s, r
<1> QED BY <1>2, <1>3 DEF Aimed

\* ... and when a default file is to be written.
LEMMA WriteAimed ==
    ASSUME Calm, NEW t \in Threads, Aimed(t), DefaultFile(t), Missing(Now(t).name, Now(t).data)
    PROVE  Aimed(t)'
<1> DEFINE n == Now(t).name  c == Now(t).data  s == th[t].todo  r == Rest(s, 2)  q == WriteFile(n, c) \o r
           g == Only(n, {c})  goal == th[t].goal  aim == th'[t].goal
<1>1. /\ n \in UserFiles /\ c = Default[n] /\ c \in Text /\ {c} \in SUBSET Content /\ n \in Files
      /\ Extends(t, WriteFile(n, c), g) /\ s # <<>> /\ Now(t).do = "default"
  BY DefaultFileIs, Contents DEF DefaultFile, Doing
<1>2. /\ s \in Seq(AnyStep) /\ Laid(s) /\ goal \in [Files -> SUBSET Content] /\ Defaulted(s)
  <2>1. s \in Seq(AnyStep) /\ goal \in [Files -> SUBSET Content] /\ Laid(s)
    BY CallTyped DEF Calm, TypeOK, AllRoles, Roles
  <2>2. Defaulted(s)
    BY <1>1, ManagerIs DEF Managing, Ended
  <2> QED BY <2>1, <2>2
<1>3. \A m \in Files : aim[m] = IF m = n THEN {c} ELSE goal[m]
  <2>1. aim = Instead(g, goal) /\ g \in [Files -> SUBSET Content]
        /\ \A m \in Files : g[m] = IF m = n THEN {c} ELSE {}
    BY <1>1, OnlyTyped DEF Extends
  <2> HIDE DEF g, aim, goal, n, c
  <2>2. \A m \in Files : aim[m] = IF g[m] # {} THEN g[m] ELSE goal[m]
    BY <1>2, <2>1, InsteadTyped
  <2> QED BY <2>1, <2>2
<1>4. meant' = Widened(g) /\ \A m \in Files : meant'[m] = meant[m] \cup (IF m = n THEN {c} ELSE {})
  <2>1. meant' = Widened(g) /\ \A m \in Files : g[m] = IF m = n THEN {c} ELSE {}
    BY <1>1, OnlyTyped DEF DefaultFile
  <2> QED BY <2>1 DEF Widened
<1>5. /\ th'[t].todo = q /\ q \in Seq(AnyStep) /\ Len(q) = Len(r) + 4 /\ Len(r) \in Nat /\ Rest(q, 5) = r
         /\ r \in Seq(AnyStep)
      /\ q[1].do = "check" /\ q[2].do = "truncate" /\ q[3].do = "write" /\ q[3].name = n /\ q[3].data = c
         /\ q[4].do = "close"
  <2>1. r \in Seq(AnyStep)
    BY <1>2, RestIs
  <2> QED BY <1>1, <2>1, WriteThen DEF Extends
<1>6. Laid(q)
  <2>1. Roles(t)'
    BY <1>1, StepRole, ReturnIs DEF Steps
  <2> QED BY <1>5, <2>1 DEF Roles
<1> HIDE DEF q, g, aim, r, s, goal, n, c
<1>7. ASSUME NEW i \in 1 .. 4 PROVE AimedAt(q, i, aim, meant')
  <2>1. n \notin Sized
    BY <1>1 DEF UserFiles, Sized
  <2>2. CASE i = 3
    BY <1>1, <1>3, <1>4, <1>5, <2>1, <2>2 DEF AimedAt, Ends, Final
  <2>3. CASE i \in {1, 2, 4}
    BY <1>5, <2>3 DEF AimedAt, Ends
  <2> QED BY <2>2, <2>3
<1>8. ASSUME NEW i \in 1 .. Len(r) PROVE AimedAt(r, i, aim, meant')
  <2>1. i + 2 - 1 \in 1 .. Len(s) /\ \A go, may : AimedAt(r, i, go, may) <=> AimedAt(s, i + 2 - 1, go, may)
    BY <1>2, RestAimed DEF r
  <2> DEFINE j == i + 2 - 1
  <2>2. AimedAt(s, j, goal, meant)
    BY <2>1 DEF Aimed, s, goal
  <2>3. AimedAt(s, j, goal, meant')
    BY <1>2, <1>4, <2>1, <2>2, AimedMore
  <2>4. DefaultedAt(s, j) /\ s[j] \in AnyStep /\ WrittenAt(s, j)
    BY <1>2, <2>1 DEF Defaulted, Laid, LaidAt
  <2> HIDE DEF j
  <2>5. /\ s[j].do \in Managing \cup {"check", "open", "truncate", "write", "close"}
        /\ s[j].do = "write" => Do(s, j + 1) = "close"
        /\ s[j].name \in UserFiles => s[j].data = Default[s[j].name]
    BY <2>4 DEF DefaultedAt
  <2>6. s[j].do \notin {"append", "unlink", "rename", "look", "read"}
    BY <2>5 DEF Managing, Making, Ended
  <2>7. Ends(s, j) => s[j].name \in Files /\ Final(s, j) \in aim[s[j].name]
    BY <1>1, <1>3, <2>3, <2>5, <2>6 DEF AimedAt, Ends, Final
  <2>8. AimedAt(s, j, aim, meant')
    BY <2>3, <2>6, <2>7 DEF AimedAt
  <2> QED BY <2>1, <2>8 DEF j
<1>9. ASSUME NEW i \in 5 .. Len(q) PROVE AimedAt(q, i, aim, meant')
  <2> DEFINE j == i - 4
  <2>1. j \in 1 .. Len(r) /\ j + 5 - 1 = i
    BY <1>5
  <2> HIDE DEF j
  <2>2. AimedAt(r, j, aim, meant') <=> AimedAt(q, i, aim, meant')
    BY <1>5, <1>6, <2>1, RestAimed
  <2> QED BY <1>8, <2>1, <2>2
<1>10. \A i \in 1 .. Len(q) : AimedAt(q, i, aim, meant')
  BY <1>5, <1>7, <1>9
<1> QED BY <1>5, <1>10 DEF Aimed, aim

LEMMA StepAimed ==
    ASSUME Calm, NEW t \in Threads, Steps(t), Aimed(t) PROVE Aimed(t)'
<1>1. CASE Return(t)
  BY <1>1, ReturnIs DEF Aimed
<1>2. CASE Took(t)
  <2>1. ~Return(t) => \A n \in Files : meant[n] \subseteq meant'[n]
    BY MeantKept
  <2> QED BY <1>1, <1>2, <2>1, CutAimed DEF Took
<1>3. CASE Skipped(t) /\ ~Return(t)
  <2>1. 2 + Now(t).skip \in Nat \ {0}
    BY <1>3, StepRole, HeadIs
  <2> QED BY <1>3, <2>1, MeantKept, CutAimed DEF Skipped
<1>4. CASE CheckMounted(t) \/ Open(t) \/ Transfer(t) \/ Close(t) \/ Unlink(t) \/ Rename(t)
  BY <1>1, <1>2, <1>3, <1>4, CheckIs, OpenIs, TransferIs, CloseIs, RemoveIs
<1>5. CASE Fail(t) \/ Unmount(t) \/ Mkfs(t) \/ Mount(t) \/ NoteMounted(t) \/ MkfsFails(t)
  BY <1>1, <1>2, <1>3, <1>5, FailIs, UnmountIs, PlainIs, MkfsFailsIs
<1>6. CASE FirstMount(t)
  <2>1. CASE th'[t].todo = Reformat \o Tail(BootPlan)
    <3> DEFINE q == Reformat \o Tail(BootPlan)
    <3>1. Len(q) = 7 /\ \A i \in 1 .. 7 : q[i].do \in Managing
      BY ReformatIs DEF Managing, Making, Ended
    <3> HIDE DEF q
    <3>2. \A i \in 1 .. Len(q) : AimedAt(q, i, th'[t].goal, meant')
      BY <3>1 DEF AimedAt, Ends, Managing, Making, Ended
    <3> QED BY <2>1, <3>2 DEF Aimed, q
  <2>2. CASE th'[t].todo = FormatBlank \o Tail(BootPlan)
    <3> DEFINE q == FormatBlank \o Tail(BootPlan)
    <3>1. Len(q) = 6 /\ \A i \in 1 .. 6 : q[i].do \in Managing
      BY FormatBlankIs DEF Managing, Making, Ended
    <3> HIDE DEF q
    <3>2. \A i \in 1 .. Len(q) : AimedAt(q, i, th'[t].goal, meant')
      BY <3>1 DEF AimedAt, Ends, Managing, Making, Ended
    <3> QED BY <2>2, <3>2 DEF Aimed, q
  <2> QED BY <1>2, <1>6, <2>1, <2>2, FirstMountIs
<1>7. CASE DefaultFile(t)
  BY <1>2, <1>7, DefaultFileIs, WriteAimed
<1>8. CASE LoadName(t)
  <2>1. CASE /\ th'[t].todo = Saved("name", DefaultName)
             /\ th'[t].goal = Instead(Only("name", {DefaultName}), th[t].goal)
             /\ meant' = Widened(Only("name", {DefaultName}))
    <3> DEFINE s == Saved("name", DefaultName)  g == Only("name", {DefaultName})  aim == th'[t].goal
    <3>1. DefaultName \in Text /\ {DefaultName} \in SUBSET Content /\ "name" \in Files /\ "name" \notin Sized
      BY <1>8, LoadNameIs, Contents DEF Sized
    <3>2. /\ Len(s) = 3 /\ s[1].do = "open" /\ s[2].do = "write" /\ s[2].name = "name"
             /\ s[2].data = DefaultName
          /\ s[3].do = "close"
      BY <3>1, SavedIs, Contents
    <3>3. g["name"] = {DefaultName} /\ g \in [Files -> SUBSET Content]
      BY <3>1, OnlyTyped
    <3>4. DefaultName \in aim["name"] /\ DefaultName \in meant'["name"]
      <4>1. aim = Instead(g, th[t].goal) /\ meant' = Widened(g) /\ th[t].goal \in [Files -> SUBSET Content]
        BY <2>1, CallTyped DEF Calm, TypeOK
      <4> HIDE DEF aim, g
      <4>2. aim["name"] = IF g["name"] # {} THEN g["name"] ELSE th[t].goal["name"]
        BY <3>1, <3>3, <4>1, InsteadTyped
      <4>3. meant'["name"] = meant["name"] \cup g["name"]
        BY <3>1, <4>1 DEF Widened
      <4> QED BY <3>3, <4>2, <4>3
    <3> HIDE DEF s, g, aim
    <3>5. ASSUME NEW i \in 1 .. 3 PROVE AimedAt(s, i, aim, meant')
      <4>1. CASE i = 2
        BY <3>1, <3>2, <3>4, <4>1 DEF AimedAt, Ends, Final
      <4>2. CASE i \in {1, 3}
        BY <3>2, <4>2 DEF AimedAt, Ends
      <4> QED BY <4>1, <4>2
    <3>6. th'[t].todo = s
      BY <2>1 DEF s
    <3> QED BY <3>2, <3>5, <3>6 DEF Aimed, aim
  <2> QED BY <1>2, <1>8, <2>1, LoadNameIs
<1> QED BY <1>1, <1>4, <1>5, <1>6, <1>7, <1>8 DEF Steps

-----------------------------------------------------------------------------
(* What a rename moves is still what the call is for. *)

\* A call that has met no failure has taken its step or written more steps down.
LEMMA SoleBefore ==
    ASSUME Calm, NEW t \in Threads, Steps(t), Sole(t)'
    PROVE  /\ ~Return(t) /\ Sole(t) /\ ~Skipped(t) /\ th[t].todo # <<>>
           /\ th' \in [Threads -> AnyCall] /\ Beside(t) /\ OnItsWay(t) /\ Roles(t)'
<1>1. ~Return(t)
  BY ReturnIs DEF Sole, Busy, NoCall
<1>2. /\ th' \in [Threads -> AnyCall] /\ Beside(t) /\ OnItsWay(t) /\ Roles(t)' /\ th[t].todo # <<>>
      /\ th'[t].clean => th[t].clean
  BY <1>1, StepRole
<1> QED BY <1>1, <1>2 DEF Sole, Busy, OnItsWay, Skipped

\* A step that is not taken makes room for others: only those who manage do that.
LEMMA TookOrManages ==
    ASSUME Calm, NEW t \in Threads, Steps(t), ~Return(t)
    PROVE  \/ Took(t) \/ Skipped(t)
           \/ /\ FirstMount(t) \/ DefaultFile(t) \/ LoadName(t)
              /\ Manages(t)' /\ Defaulted(th'[t].todo)
<1>1. CASE FirstMount(t) \/ DefaultFile(t) \/ LoadName(t)
  <2>1. Manages(t)
    BY <1>1, ManagerIs DEF FirstMount, DefaultFile, LoadName, Doing, Managing, Making, Ended
  <2>2. Manages(t)'
    BY <2>1, StepRole DEF Manages, OnItsWay
  <2>3. Defaulted(th'[t].todo)
    BY <2>2, StepRole DEF Roles
  <2> QED BY <1>1, <2>2, <2>3
<1>2. CASE CheckMounted(t) \/ Open(t) \/ Transfer(t) \/ Close(t) \/ Unlink(t) \/ Rename(t)
  BY <1>2, CheckIs, OpenIs, TransferIs, CloseIs, RemoveIs
<1>3. CASE Fail(t) \/ Unmount(t) \/ Mkfs(t) \/ Mount(t) \/ NoteMounted(t) \/ MkfsFails(t)
  BY <1>3, FailIs, UnmountIs, PlainIs, MkfsFailsIs
<1> QED BY <1>1, <1>2, <1>3 DEF Steps

LEMMA DefaultedDo ==
    ASSUME NEW s, Defaulted(s), NEW i
    PROVE  Do(s, i) \in Managing \cup {"check", "open", "truncate", "write", "close"}
<1>1. CASE i \in 1 .. Len(s)
  BY <1>1 DEF Defaulted, DefaultedAt, Do
<1>2. CASE i \notin 1 .. Len(s)
  BY <1>2 DEF Do, Managing, Ended
<1> QED BY <1>1, <1>2

LEMMA StepMoving ==
    ASSUME Calm, NEW t \in Threads, Steps(t), Moving(t) PROVE Moving(t)'
<1> DEFINE s == th[t].todo  z == th'[t].todo
<1> SUFFICES ASSUME Sole(t)', NEW i \in {1, 2}, Do(z, i) = "rename"
             PROVE  (meant'[z[i].name] \cup {c \in {<<>>} : z[i].name \in hollow'}) \ {Absent}
                    \subseteq th'[t].goal[z[i].data]
  BY DEF Moving, MayHold
<1>1. Sole(t) /\ ~Return(t) /\ ~Skipped(t) /\ s # <<>>
  BY SoleBefore
<1>2. Took(t)
  <2>1. ASSUME Defaulted(z) PROVE FALSE
    BY <2>1, DefaultedDo DEF Managing, Making, Ended
  <2> QED BY <1>1, <2>1, TookOrManages
<1>3. s \in Seq(AnyStep) /\ Laid(s) /\ 1 \in 1 .. Len(s) /\ Now(t) = s[1]
  BY <1>1, HeadIs
<1>4. z = Rest(s, 2) /\ Do(z, i) = Do(s, i + 1) /\ i + 1 \in 1 .. Len(s) /\ z[i] = s[i + 1]
  <2>1. z = Rest(s, 2)
    BY <1>2 DEF Took
  <2>2. i \in Nat \ {0} /\ 2 \in Nat \ {0} /\ i + 2 - 1 = i + 1
    OBVIOUS
  <2>3. Do(z, i) = Do(s, i + 1) /\ (i \in 1 .. Len(z) => i + 1 \in 1 .. Len(s) /\ z[i] = s[i + 1])
    <3> DEFINE j == i + 2 - 1
    <3>1. Do(Rest(s, 2), i) = Do(s, j)
          /\ (i \in 1 .. Len(Rest(s, 2)) => j \in 1 .. Len(s) /\ Rest(s, 2)[i] = s[j])
      BY <1>3, <2>2, RestSteps
    <3>2. j = i + 1
      BY <2>2
    <3> HIDE DEF j, s, z
    <3> QED BY <2>1, <3>1, <3>2
  <2>4. i \in 1 .. Len(z)
    BY DEF Do
  <2> QED BY <2>1, <2>3, <2>4
<1>5. i = 1 /\ s[1].do = "check"
  <2>1. ASSUME NEW k \in 1 .. Len(s) PROVE WrittenAt(s, k)
    BY <1>3 DEF Laid, LaidAt
  <2>2. i \in 1 .. Len(s) /\ s[i].do = "check"
    <3>1. i \in 1 .. Len(s)
      BY <1>3, <1>4
    <3> QED BY <1>4, <2>1, <3>1 DEF WrittenAt
  <2>3. i # 2
    <3>1. ASSUME i = 2 PROVE Do(s, 2) = "check"
      BY <2>2, <3>1 DEF Do
    <3>2. Do(s, 1 + 1) # "check"
      BY <1>3, <2>1 DEF WrittenAt
    <3> QED BY <3>1, <3>2
  <2> QED BY <2>2, <2>3
<1>6. CheckMounted(t)
  <2>1. Now(t).do = "check"
    BY <1>3, <1>5
  <2> QED BY <1>1, <2>1 DEF Steps, Open, Transfer, Close, Unlink, Rename, Fail, Unmount, Mkfs, MkfsFails,
             Mount,
        FirstMount, NoteMounted, DefaultFile, LoadName, Doing
<1>7. meant' = meant /\ hollow' = hollow /\ th'[t].goal = th[t].goal
  BY <1>2, <1>6 DEF CheckMounted, Took
<1>8. Do(s, 2) = "rename" /\ z[i] = s[2]
  BY <1>4, <1>5
<1> HIDE DEF s, z
<1> QED BY <1>1, <1>7, <1>8 DEF Moving, MayHold, s

-----------------------------------------------------------------------------
(* What a call writes into the file it has open. *)

LEMMA OverlaidLonger ==
    ASSUME NEW a \in Text, NEW b \in Text, Len(b) <= Len(a) PROVE Overlaid(a, b) = a
BY DEF Overlaid, Text

LEMMA OverlaidPrefix ==
    ASSUME NEW a \in Text, NEW b \in Text PROVE IsPrefix(a, Overlaid(a, b))
<1> DEFINE o == Overlaid(a, b)  c == SubSeq(b, Len(a) + 1, Len(b))
<1>1. c \in Text /\ o = a \o c
  BY DEF Overlaid, Text
<1> HIDE DEF o, c
<1>2. Len(a) \in Nat /\ Len(c) \in Nat /\ Len(o) = Len(a) + Len(c) /\ o \in Text
      /\ \A i \in 1 .. Len(a) : o[i] = a[i]
  BY <1>1 DEF Text
<1>3. SubSeq(a, 1, Len(a)) = SubSeq(o, 1, Len(a))
  BY <1>2 DEF Text
<1> QED BY <1>2, <1>3 DEF IsPrefix, o

LEMMA FitsMore ==
    ASSUME NEW n, NEW c, NEW S, NEW T, S \subseteq T, Fits(n, c, S) PROVE Fits(n, c, T)
BY DEF Fits

\* Over a setting of the same length, over nothing, or over any name.
LEMMA OverlaidFits ==
    ASSUME NEW n \in Files, NEW d \in Text, NEW b \in Text, NEW S, d \in S,
           n \in Sized => d \in Full(n) /\ b \in {<<>>} \cup Full(n),
           n \in UserFiles => b = <<>>
    PROVE  Fits(n, Overlaid(d, b), S) /\ (n \in Sized => Overlaid(d, b) = d)
<1>1. CASE n \in UserFiles
  <2>1. Overlaid(d, b) = d /\ n \notin Sized
    BY <1>1, OverlaidEmpty DEF UserFiles, Sized
  <2> QED BY <2>1 DEF Fits
<1>2. CASE n \in Sized
  <2>1. Len(b) <= Len(d)
    <3>1. b = <<>> => Len(b) = 0 /\ Len(d) \in Nat
      BY DEF Text
    <3>2. ASSUME b \in Full(n) PROVE Len(b) <= Len(d)
      <4>1. CASE n = "mode"
        <5>1. Len(b) = 1 /\ Len(d) = 1
          BY <1>2, <3>2, <4>1 DEF Full, Modes
        <5> QED BY <5>1
      <4>2. CASE n # "mode"
        <5>1. b \in Records /\ d \in Records /\ Len(b) \in Nat
          BY <1>2, <3>2, <4>2 DEF Full, Text
        <5>2. Len(b) = Len(d)
          BY <5>1, StorageAssumption
        <5> QED BY <5>1, <5>2
      <4> QED BY <4>1, <4>2
    <3> QED BY <1>2, <3>1, <3>2
  <2> QED BY <2>1, OverlaidLonger DEF Fits
<1>3. CASE n = "name"
  <2>1. Overlaid(d, b) \in Text /\ Absent \notin Text
    BY OverlaidTyped, StorageAssumption
  <2> QED BY <1>3, <2>1, OverlaidPrefix DEF Fits, Sized
<1> QED BY <1>1, <1>2, <1>3 DEF Files, Settings, Sized

\* Nothing is open.
LEMMA OutsideWriting ==
    ASSUME NEW t \in Threads, th'[t].file = NoFile, ~Inside(th'[t].todo, 1) PROVE Writing(t)'
<1>1. Next1(t)' \notin {"write", "append", "read", "close"}
  BY DEF Next1, Do, Inside, Inner
<1>2. NoFile.state = "closed" /\ NoFile.name = "none" /\ NoFile.dirty = FALSE /\ "none" \notin Sized
  BY DEF NoFile, Sized
<1> QED BY <1>1, <1>2 DEF Writing

LEMMA OtherWriting ==
    ASSUME NEW u \in Threads, Writing(u), th'[u].todo = th[u].todo, th'[u].goal = th[u].goal,
           Fades(th[u].file, th'[u].file), ~Sole(u)', \A n \in Files : meant[n] \subseteq meant'[n]
    PROVE  Writing(u)'
<1> DEFINE f == th[u].file  g == th'[u].file  s == th[u].todo
<1>1. g.name = f.name /\ g.data = f.data /\ g.dirty = f.dirty /\ (g.state = "open" => f.state = "open")
      /\ (g.state # "closed" => f.state # "closed")
  BY DEF Fades
<1>2. th'[u].todo = s /\ Next1(u)' = Next1(u)
  BY DEF Next1
<1>3. f.state # "closed" => f.name \in Files
  BY DEF Writing
<1>4. Next1(u) = "close" /\ g.state = "open" /\ f.dirty => Fits(f.name, f.data, meant'[f.name])
  BY <1>1, <1>3, FitsMore DEF Writing
<1> HIDE DEF f, g, s
<1> QED BY <1>1, <1>2, <1>4 DEF Writing, f, g, s

\* The following step is at hand.
LEMMA TookShift ==
    ASSUME Calm, NEW t \in Threads, th[t].todo # <<>>, Took(t)
    PROVE  LET s == th[t].todo  z == th'[t].todo
           IN /\ Do(z, 1) = Do(s, 2) /\ Do(z, 2) = Do(s, 3) /\ (Inside(z, 1) <=> Inside(s, 2))
              /\ Do(s, 2) # "end" => z[1] = s[2]
              /\ Do(s, 3) # "end" => z[2] = s[3]
              /\ Do(s, 4) # "end" => z[3] = s[4]
<1> DEFINE s == th[t].todo  z == th'[t].todo
<1>1. s \in Seq(AnyStep) /\ z = Rest(s, 2)
  BY HeadIs DEF Took
<1> HIDE DEF s, z
<1>2. ASSUME NEW i \in {1, 2, 3}, NEW j \in {2, 3, 4}, j = i + 1
      PROVE  Do(z, i) = Do(s, j) /\ (Inside(z, i) <=> Inside(s, j)) /\ (Do(s, j) # "end" => z[i] = s[j])
  <2>1. i \in Nat \ {0} /\ i + 2 - 1 = j
    BY <1>2
  <2>2. /\ j \in 1 .. Len(s) <=> i \in 1 .. Len(z)
        /\ i \in 1 .. Len(z) => z[i] = s[j]
        /\ Do(z, i) = Do(s, j) /\ (Inside(z, i) <=> Inside(s, j))
    <3> DEFINE k == i + 2 - 1
    <3>0. i \in Nat \ {0} /\ 2 \in Nat \ {0}
      OBVIOUS
    <3>1. /\ i \in 1 .. Len(Rest(s, 2)) <=> k \in 1 .. Len(s)
          /\ i \in 1 .. Len(Rest(s, 2)) => Rest(s, 2)[i] = s[k]
          /\ Do(Rest(s, 2), i) = Do(s, k) /\ (Inside(Rest(s, 2), i) <=> Inside(s, k))
      BY <1>1, <3>0, RestSteps
    <3> HIDE DEF k
    <3>2. k = j
      BY <2>1 DEF k
    <3> QED BY <1>1, <3>1, <3>2
  <2> QED BY <2>2 DEF Do
<1> QED BY <1>2 DEF s, z

LEMMA SkippedShift ==
    ASSUME Calm, NEW t \in Threads, th[t].todo # <<>>, Skipped(t)
    PROVE  LET s == th[t].todo  z == th'[t].todo  k == 2 + Now(t).skip
           IN /\ Do(z, 1) = Do(s, k) /\ Do(z, 2) = Do(s, k + 1) /\ (Inside(z, 1) <=> Inside(s, k))
<1> DEFINE s == th[t].todo  z == th'[t].todo  k == 2 + Now(t).skip
<1>1. s \in Seq(AnyStep) /\ z = Rest(s, k) /\ k \in Nat \ {0} /\ 1 + k - 1 = k /\ 2 + k - 1 = k + 1
  BY HeadIs DEF Skipped
<1> HIDE DEF s, z, k
<1>2. /\ Do(Rest(s, k), 1) = Do(s, 1 + k - 1) /\ Do(Rest(s, k), 2) = Do(s, 2 + k - 1)
      /\ (Inside(Rest(s, k), 1) <=> Inside(s, 1 + k - 1))
  BY <1>1, RestSteps
<1> QED BY <1>1, <1>2 DEF s, z, k

\* A file has been opened.
LEMMA OpenWriting ==
    ASSUME Calm, FilesSorted, NEW t \in Threads, Open(t) PROVE Writing(t)'
<1> DEFINE s == th[t].todo  n == Now(t).name  do == Now(t).do  f == th'[t].file  z == th'[t].todo
<1>1. /\ Took(t) /\ f = Opened(n, do) /\ n \in Files /\ s # <<>>
      /\ do \in {"open", "truncate", "look"}
  BY OpenIs DEF Open, Doing
<1>2. WrittenAt(s, 1) /\ s[1] = Now(t)
  BY <1>1, HeadIs DEF LaidAt
<1>3. /\ do = "open" => n \in Settings /\ Do(s, 2) = "write"
      /\ do = "truncate" => n \in UserFiles /\ Do(s, 2) = "write"
      /\ do = "look" => n \in UserFiles /\ Do(s, 2) \in {"read", "wait"}
         /\ (Do(s, 2) = "wait" => Do(s, 3) = "read")
  <2>1. 1 + 1 = 2 /\ 1 + 2 = 3
    OBVIOUS
  <2> QED BY <1>1, <1>2, <2>1 DEF WrittenAt
<1>4. Do(z, 1) = Do(s, 2) /\ Do(z, 2) = Do(s, 3)
  BY <1>1, TookShift
<1>5. /\ f.name = n /\ f.state = "open" /\ f.dirty = (do = "truncate")
      /\ f.data = IF do = "truncate" \/ files[n] = Absent THEN <<>> ELSE files[n]
  BY <1>1, OpenedIs DEF Calm
<1>6. n \in Sized => f.data \in {<<>>} \cup Full(n)
  BY <1>1, <1>5 DEF FilesSorted
<1> HIDE DEF s, n, do, f, z
<1>7. LET h == Do(z, 1)
      IN /\ f.state # "closed" => f.name \in Files
         /\ h = "write" => f.name \in Settings \/ (f.data = <<>> /\ f.dirty)
         /\ h = "wait" => Do(z, 2) # "append"
         /\ h \notin {"append", "close"}
         /\ h = "read" \/ (h = "wait" /\ Do(z, 2) = "read") => ~f.dirty
         /\ f.state = "open"
         /\ f.name \in Sized => f.data \in {<<>>} \cup Full(f.name)
  BY <1>1, <1>3, <1>4, <1>5, <1>6
<1> QED BY <1>7 DEF Writing, Next1, f, z

\* What has been written ends as it should, or goes on.
LEMMA WriteWriting ==
    ASSUME Calm, NEW t \in Threads, Aimed(t), Writing(t), Transfer(t), Now(t).do \in {"write", "append"}
    PROVE  Writing(t)'
<1> DEFINE s == th[t].todo  n == Now(t).name  d == Now(t).data  z == th'[t].todo
           f == th[t].file  g == th'[t].file  goal == th[t].goal
<1>1. /\ Took(t) /\ s # <<>> /\ g.name = f.name /\ g.state = f.state
      /\ Now(t).do = "write" => g.data = Overlaid(d, f.data) /\ g.dirty = TRUE
      /\ Now(t).do = "append" => g.data = f.data \o d /\ g.dirty = f.dirty
      /\ meant' = meant
  BY TransferIs DEF Transfer, Doing
<1>2. /\ s[1] = Now(t) /\ WrittenAt(s, 1) /\ Do(s, 1) = Now(t).do /\ AimedAt(s, 1, goal, meant)
      /\ f.state # "closed" /\ f.name = n /\ f \in Handles
  <2>1. Inner(Now(t))
    BY DEF Inner
  <2> QED BY <1>1, <2>1, HeadIs DEF LaidAt, Aimed
<1>3. f.name \in Files /\ f.data \in Text /\ d \in Text
  BY <1>2 DEF Writing, Handles, WrittenAt
<1>4. /\ Do(z, 1) = Do(s, 2) /\ Do(z, 2) = Do(s, 3)
      /\ Do(s, 2) # "end" => z[1] = s[2]
      /\ Do(s, 3) # "end" => z[2] = s[3]
      /\ Do(s, 4) # "end" => z[3] = s[4]
  BY <1>1, TookShift
<1>5. Next1(t) = Now(t).do /\ Next1(t)' = Do(z, 1)
  BY <1>2 DEF Next1
<1>6. th'[t].goal = goal /\ (Sole(t)' => Sole(t) /\ f.state = "open")
  <2>1. Sole(t)' => Sole(t)
    BY <1>1 DEF Took, OnItsWay, Sole, Busy
  <2>2. Inside(s, 1)
    BY <1>1, <1>2, HeadIs DEF Inner
  <2> QED BY <1>1, <2>1, <2>2 DEF Took, Writing
<1>7. /\ Now(t).do = "write" /\ f.state = "open" => f.name \in Settings \/ f.data = <<>>
      /\ Now(t).do = "append" /\ f.state = "open" => f.dirty /\ s[2].data = f.data \o d
      /\ f.name \in Sized => f.data \in {<<>>} \cup Full(f.name)
  BY <1>2, <1>5 DEF Writing
<1>8. /\ Now(t).do = "write" =>
           \/ Do(s, 2) = "close"
           \/ Do(s, 2) = "wait" /\ Do(s, 3) = "append" /\ Do(s, 4) = "close"
              /\ s[4].data = d \o s[3].data /\ n \in UserFiles
      /\ Now(t).do = "append" => Do(s, 2) = "close" /\ n \in UserFiles
  <2>1. 1 + 1 = 2 /\ 1 + 2 = 3 /\ 1 + 3 = 4
    OBVIOUS
  <2> QED BY <1>2, <2>1 DEF WrittenAt, Joined
<1>9. /\ Now(t).do = "write" /\ n \in Sized => d \in Full(n)
      /\ Now(t).do = "write" /\ Do(s, 2) = "close" => d \in meant[n] /\ d \in goal[n]
      /\ Now(t).do = "append" => s[2].data \in meant[n] /\ s[2].data \in goal[n]
  <2>1. 1 + 1 = 2
    OBVIOUS
  <2> QED BY <1>2, <2>1 DEF AimedAt, Ends, Final
<1>10. /\ g.name \in Files
       /\ Sole(t)' => g.state = "open"
       /\ Do(z, 1) \in {"close", "wait"}
  BY <1>1, <1>3, <1>4, <1>6, <1>8
<1>11. g.name \in Sized => g.data \in {<<>>} \cup Full(g.name)
  <2>1. n \in UserFiles => n \notin Sized
    BY DEF UserFiles, Sized
  <2>2. CASE Now(t).do = "write"
    <3>1. n \in Sized => g.data = d
      <4>1. n \in Sized => n \notin UserFiles
        BY <2>1
      <4> HIDE DEF s, n, d, z, f, g, goal
      <4>2. ASSUME n \in Sized PROVE Overlaid(d, f.data) = d
        BY <1>2, <1>3, <1>7, <1>9, <2>2, <4>1, <4>2, OverlaidFits
      <4> QED BY <1>1, <2>2, <4>2
    <3> QED BY <1>1, <1>2, <1>9, <2>2, <3>1
  <2>3. CASE Now(t).do = "append"
    BY <1>1, <1>2, <1>8, <2>1, <2>3
  <2> QED BY <2>2, <2>3
<1>12. Do(z, 1) = "close" /\ g.state = "open" =>
           g.dirty /\ Fits(g.name, g.data, meant'[g.name]) /\ Fits(g.name, g.data, goal[g.name])
  <2> SUFFICES ASSUME Do(z, 1) = "close", f.state = "open"
               PROVE  g.dirty /\ Fits(n, g.data, meant[n]) /\ Fits(n, g.data, goal[n])
    BY <1>1, <1>2
  <2>1. CASE Now(t).do = "write"
    <3>1. n \in UserFiles => f.data = <<>>
      BY <1>2, <1>7, <2>1, Contents
    <3> HIDE DEF s, n, d, z, f, g, goal
    <3>2. d \in meant[n] /\ d \in goal[n]
      BY <1>4, <1>9, <2>1
    <3>3. Fits(n, Overlaid(d, f.data), meant[n]) /\ Fits(n, Overlaid(d, f.data), goal[n])
      BY <1>2, <1>3, <1>7, <1>9, <2>1, <3>1, <3>2, OverlaidFits
    <3> QED BY <1>1, <2>1, <3>3
  <2>2. CASE Now(t).do = "append"
    BY <1>1, <1>7, <1>9, <2>2 DEF Fits
  <2> QED BY <2>1, <2>2
<1>13. Do(z, 1) = "wait" => /\ Do(z, 2) = "append"
                            /\ g.state = "open" => g.dirty /\ z[3].data = g.data \o z[2].data
  <2> SUFFICES ASSUME Do(z, 1) = "wait"
               PROVE  /\ Do(z, 2) = "append"
                      /\ g.state = "open" => g.dirty /\ z[3].data = g.data \o z[2].data
    OBVIOUS
  <2>1. Now(t).do = "write" /\ n \in UserFiles /\ Do(s, 3) = "append" /\ Do(s, 4) = "close"
        /\ s[4].data = d \o s[3].data
    BY <1>4, <1>8
  <2>2. z[3] = s[4] /\ z[2] = s[3] /\ Do(z, 2) = "append"
    BY <1>4, <2>1
  <2>3. ASSUME f.state = "open" PROVE g.data = d
    <3>1. f.data = <<>>
      BY <1>2, <1>7, <2>1, <2>3, Contents
    <3> QED BY <1>1, <1>3, <2>1, <3>1, OverlaidEmpty
  <2> QED BY <1>1, <2>1, <2>2, <2>3
<1> HIDE DEF s, n, d, z, f, g, goal
<1> QED BY <1>5, <1>6, <1>10, <1>11, <1>12, <1>13 DEF Writing, g, z

\* The connection has been waited for, or a file read.
LEMMA PassWriting ==
    ASSUME Calm, NEW t \in Threads, Aimed(t), Writing(t), Transfer(t), Inner(Now(t)),
           Now(t).do \in {"wait", "read"}
    PROVE  Writing(t)'
<1> DEFINE s == th[t].todo  n == Now(t).name  z == th'[t].todo  f == th[t].file  goal == th[t].goal
<1>1. Took(t) /\ s # <<>> /\ th'[t].file = f /\ meant' = meant /\ th'[t].goal = goal
  BY TransferIs DEF Transfer, Doing, Took
<1>2. /\ s[1] = Now(t) /\ WrittenAt(s, 1) /\ Do(s, 1) = Now(t).do /\ AimedAt(s, 1, goal, meant)
      /\ f.state # "closed" /\ f.name = n /\ Inside(s, 1)
  BY <1>1, HeadIs DEF LaidAt, Aimed
<1>3. /\ Do(z, 1) = Do(s, 2) /\ Do(z, 2) = Do(s, 3)
      /\ Do(s, 2) # "end" => z[1] = s[2]
      /\ Do(s, 3) # "end" => z[2] = s[3]
  BY <1>1, TookShift
<1>4. Next1(t) = Now(t).do /\ Next1(t)' = Do(z, 1)
  BY <1>2 DEF Next1
<1>5. Sole(t)' => Sole(t)
  BY <1>1 DEF Took, OnItsWay, Sole, Busy
<1>6. /\ Now(t).do = "wait" => Do(s, 2) \in {"read", "append"} /\ Do(s, 3) = "close"
      /\ Now(t).do = "read" => Do(s, 2) = "close" /\ goal[n] = {}
  <2>1. 1 + 1 = 2 /\ 1 + 2 = 3
    OBVIOUS
  <2> QED BY <1>2, <2>1 DEF WrittenAt, AimedAt, Inner
<1> HIDE DEF z, f, goal
<1>7. /\ f.name \in Files
      /\ Now(t).do = "wait" /\ Do(s, 2) = "append" /\ f.state = "open" => f.dirty
         /\ s[3].data = f.data \o s[2].data
      /\ Now(t).do = "read" \/ Do(s, 2) = "read" => ~f.dirty
      /\ Sole(t) => f.state = "open"
      /\ f.name \in Sized => f.data \in {<<>>} \cup Full(f.name)
  BY <1>2, <1>4, <1>6 DEF Writing, f
<1> HIDE DEF s, n
<1> QED BY <1>1, <1>2, <1>3, <1>4, <1>5, <1>6, <1>7 DEF Writing, z, goal

\* A failure while a file is open.
LEMMA FailWriting ==
    ASSUME Calm, NEW t \in Threads, Writing(t), Fail(t), Inner(Now(t)), Now(t).do # "close"
    PROVE  Writing(t)'
<1> DEFINE s == th[t].todo  n == Now(t).name  z == th'[t].todo  f == th[t].file  g == th'[t].file  do == Now(t).do
<1>1. /\ Skipped(t) /\ s # <<>> /\ g.name = f.name /\ g.data = f.data /\ g.dirty = f.dirty
      /\ g.state = "open" => f.state = "open" /\ do \notin {"write", "append"}
      /\ meant' = IF do = "wait" /\ f.dirty THEN Widened(Only(f.name, {f.data})) ELSE meant
  BY FailIs DEF Fail, Doing
<1>2. /\ s[1] = Now(t) /\ WrittenAt(s, 1) /\ Do(s, 1) = do /\ f.state # "closed" /\ f.name = n
         /\ f \in Handles
      /\ do \in {"write", "append", "read", "wait"}
  BY <1>1, HeadIs DEF LaidAt, Inner
<1>3. ~Sole(t)' /\ Next1(t)' = Do(z, 1) /\ Next1(t) = do
  BY <1>1, <1>2 DEF Skipped, Sole, Next1
<1>4. /\ do \in {"write", "append", "read"} => Do(z, 1) = Do(s, 2) /\ Do(z, 2) = Do(s, 3)
      /\ do = "wait" => Do(z, 1) = Do(s, 3)
  <2>1. Do(z, 1) = Do(s, 2 + Now(t).skip) /\ Do(z, 2) = Do(s, 2 + Now(t).skip + 1)
    BY <1>1, SkippedShift
  <2>2. /\ do \in {"write", "append", "read"} => Now(t).skip = 0
        /\ do = "wait" => Now(t).skip = 1
    BY <1>2 DEF WrittenAt, Inner
  <2>3. 2 + 0 = 2 /\ 2 + 1 = 3 /\ 2 + 0 + 1 = 3
    OBVIOUS
  <2> QED BY <2>1, <2>2, <2>3
<1>5. /\ do = "write" => Do(s, 2) \in {"close", "wait"} /\ (Do(s, 2) = "wait" => Do(s, 3) = "append")
      /\ do \in {"append", "read"} => Do(s, 2) = "close"
      /\ do = "wait" => Do(s, 3) = "close"
  <2>1. 1 + 1 = 2 /\ 1 + 2 = 3
    OBVIOUS
  <2> QED BY <1>2, <2>1 DEF WrittenAt, Inner
<1>6. /\ f.name \in Files
      /\ do = "read" => ~f.dirty
      /\ f.name \in Sized => f.data \in {<<>>} \cup Full(f.name)
  BY <1>2, <1>3 DEF Writing
<1>7. do = "wait" /\ f.dirty => Fits(f.name, f.data, meant'[f.name])
  <2> SUFFICES ASSUME do = "wait", f.dirty PROVE f.data \in meant'[f.name]
    BY DEF Fits
  <2>1. f.data \in Content
    BY <1>2 DEF Handles, Content
  <2>2. Only(f.name, {f.data})[f.name] = {f.data}
    BY <1>6, <2>1, OnlyTyped
  <2> HIDE DEF f
  <2> QED BY <1>1, <1>6, <2>2 DEF Widened
<1> HIDE DEF s, n, z, f, g, do
<1>8. /\ Do(z, 1) \notin {"write", "append", "read"}
      /\ Do(z, 1) = "wait" => Do(z, 2) = "append" /\ do = "write"
      /\ Do(z, 1) = "close" /\ g.state = "open" /\ g.dirty => Fits(g.name, g.data, meant'[g.name])
  BY <1>1, <1>2, <1>4, <1>5, <1>6, <1>7
<1> QED BY <1>1, <1>3, <1>6, <1>8 DEF Writing, z, g

LEMMA StepWriting ==
    ASSUME Calm, FilesSorted, NEW t \in Threads, Steps(t), Aimed(t), Writing(t) PROVE Writing(t)'
<1> DEFINE s == th[t].todo  z == th'[t].todo
<1>1. HandledIn(t)'
  BY StepHandled
<1>2. CASE ~Inside(z, 1)
  BY <1>1, <1>2, OutsideWriting DEF HandledIn
<1>3. CASE Inside(z, 1)
  <2>1. ~Return(t)
    BY <1>3, ReturnIs DEF Inside
  <2>2. s # <<>>
    BY <2>1, StepRole
  <2>3. HandledAt(s, 1) /\ s[1] = Now(t)
    BY <2>2, HeadIs DEF LaidAt
  <2>4. /\ Took(t) => Inside(s, 2)
        /\ Skipped(t) => Inside(s, 2 + Now(t).skip)
    BY <1>3, <2>2, TookShift, SkippedShift
  <2>5. \/ Took(t) /\ (Now(t).do \in Opening \/ (Inner(Now(t)) /\ Now(t).do # "close"))
        \/ Skipped(t) /\ Inner(Now(t)) /\ Now(t).do # "close"
    <3>1. Took(t) \/ Skipped(t)
      <4>1. ASSUME Defaulted(z), ~Took(t), ~Skipped(t) PROVE FALSE
        <5>1. CASE FirstMount(t)
          <6>1. z = Reformat \o Tail(BootPlan) \/ z = FormatBlank \o Tail(BootPlan)
            BY <4>1, <5>1, FirstMountIs
          <6>2. z[1].do \in {"unmount", "mkfs"}
            BY <6>1, ReformatIs, FormatBlankIs
          <6> QED BY <1>3, <6>2 DEF Inside, Inner
        <5>2. CASE DefaultFile(t)
          <6>1. /\ Now(t).name \in UserFiles /\ Now(t).data \in Text
                   /\ z = WriteFile(Now(t).name, Now(t).data) \o Rest(s, 2)
            BY <4>1, <5>2, DefaultFileIs DEF Extends
          <6>2. Rest(s, 2) \in Seq(AnyStep)
            BY <2>2, HeadIs, RestIs
          <6>3. z[1].do = "check"
            BY <6>1, <6>2, WriteThen
          <6> QED BY <1>3, <6>3 DEF Inside, Inner
        <5>3. CASE LoadName(t)
          <6>1. z = Saved("name", DefaultName) /\ DefaultName \in Text
            BY <4>1, <5>3, LoadNameIs
          <6>2. z[1].do = "open"
            BY <6>1, SavedIs, Contents
          <6> QED BY <1>3, <6>2 DEF Inside, Inner
        <5> QED BY <2>1, <4>1, <5>1, <5>2, <5>3, TookOrManages
      <4> QED BY <2>1, <4>1, TookOrManages
    <3>2. 1 + 1 = 2 /\ 1 + 1 + s[1].skip = 2 + s[1].skip
      BY <2>2, HeadIs
    <3>3. HandledAt(s, 1) => /\ Inside(s, 2) => Now(t).do \in Opening \/ (Inner(Now(t)) /\ Now(t).do # "close")
                             /\ Inside(s, 2 + Now(t).skip) => Inner(Now(t)) /\ Now(t).do # "close"
      BY <2>3, <3>2 DEF HandledAt
    <3> QED BY <2>3, <2>4, <3>1, <3>3
  <2>6. CASE Open(t)
    BY <2>6, OpenWriting
  <2>7. CASE Transfer(t)
    <3>1. Inner(Now(t)) /\ Now(t).do \in {"write", "append", "wait", "read"}
      BY <2>5, <2>7 DEF Transfer, Doing, Opening, Inner
    <3> QED BY <2>7, <3>1, WriteWriting, PassWriting
  <2>8. CASE Fail(t)
    <3>1. Inner(Now(t)) /\ Now(t).do # "close"
      <4>1. Skipped(t)
        BY <2>8, FailIs
      <4>2. ~Inside(s, 2 + Now(t).skip) \/ (Inner(Now(t)) /\ Now(t).do # "close")
        <5>1. 1 + 1 + s[1].skip = 2 + s[1].skip
          BY <2>2, HeadIs
        <5> QED BY <2>3, <5>1 DEF HandledAt
      <4> QED BY <2>4, <4>1, <4>2
    <3> QED BY <2>8, <3>1, FailWriting
  <2>9. Open(t) \/ Transfer(t) \/ Fail(t)
    <3>1. Now(t).do \in {"open", "truncate", "look", "write", "append", "read", "wait"}
      BY <2>5 DEF Inner, Opening
    <3> QED BY <2>1, <3>1 DEF Steps, CheckMounted, Close, Unlink, Rename, Unmount, Mkfs, MkfsFails, Mount,
            FirstMount, NoteMounted, DefaultFile, LoadName, Doing
  <2> QED BY <2>6, <2>7, <2>8, <2>9
<1> QED BY <1>2, <1>3

-----------------------------------------------------------------------------
(* What is in the files. *)

Hollow(n) == files[n] = <<>> /\ n \in hollow
Holds(n) == Fits(n, files[n], meant[n]) \/ Hollow(n)

LEMMA FilesHold == FilesAsMeant <=> \A n \in Files : Holds(n)
BY DEF FilesAsMeant, Holds, Hollow, Fits

LEMMA HoldNext == (\A n \in Files : Holds(n)') => FilesAsMeant'
BY DEF FilesAsMeant, Holds, Hollow, Fits

\* A file that stays as it is, and is not meant to be anything else.
LEMMA HoldsStill ==
    ASSUME NEW m \in Files, Holds(m), files'[m] = files[m], meant[m] \subseteq meant'[m],
           m \in hollow => m \in hollow'
    PROVE  Holds(m)'
<1>1. CASE Fits(m, files[m], meant[m])
  BY <1>1, FitsMore DEF Holds
<1>2. CASE Hollow(m)
  BY <1>2 DEF Hollow, Holds
<1> QED BY <1>1, <1>2 DEF Holds

LEMMA HoldsIn ==
    ASSUME NEW n \in UserFiles, Holds(n) PROVE files[n] \in MayHold(n)
BY Contents DEF Holds, Hollow, Fits, MayHold

\* What a step does to the files, and what is then meant.
LEMMA RemoveFiles ==
    ASSUME Calm, NEW n \in Files, NEW thr, RemoveFile(n, thr)
    PROVE  \A m \in Files : /\ files'[m] = IF m = n THEN Absent ELSE files[m]
                            /\ m # n /\ m \in hollow => m \in hollow'
BY DEF RemoveFile, Calm, TypeOK

LEMMA RenameFiles ==
    ASSUME Calm, NEW n \in Files, NEW k \in Files, n # k, NEW thr, RenameFile(n, k, thr)
    PROVE  /\ files[n] # Absent
           /\ \A m \in Files : /\ files'[m] = IF m = n THEN Absent ELSE IF m = k THEN files[n] ELSE files[m]
                               /\ m \notin {n, k} /\ m \in hollow => m \in hollow'
<1>1. files' = [files EXCEPT ![k] = files[n], ![n] = Absent] /\ files[n] # Absent
      /\ hollow' = hollow \ {n, k}
      /\ files \in [Files -> Content]
  BY DEF RenameFile, Calm, TypeOK
<1> QED BY <1>1

LEMMA CreatedFiles ==
    ASSUME Calm, NEW n \in Files, Created(n)
    PROVE  \A m \in Files :
              /\ files'[m] = files[m] \/ (m = n /\ files'[m] = <<>> /\ m \in hollow')
              /\ m \in hollow => m \in hollow'
<1>1. files \in [Files -> Content]
  BY DEF Calm, TypeOK
<1> QED BY <1>1 DEF Created

LEMMA CreatedHolds ==
    ASSUME Calm, FilesAsMeant, NEW n \in Files, Created(n), UNCHANGED meant PROVE FilesAsMeant'
<1> SUFFICES ASSUME NEW m \in Files PROVE Holds(m)'
  BY HoldNext
<1>1. Holds(m) /\ (files'[m] = files[m] \/ (files'[m] = <<>> /\ m \in hollow'))
      /\ (m \in hollow => m \in hollow')
  BY FilesHold, CreatedFiles
<1>2. CASE files'[m] = files[m]
  BY <1>1, <1>2, HoldsStill
<1> QED BY <1>1, <1>2 DEF Holds, Hollow

LEMMA MovedFiles ==
    ASSUME Calm, FilesAsMeant, NEW n \in UserFiles, NEW k \in UserFiles, n # k, NEW thr,
           RenameFile(n, k, thr),
           \A m \in Files : meant[m] \subseteq meant'[m],
           Absent \in meant'[n], MayHold(n) \ {Absent} \subseteq meant'[k]
    PROVE  FilesAsMeant'
<1> SUFFICES ASSUME NEW m \in Files PROVE Holds(m)'
  BY HoldNext
<1>1. /\ files[n] # Absent
      /\ files'[m] = IF m = n THEN Absent ELSE IF m = k THEN files[n] ELSE files[m]
      /\ m \notin {n, k} /\ m \in hollow => m \in hollow'
  BY RenameFiles, Contents
<1>2. Holds(m) /\ Holds(n)
  BY FilesHold, Contents
<1>3. files[n] \in MayHold(n)
  BY <1>2, HoldsIn
<1>4. CASE m = n
  BY <1>1, <1>4 DEF Holds, Fits
<1>5. CASE m = k
  BY <1>1, <1>3, <1>5 DEF Holds, Fits
<1>6. CASE m \notin {n, k}
  <2>1. files'[m] = files[m] /\ meant[m] \subseteq meant'[m]
    BY <1>1, <1>6
  <2> QED BY <1>1, <1>2, <1>6, <2>1, HoldsStill
<1> QED BY <1>4, <1>5, <1>6

LEMMA SameFiles ==
    ASSUME FilesAsMeant, UNCHANGED hollow,
           \A m \in Files : files'[m] = files[m] /\ meant[m] \subseteq meant'[m]
    PROVE  FilesAsMeant'
<1> SUFFICES ASSUME NEW m \in Files PROVE Holds(m)'
  BY HoldNext
<1>1. Holds(m)
  BY FilesHold
<1> QED BY <1>1, HoldsStill

\* What is removed or renamed, and what is for.
LEMMA MovesWhat ==
    ASSUME Calm, NEW t \in Threads, Aimed(t), th[t].todo # <<>>
    PROVE  /\ Now(t).do = "unlink" => /\ Now(t).name \in Files
                                      /\ Absent \in meant[Now(t).name] /\ Absent \in th[t].goal[Now(t).name]
           /\ Now(t).do = "rename" => /\ Now(t).name \in UserFiles /\ Now(t).data \in UserFiles /\ Now(t).name # Now(t).data
                                      /\ Absent \in meant[Now(t).name] /\ Absent \in th[t].goal[Now(t).name]
<1>1. /\ th[t].todo[1] = Now(t) /\ WrittenAt(th[t].todo, 1) /\ AimedAt(th[t].todo, 1, th[t].goal, meant)
  BY HeadIs DEF LaidAt, Aimed
<1> QED BY <1>1 DEF WrittenAt, AimedAt

LEMMA ClosedFiles ==
    ASSUME Calm, NEW t \in Threads, Close(t)
    PROVE  LET f == th[t].file
           IN /\ Now(t).do = "close" /\ f.state # "closed" /\ f.name = Now(t).name
              /\ \A n \in Files :
                    /\ files'[n] = IF f.state = "open" /\ f.dirty /\ f.name = n THEN f.data ELSE files[n]
                    /\ n \in hollow => n \in hollow' \/ (f.state = "open" /\ f.dirty /\ f.name = n)
<1>1. th[t].todo # <<>> /\ Now(t).do = "close" /\ files' = Committed(th[t].file)
      /\ hollow' = Filled(th[t].file)
  BY DEF Close, Doing
<1>2. th[t].file \in Handles /\ th[t].file.state # "closed" /\ th[t].file.name = Now(t).name
  BY <1>1, HeadIs DEF Inner
<1>3. FilesOK
  BY DEF Calm, TypeOK, FilesOK
<1> QED BY <1>1, <1>2, <1>3, CommittedTyped

\* A step changes the files that it touches, and no others.
LEMMA FilesTouched ==
    ASSUME Calm, NEW t \in Threads, Steps(t), ~Return(t), Aimed(t), NEW n \in Files, ~Touches(Now(t), n)
    PROVE  files'[n] = files[n]
<1>1. CASE Open(t)
  <2>1. Created(Now(t).name) /\ Now(t).name \in Files /\ n # Now(t).name
    BY <1>1, OpenIs DEF Open, Touches
  <2> QED BY <2>1, CreatedFiles
<1>2. CASE Close(t)
  BY <1>2, ClosedFiles DEF Touches
<1>3. CASE Unlink(t)
  <2>1. Now(t).name \in Files /\ Now(t).name # n /\ RemoveFile(Now(t).name, Done(t, NoFile))
    BY <1>3, MovesWhat DEF Unlink, Doing, Touches
  <2> QED BY <2>1, RemoveFiles
<1>4. CASE Rename(t)
  <2>1. /\ Now(t).name \in UserFiles /\ Now(t).data \in UserFiles /\ Now(t).name # Now(t).data
        /\ Now(t).name # n /\ Now(t).data # n
        /\ RenameFile(Now(t).name, Now(t).data, Done(t, NoFile))
    BY <1>4, MovesWhat DEF Rename, Doing, Touches
  <2> QED BY <2>1, RenameFiles, Contents
<1>5. CASE Mkfs(t) \/ MkfsFails(t)
  BY <1>5 DEF Mkfs, MkfsFails, Doing, Touches
<1>6. CASE \/ CheckMounted(t) \/ Transfer(t) \/ Fail(t) \/ Unmount(t) \/ Mount(t) \/ FirstMount(t) \/ NoteMounted(t)
           \/ DefaultFile(t) \/ LoadName(t)
  BY <1>6 DEF CheckMounted, Transfer, Fail, Unmount, Mount, FirstMount, NoteMounted, DefaultFile, LoadName
<1> QED BY <1>1, <1>2, <1>3, <1>4, <1>5, <1>6 DEF Steps

LEMMA StepSorted ==
    ASSUME Calm, FilesSorted, NEW t \in Threads, Steps(t), Aimed(t), Writing(t) PROVE FilesSorted'
<1> SUFFICES ASSUME NEW n \in Sized PROVE files'[n] \in {Absent, <<>>} \cup Full(n)
  BY DEF FilesSorted, Full
<1>1. n \in Files /\ n \notin UserFiles /\ files[n] \in {Absent, <<>>} \cup Full(n)
  BY DEF FilesSorted, Sized, Files, Settings, UserFiles
<1>2. CASE Open(t)
  <2>1. Created(Now(t).name) /\ Now(t).name \in Files
    BY <1>2, OpenIs DEF Open
  <2> QED BY <1>1, <2>1, CreatedFiles
<1>3. CASE Close(t)
  <2> DEFINE f == th[t].file
  <2>1. files'[n] = IF f.state = "open" /\ f.dirty /\ f.name = n THEN f.data ELSE files[n]
    BY <1>1, <1>3, ClosedFiles
  <2>2. f.name \in Sized => f.data \in {<<>>} \cup Full(f.name)
    BY DEF Writing
  <2> QED BY <1>1, <2>1, <2>2
<1>4. CASE Unlink(t)
  <2>1. Now(t).name \in Files /\ RemoveFile(Now(t).name, Done(t, NoFile))
    BY <1>4, MovesWhat DEF Unlink, Doing
  <2> QED BY <1>1, <2>1, RemoveFiles
<1>5. CASE Rename(t)
  <2>1. /\ Now(t).name \in UserFiles /\ Now(t).data \in UserFiles /\ Now(t).name # Now(t).data
        /\ RenameFile(Now(t).name, Now(t).data, Done(t, NoFile))
    BY <1>5, MovesWhat DEF Rename, Doing
  <2> QED BY <1>1, <2>1, RenameFiles, Contents
<1>6. CASE Mkfs(t) \/ MkfsFails(t)
  BY <1>1, <1>6 DEF Mkfs, MkfsFails, Emptied
<1>7. CASE \/ CheckMounted(t) \/ Transfer(t) \/ Fail(t) \/ Unmount(t) \/ Mount(t) \/ FirstMount(t) \/ NoteMounted(t)
           \/ DefaultFile(t) \/ LoadName(t) \/ Return(t)
  <2>1. files' = files
    BY <1>7 DEF CheckMounted, Transfer, Fail, Unmount, Mount, FirstMount, NoteMounted, DefaultFile,
       LoadName, Return
  <2> QED BY <1>1, <2>1
<1> QED BY <1>2, <1>3, <1>4, <1>5, <1>6, <1>7 DEF Steps

LEMMA StepMeant ==
    ASSUME Calm, FilesAsMeant, NEW t \in Threads, Steps(t), Aimed(t), Writing(t), Reached(t)
    PROVE  FilesAsMeant'
<1>1. ASSUME ~Return(t) PROVE \A n \in Files : meant[n] \subseteq meant'[n]
  BY <1>1, MeantKept
<1>2. CASE Open(t)
  BY <1>2, OpenIs, CreatedHolds DEF Open
<1>3. CASE Close(t)
  <2> SUFFICES ASSUME NEW n \in Files PROVE Holds(n)'
    BY HoldNext
  <2> DEFINE f == th[t].file
  <2>1. /\ Now(t).do = "close"
        /\ files'[n] = IF f.state = "open" /\ f.dirty /\ f.name = n THEN f.data ELSE files[n]
        /\ n \in hollow => n \in hollow' \/ (f.state = "open" /\ f.dirty /\ f.name = n)
    BY <1>3, ClosedFiles
  <2>2. meant' = meant /\ Next1(t) = "close" /\ Holds(n)
    BY <1>3, <2>1, HeadIs, FilesHold DEF Close, Doing, Next1
  <2>3. f.state = "open" /\ f.dirty => Fits(f.name, f.data, meant[f.name])
    BY <2>2 DEF Writing
  <2> HIDE DEF f
  <2>4. CASE f.state = "open" /\ f.dirty /\ f.name = n
    BY <2>1, <2>2, <2>3, <2>4 DEF Holds
  <2>5. CASE ~(f.state = "open" /\ f.dirty /\ f.name = n)
    BY <2>1, <2>2, <2>5, HoldsStill
  <2> QED BY <2>4, <2>5
<1>4. CASE Unlink(t)
  <2> SUFFICES ASSUME NEW n \in Files PROVE Holds(n)'
    BY HoldNext
  <2>1. Now(t).name \in Files /\ RemoveFile(Now(t).name, Done(t, NoFile))
        /\ Absent \in meant[Now(t).name] /\ meant' = meant
    BY <1>4, MovesWhat DEF Unlink, Doing
  <2>2. /\ files'[n] = (IF n = Now(t).name THEN Absent ELSE files[n]) /\ Holds(n)
        /\ n # Now(t).name /\ n \in hollow => n \in hollow'
    BY <2>1, RemoveFiles, FilesHold
  <2>3. CASE n = Now(t).name
    BY <2>1, <2>2, <2>3 DEF Holds, Fits
  <2>4. CASE n # Now(t).name
    BY <2>1, <2>2, <2>4, HoldsStill
  <2> QED BY <2>3, <2>4
<1>5. CASE Rename(t)
  <2> DEFINE n == Now(t).name  k == Now(t).data
  <2>1. /\ n \in UserFiles /\ k \in UserFiles /\ n # k /\ RenameFile(n, k, Done(t, NoFile))
           /\ Absent \in meant[n]
        /\ meant' = Widened(Only(k, MayHold(n) \ {Absent}))
    BY <1>5, MovesWhat DEF Rename, Doing
  <2>2. MayHold(n) \ {Absent} \in SUBSET Content
    BY <2>1, MayHoldTyped, Contents DEF Calm, TypeOK
  <2> HIDE DEF n, k
  <2>3. MayHold(n) \ {Absent} \subseteq meant'[k]
    <3>1. k \in Files /\ Only(k, MayHold(n) \ {Absent})[k] = MayHold(n) \ {Absent}
      BY <2>1, <2>2, OnlyTyped, Contents
    <3> QED BY <2>1, <3>1 DEF Widened
  <2>4. ~Return(t)
    BY <1>5 DEF Rename, Doing, Return
  <2>5. \A m \in Files : meant[m] \subseteq meant'[m]
    BY <1>1, <2>4
  <2>6. Absent \in meant'[n]
    BY <2>1, <2>5, Contents
  <2> QED BY <2>1, <2>3, <2>5, <2>6, MovedFiles
<1>6. CASE Mkfs(t) \/ MkfsFails(t)
  <2>1. CASE Emptied
    BY <2>1 DEF Emptied, FilesAsMeant
  <2>2. CASE UNCHANGED <<files, meant, hollow>>
    BY <2>2 DEF FilesAsMeant
  <2> QED BY <1>6, <2>1, <2>2 DEF Mkfs, MkfsFails
<1>7. CASE /\ ~Return(t)
           /\ \/ CheckMounted(t) \/ Transfer(t) \/ Fail(t) \/ Unmount(t) \/ Mount(t) \/ FirstMount(t)
              \/ NoteMounted(t)
              \/ DefaultFile(t) \/ LoadName(t)
  <2>1. files' = files /\ hollow' = hollow
    BY <1>7 DEF CheckMounted, Transfer, Fail, Unmount, Mount, FirstMount, NoteMounted, DefaultFile, LoadName
  <2> QED BY <1>1, <1>7, <2>1, SameFiles
<1>8. CASE Return(t)
  <2>1. files' = files /\ hollow' = hollow /\ th[t].todo = <<>> /\ Busy(t)
        /\ th[t].goal \in [Files -> SUBSET Content]
    BY <1>8, CallTyped DEF Return, Calm, TypeOK
  <2>2. CASE Sole(t)
    <3> SUFFICES ASSUME NEW n \in Files PROVE Holds(n)'
      BY HoldNext
    <3>1. meant' = Instead(th[t].goal, meant) /\ meant \in [Files -> SUBSET Content]
      BY <1>8, <2>2 DEF Return, Sole, Calm, TypeOK
    <3>2. meant'[n] = IF th[t].goal[n] # {} THEN th[t].goal[n] ELSE meant[n]
      BY <2>1, <3>1, InsteadTyped
    <3>3. ~Touched(th[t].todo, n)
      BY <2>1 DEF Touched
    <3>4. th[t].goal[n] # {} => Fits(n, files[n], th[t].goal[n])
      BY <2>2, <3>3 DEF Reached
    <3>5. Holds(n)
      BY FilesHold
    <3>6. CASE th[t].goal[n] # {}
      BY <2>1, <3>2, <3>4, <3>6 DEF Holds
    <3>7. CASE th[t].goal[n] = {}
      BY <2>1, <3>2, <3>5, <3>7, HoldsStill
    <3> QED BY <3>6, <3>7
  <2>3. CASE ~Sole(t)
    <3>1. meant' = meant
      BY <1>8, <2>1, <2>3 DEF Return, Sole
    <3> QED BY <2>1, <3>1 DEF FilesAsMeant
  <2> QED BY <2>2, <2>3
<1> QED BY <1>2, <1>3, <1>4, <1>5, <1>6, <1>7, <1>8 DEF Steps

-----------------------------------------------------------------------------
(* What a boot and a format are for. *)

\* The goal of a call after a step.
LEMMA GoalIs ==
    ASSUME Calm, NEW t \in Threads, Steps(t), ~Return(t), NEW n \in Files
    PROVE  \/ th'[t].goal[n] = th[t].goal[n]
           \/ DefaultFile(t) /\ ~Took(t) /\ n = Now(t).name /\ th'[t].goal[n] = {Default[n]}
              /\ n \in UserFiles
           \/ LoadName(t) /\ n = "name" /\ th'[t].todo = Saved("name", DefaultName)
<1>0. th[t].goal \in [Files -> SUBSET Content]
  BY CallTyped DEF Calm, TypeOK
<1>1. CASE Took(t) \/ Skipped(t)
  BY <1>1 DEF Took, Skipped
<1>2. CASE FirstMount(t)
  BY <1>2, FirstMountIs
<1>3. CASE DefaultFile(t) /\ ~Took(t)
  <2> DEFINE m == Now(t).name  c == Now(t).data  g == Only(m, {c})
  <2>1. /\ m \in UserFiles /\ c = Default[m] /\ {c} \in SUBSET Content /\ th'[t].goal = Instead(g, th[t].goal)
    BY <1>3, DefaultFileIs DEF Extends
  <2>2. g \in [Files -> SUBSET Content] /\ g[n] = IF n = m THEN {c} ELSE {}
    BY <2>1, OnlyTyped
  <2> HIDE DEF m, c, g
  <2>3. th'[t].goal[n] = IF g[n] # {} THEN g[n] ELSE th[t].goal[n]
    <3>1. \A h \in [Files -> SUBSET Content] : Instead(g, h)[n] = IF g[n] # {} THEN g[n] ELSE h[n]
      BY <2>2, InsteadTyped
    <3> QED BY <1>0, <2>1, <3>1
  <2>4. th'[t].goal[n] = IF n = m THEN {c} ELSE th[t].goal[n]
    BY <2>2, <2>3
  <2> QED BY <1>3, <2>1, <2>4 DEF m
<1>4. CASE LoadName(t) /\ ~Took(t)
  <2> DEFINE g == Only("name", {DefaultName})
  <2>1. /\ {DefaultName} \in SUBSET Content /\ th'[t].goal = Instead(g, th[t].goal)
           /\ th'[t].todo = Saved("name", DefaultName)
    BY <1>4, LoadNameIs
  <2>2. g \in [Files -> SUBSET Content] /\ g[n] = IF n = "name" THEN {DefaultName} ELSE {}
    BY <2>1, OnlyTyped
  <2> HIDE DEF g
  <2>3. th'[t].goal[n] = IF g[n] # {} THEN g[n] ELSE th[t].goal[n]
    <3>1. \A h \in [Files -> SUBSET Content] : Instead(g, h)[n] = IF g[n] # {} THEN g[n] ELSE h[n]
      BY <2>2, InsteadTyped
    <3> QED BY <1>0, <2>1, <3>1
  <2> QED BY <1>4, <2>1, <2>2, <2>3
<1> QED BY <1>1, <1>2, <1>3, <1>4, TookOrManages

LEMMA FormatGoal ==
    ASSUME Calm, NEW t \in Threads, Steps(t), Goals(t), th'[t].op = "format", NEW n \in Files
    PROVE  th'[t].goal[n] = IF n \in UserFiles THEN {Default[n]} ELSE {Absent}
<1>1. ~Return(t) /\ th[t].op = "format"
  BY ReturnIs, StepRole DEF OnItsWay
<1>2. th[t].goal[n] = IF n \in UserFiles THEN {Default[n]} ELSE {Absent}
  BY <1>1 DEF Goals
<1>3. ~LoadName(t)
  BY <1>1, LoadNameIs
<1> QED BY <1>1, <1>2, <1>3, GoalIs

LEMMA MakingGoal ==
    ASSUME Calm, NEW t \in Threads, Steps(t), Goals(t), th'[t].op = "boot", Next1(t)' \in Making,
           NEW n \in Files
    PROVE  th'[t].goal[n] = {}
<1>1. ~Return(t) /\ th[t].op = "boot" /\ th[t].todo # <<>>
  BY ReturnIs, StepRole DEF OnItsWay
<1>2. /\ Took(t) => Next1(t)' = Do(th[t].todo, 2)
      /\ Skipped(t) => Next1(t)' = Do(th[t].todo, 2 + Now(t).skip)
      /\ Next1(t) = Now(t).do /\ ManagedAt(th[t].todo, 1) /\ Now(t) = th[t].todo[1]
      /\ 1 + 1 = 2 /\ 1 + 1 + Now(t).skip = 2 + Now(t).skip
  BY <1>1, NextIs
<1>3. CASE Took(t)
  <2>1. Now(t).do \in Making
    <3>1. Do(th[t].todo, 2) \in Making /\ Now(t).do # "end"
      BY <1>1, <1>2, <1>3, HeadIs DEF Operations
    <3> QED BY <1>2, <3>1 DEF ManagedAt, Managing, Ended, Making
  <2>2. th[t].goal[n] = {}
    BY <1>1, <1>2, <2>1 DEF Goals
  <2> QED BY <1>3, <2>2 DEF Took
<1>4. CASE Skipped(t) /\ Now(t).do \notin Ended
  <2>1. Now(t).do \in Making
    BY <1>2, <1>4 DEF ManagedAt, Managing
  <2>2. th[t].goal[n] = {}
    BY <1>1, <1>2, <2>1 DEF Goals
  <2> QED BY <1>4, <2>2 DEF Skipped
<1>5. CASE FirstMount(t)
  <2>1. Next1(t) \in Making
    BY <1>2, <1>5 DEF FirstMount, Doing, Making
  <2>2. th[t].goal[n] = {}
    BY <1>1, <2>1 DEF Goals
  <2> QED BY <1>5, <2>2, FirstMountIs
<1>6. CASE DefaultFile(t) /\ ~Took(t)
  <2>1. /\ Now(t).name \in UserFiles /\ Now(t).data \in Text
        /\ th'[t].todo = WriteFile(Now(t).name, Now(t).data) \o Rest(th[t].todo, 2)
    BY <1>6, DefaultFileIs DEF Extends
  <2>2. Rest(th[t].todo, 2) \in Seq(AnyStep)
    BY <1>1, HeadIs, RestIs
  <2>3. Next1(t)' \in {"check", "end"}
    BY <2>1, <2>2, WriteThen DEF Next1, Do
  <2> QED BY <2>3 DEF Making
<1>7. CASE LoadName(t) /\ ~Took(t)
  <2>1. th'[t].todo = Saved("name", DefaultName) /\ DefaultName \in Text
    BY <1>7, LoadNameIs
  <2>2. Next1(t)' \in {"open", "end"}
    BY <2>1, SavedIs, Contents DEF Next1, Do
  <2> QED BY <2>2 DEF Making
<1>8. CASE Skipped(t) /\ Now(t).do \in Ended
  <2>1. CheckMounted(t) \/ Fail(t) \/ MkfsFails(t) \/ Took(t) \/ FirstMount(t)
        \/ (DefaultFile(t) /\ ~Took(t)) \/ (LoadName(t) /\ ~Took(t))
    BY <1>1, CheckIs, OpenIs, TransferIs, CloseIs, RemoveIs, UnmountIs, PlainIs DEF Steps
  <2>2. ~(CheckMounted(t) \/ Fail(t) \/ MkfsFails(t))
    BY <1>8 DEF CheckMounted, Fail, MkfsFails, Doing, Ended
  <2> QED BY <1>3, <1>5, <1>6, <1>7, <2>1, <2>2
<1> QED BY <1>1, <1>3, <1>4, <1>5, <1>6, <1>7, <1>8, TookOrManages

\* The default files that are to come have not been aimed at.
LEMMA DefaultsLeft ==
    ASSUME Calm, NEW t \in Threads, Steps(t), ~Return(t), Manages(t),
           NEW i \in 1 .. Len(th'[t].todo), th'[t].todo[i].do \in {"default", "loadName"}
    PROVE  /\ th'[t].todo[i].name \in Files
           /\ \/ FirstMount(t)
              \/ /\ th'[t].todo[i].name # Now(t).name \/ ~DefaultFile(t)
                 /\ th'[t].todo[i].do = "default" => th'[t].todo[i].name # Now(t).name
                 /\ \E j \in 1 .. Len(th[t].todo) : th[t].todo[j] = th'[t].todo[i]
<1> DEFINE s == th[t].todo  z == th'[t].todo
<1>1. s # <<>> /\ Roles(t)'
  BY StepRole
<1>2. s \in Seq(AnyStep) /\ Now(t) = s[1] /\ Len(s) \in Nat /\ 1 \in 1 .. Len(s) /\ Now(t).skip \in Nat
  BY <1>1, HeadIs
<1>3. Defaulted(s)
  BY DEF Calm, AllRoles, Roles
<1>4. z[i].do = "default" => z[i].name \in UserFiles
  <2>1. ManagedAt(z, i)
    BY <1>1 DEF Roles, Laid, LaidAt
  <2> QED BY <2>1 DEF ManagedAt
<1>5. z[i].do = "loadName" => z[i].name = "name"
  <2>1. ManagedAt(z, i)
    BY <1>1 DEF Roles, Laid, LaidAt
  <2> QED BY <2>1 DEF ManagedAt
<1>6. z[i].name \in Files
  BY <1>4, <1>5, Contents
<1>7. ASSUME NEW j \in 2 .. Len(s), z[i] = s[j] PROVE z[i].do = "default" => z[i].name # Now(t).name
  <2>1. j \in 1 + 1 .. Len(s) /\ DefaultedAt(s, 1)
    BY <1>2, <1>3 DEF Defaulted
  <2> HIDE DEF s, z
  <2> QED BY <1>2, <1>7, <2>1 DEF DefaultedAt
<1>8. \/ FirstMount(t)
      \/ \E j \in 2 .. Len(s) : z[i] = s[j]
  <2>1. CASE \E k \in Nat \ {0, 1} : z = Rest(s, k)
    <3>1. PICK k \in Nat \ {0, 1} : z = Rest(s, k)
      BY <2>1
    <3>2. i + k - 1 \in 1 .. Len(s) /\ z[i] = s[i + k - 1]
      BY <1>2, <3>1, RestIs
    <3>3. i \in Nat \ {0} /\ i + k - 1 \in 2 .. Len(s)
      BY <3>2
    <3> QED BY <3>2, <3>3
  <2>2. CASE DefaultFile(t) /\ ~Took(t)
    <3> DEFINE r == Rest(s, 2)
    <3>1. /\ Now(t).name \in UserFiles /\ Now(t).data \in Text /\ r \in Seq(AnyStep)
          /\ z = WriteFile(Now(t).name, Now(t).data) \o r
      <4>1. r \in Seq(AnyStep)
        BY <1>2, RestIs
      <4>2. Extends(t, WriteFile(Now(t).name, Now(t).data), Only(Now(t).name, {Now(t).data}))
            /\ Now(t).name \in UserFiles /\ Now(t).data \in Text
        BY <2>2, DefaultFileIs
      <4> QED BY <4>1, <4>2 DEF Extends
    <3>2. /\ z[1].do = "check" /\ z[2].do = "truncate" /\ z[3].do = "write" /\ z[4].do = "close"
          /\ Len(z) = Len(r) + 4 /\ Len(r) \in Nat
          /\ \A k \in 5 .. Len(z) : k - 4 \in 1 .. Len(r) /\ z[k] = r[k - 4]
      BY <3>1, WriteThen
    <3>3. i \in 5 .. Len(z)
      BY <3>2
    <3>4. i - 4 \in 1 .. Len(r) /\ z[i] = r[i - 4]
      BY <3>2, <3>3
    <3>5. (i - 4) + 2 - 1 \in 1 .. Len(s) /\ r[i - 4] = s[(i - 4) + 2 - 1]
      <4> DEFINE k == i - 4
      <4>1. k \in 1 .. Len(Rest(s, 2))
        BY <3>4
      <4> HIDE DEF k
      <4>2. k + 2 - 1 \in 1 .. Len(s) /\ Rest(s, 2)[k] = s[k + 2 - 1]
        BY <1>2, <4>1, RestIs
      <4> QED BY <4>2 DEF k
    <3>6. (i - 4) + 2 - 1 \in 2 .. Len(s)
      BY <3>3, <3>5
    <3> QED BY <3>4, <3>5, <3>6
  <2>3. CASE LoadName(t) /\ ~Took(t)
    <3>1. z = Saved("name", DefaultName) /\ DefaultName \in Text
      BY <2>3, LoadNameIs
    <3>2. Len(z) = 3 /\ z[1].do = "open" /\ z[2].do = "write" /\ z[3].do = "close"
      BY <3>1, SavedIs, Contents
    <3> QED BY <3>2
  <2>4. CASE Took(t) \/ Skipped(t)
    <3>1. 2 \in Nat \ {0, 1} /\ 2 + Now(t).skip \in Nat \ {0, 1}
      BY <1>2
    <3> QED BY <2>1, <2>4, <3>1 DEF Took, Skipped
  <2> QED BY <2>2, <2>3, <2>4, TookOrManages
<1>9. CASE FirstMount(t)
  BY <1>6, <1>9
<1>10. CASE \E j \in 2 .. Len(s) : z[i] = s[j]
  <2>1. PICK j \in 2 .. Len(s) : z[i] = s[j]
    BY <1>10
  <2>2. z[i].do = "default" => z[i].name # Now(t).name
    BY <1>7, <2>1
  <2>3. DefaultFile(t) => Now(t).name \in UserFiles
    BY DefaultFileIs
  <2>4. z[i].do = "loadName" => z[i].name \notin UserFiles
    BY <1>5, Contents
  <2>5. j \in 1 .. Len(s)
    BY <1>2
  <2> HIDE DEF s, z
  <2> QED BY <1>6, <2>1, <2>2, <2>3, <2>4, <2>5 DEF s, z
<1> QED BY <1>8, <1>9, <1>10

LEMMA StepGoals ==
    ASSUME Calm, NEW t \in Threads, Steps(t), Aimed(t), Goals(t) PROVE Goals(t)'
<1> DEFINE s == th[t].todo  z == th'[t].todo
<1>1. CASE Return(t)
  <2>1. th'[t].op = "none"
    BY <1>1, ReturnIs
  <2> QED BY <2>1 DEF Goals
<1>2. CASE ~Return(t)
  <2>1. th'[t].op = th[t].op /\ s # <<>> /\ Next1(t) = Now(t).do /\ Roles(t)'
    BY <1>2, StepRole, NextIs DEF OnItsWay
  <2>2. ASSUME th'[t].op = "boot", NEW i \in 1 .. Len(z), z[i].do \in {"default", "loadName"}
        PROVE  th'[t].goal[z[i].name] = {}
    <3> DEFINE n == z[i].name
    <3>1. /\ n \in Files
          /\ \/ FirstMount(t)
             \/ /\ n # Now(t).name \/ ~DefaultFile(t)
                /\ \E j \in 1 .. Len(s) : s[j] = z[i]
      BY <1>2, <2>1, <2>2, DefaultsLeft DEF Manages
    <3>2. CASE FirstMount(t)
      <4>1. Next1(t) \in Making /\ th'[t].goal[n] = th[t].goal[n]
        BY <2>1, <3>1, <3>2, FirstMountIs DEF FirstMount, Doing, Making
      <4>2. th[t].goal[n] = {}
        BY <2>1, <2>2, <3>1, <4>1 DEF Goals
      <4> QED BY <4>1, <4>2
    <3>3. CASE (n # Now(t).name \/ ~DefaultFile(t)) /\ \E j \in 1 .. Len(s) : s[j] = z[i]
      <4>1. th[t].goal[n] = {}
        BY <2>1, <2>2, <3>3 DEF Goals
      <4>2. ~(LoadName(t) /\ z = Saved("name", DefaultName))
        <5>1. ASSUME LoadName(t), z = Saved("name", DefaultName) PROVE FALSE
          <6>1. Len(z) = 3 /\ z[1].do = "open" /\ z[2].do = "write" /\ z[3].do = "close"
            BY <5>1, LoadNameIs, SavedIs, Contents
          <6> QED BY <2>2, <6>1
        <5> QED BY <5>1
      <4>3. th'[t].goal[n] = th[t].goal[n]
        BY <1>2, <3>1, <3>3, <4>2, GoalIs
      <4> QED BY <4>1, <4>3
    <3> QED BY <3>1, <3>2, <3>3
  <2>3. ASSUME Sole(t)', th'[t].op = "format", Next1(t)' \notin {"unmount", "mkfs"},
               NEW i \in 1 .. Len(z), z[i].do = "default"
        PROVE  files'[z[i].name] = Absent
    <3> DEFINE n == z[i].name
    <3>1. n \in Files /\ n # Now(t).name /\ \E j \in 1 .. Len(s) : s[j] = z[i]
      <4>1. ~FirstMount(t)
        BY <2>1, <2>3, FirstMountIs
      <4> QED BY <1>2, <2>1, <2>3, <4>1, DefaultsLeft DEF Manages
    <3>2. Sole(t) /\ ~Skipped(t)
      BY <2>3, SoleBefore
    <3>3. Now(t).do \notin {"remkfs", "rename"}
      <4>1. Defaulted(s) /\ 1 \in 1 .. Len(s) /\ Now(t) = s[1] /\ (Now(t).do = "remkfs" => th[t].op = "boot")
        <5>1. Manages(t) /\ 1 \in 1 .. Len(s) /\ Now(t) = s[1]
          BY <2>1, <2>3, HeadIs DEF Manages
        <5>2. Roles(t)
          BY DEF Calm, AllRoles
        <5> QED BY <5>1, <5>2 DEF Roles
      <4>2. DefaultedAt(s, 1)
        BY <4>1 DEF Defaulted
      <4> QED BY <2>1, <2>3, <4>1, <4>2 DEF DefaultedAt, Managing, Making, Ended
    <3>4. Now(t).do # "unmount"
      <4>1. ASSUME Now(t).do = "unmount" PROVE FALSE
        <5>1. Unmount(t)
          BY <1>2, <4>1 DEF Steps, CheckMounted, Open, Transfer, Close, Unlink, Rename, Fail, Mkfs,
             MkfsFails, Mount,
             FirstMount, NoteMounted, DefaultFile, LoadName, Doing
        <5>2. Next1(t)' = Do(s, 2) /\ ManagedAt(s, 1) /\ Now(t) = s[1] /\ 1 + 1 = 2
          BY <2>1, <5>1, UnmountIs, NextIs
        <5>3. Next1(t)' = "remkfs"
          BY <2>3, <4>1, <5>2 DEF ManagedAt
        <5>4. th'[t].op = "boot"
          BY <2>1, <5>3 DEF Roles, Next1, Do
        <5> QED BY <2>3, <5>4
      <4> QED BY <4>1
    <3>5. CASE Now(t).do = "mkfs"
      <4>1. Mkfs(t)
        <5>1. ~MkfsFails(t)
          BY <3>2, MkfsFailsIs
        <5> QED BY <1>2, <3>5, <5>1 DEF Steps, CheckMounted, Open, Transfer, Close, Unlink, Rename, Fail,
                   Unmount, Mount,
                FirstMount, NoteMounted, DefaultFile, LoadName, Doing
      <4> QED BY <3>1, <4>1 DEF Mkfs, Emptied
    <3>6. CASE Now(t).do # "mkfs"
      <4>1. files[n] = Absent
        BY <2>1, <2>3, <3>1, <3>2, <3>4, <3>6 DEF Goals
      <4>2. ~Touches(Now(t), n)
        BY <3>1, <3>3, <3>4, <3>6 DEF Touches
      <4>3. files'[n] = files[n]
        BY <1>2, <3>1, <4>2, FilesTouched
      <4> QED BY <4>1, <4>3
    <3> QED BY <3>5, <3>6
  <2>4. th'[t].op = "format" => \A n \in Files : th'[t].goal[n] = IF n \in UserFiles THEN {Default[n]} ELSE {Absent}
    BY FormatGoal
  <2>5. th'[t].op = "boot" /\ Next1(t)' \in Making => \A n \in Files : th'[t].goal[n] = {}
    BY MakingGoal
  <2> QED BY <2>2, <2>3, <2>4, <2>5 DEF Goals
<1> QED BY <1>1, <1>2

-----------------------------------------------------------------------------
(* A call that met no failure has done what it is for. *)

LEMMA RestTouched ==
    ASSUME NEW s \in Seq(AnyStep), s # <<>>, NEW n
    PROVE  Touched(s, n) <=> Touches(s[1], n) \/ Touched(Rest(s, 2), n)
<1>1. Len(s) \in Nat /\ 1 \in 1 .. Len(s) /\ Len(Rest(s, 2)) = Len(s) - 1
      /\ \A i \in 1 .. Len(s) - 1 : Rest(s, 2)[i] = s[i + 1]
  <2>1. Len(s) \in Nat \ {0}
    BY EmptySeq
  <2>2. /\ Len(Rest(s, 2)) = IF 2 <= Len(s) THEN Len(s) + 1 - 2 ELSE 0
        /\ \A i \in 1 .. Len(Rest(s, 2)) : Rest(s, 2)[i] = s[i + 2 - 1]
    BY RestIs
  <2>3. Len(Rest(s, 2)) = Len(s) - 1
    BY <2>1, <2>2
  <2>4. \A i \in Nat : i + 2 - 1 = i + 1
    OBVIOUS
  <2> QED BY <2>1, <2>2, <2>3, <2>4
<1>2. ASSUME Touched(s, n) PROVE Touches(s[1], n) \/ Touched(Rest(s, 2), n)
  <2>1. PICK i \in 1 .. Len(s) : Touches(s[i], n)
    BY <1>2 DEF Touched
  <2>2. CASE i = 1
    BY <2>1, <2>2
  <2>3. CASE i # 1
    <3>1. i - 1 \in 1 .. Len(s) - 1 /\ (i - 1) + 1 = i
      BY <1>1, <2>3
    <3>2. Rest(s, 2)[i - 1] = s[i]
      BY <1>1, <3>1
    <3> QED BY <1>1, <2>1, <3>1, <3>2 DEF Touched
  <2> QED BY <2>2, <2>3
<1>3. ASSUME Touched(Rest(s, 2), n) PROVE Touched(s, n)
  <2>1. PICK i \in 1 .. Len(s) - 1 : Touches(Rest(s, 2)[i], n)
    BY <1>1, <1>3 DEF Touched
  <2>2. i + 1 \in 1 .. Len(s) /\ Rest(s, 2)[i] = s[i + 1]
    BY <1>1
  <2> QED BY <2>1, <2>2 DEF Touched
<1> QED BY <1>1, <1>2, <1>3 DEF Touched

LEMMA TookReached ==
    ASSUME Calm, FilesAsMeant, NEW t \in Threads, Steps(t), Took(t), Sole(t)', Aimed(t), Moving(t),
           Writing(t), Reached(t), Goals(t),
           NEW n \in Files, th[t].goal[n] # {}, ~Touched(th'[t].todo, n)
    PROVE  Fits(n, files'[n], th[t].goal[n])
<1> DEFINE s == th[t].todo  z == th'[t].todo  x == Now(t)  goal == th[t].goal
<1>1. Sole(t) /\ ~Return(t) /\ s # <<>> /\ ~Skipped(t)
  BY SoleBefore
<1>2. s \in Seq(AnyStep) /\ x = s[1] /\ 1 \in 1 .. Len(s) /\ z = Rest(s, 2) /\ LaidAt(s, 1)
      /\ Next1(t) = x.do /\ x.do \in Operations
  BY <1>1, HeadIs DEF Took, Next1
<1>3. AimedAt(s, 1, goal, meant)
  BY <1>2 DEF Aimed
<1>4. CASE ~Touches(x, n)
  <2>1. ~Touched(s, n)
    BY <1>1, <1>2, <1>4, RestTouched
  <2>2. Fits(n, files[n], goal[n])
    BY <1>1, <2>1 DEF Reached
  <2> QED BY <1>1, <1>4, <2>2, FilesTouched
<1>5. CASE Touches(x, n)
  <2>1. ~(x.name = n /\ (x.do \in Opening \/ (Inner(x) /\ x.do # "close")))
    <3>1. ASSUME x.name = n, x.do \in Opening \/ (Inner(x) /\ x.do # "close") PROVE FALSE
      <4>1. 1 + 1 = 2
        OBVIOUS
      <4>2. InsideOf(s, 2, n)
        BY <1>2, <3>1, <4>1 DEF LaidAt, HandledAt
      <4>3. s[2].name = n /\ Do(s, 2) # "end"
        BY <4>2 DEF InsideOf, Inside, Inner, Do
      <4>4. z[1].name = n /\ Do(z, 1) # "end"
        BY <1>1, <4>3, TookShift
      <4>5. 1 \in 1 .. Len(z)
        BY <4>4 DEF Do
      <4> QED BY <4>4, <4>5 DEF Touched, Touches
    <3> QED BY <3>1
  <2>2. CASE x.do = "close" /\ x.name = n
    <3>1. Close(t)
      <4>1. ~Fail(t)
        BY <1>1, FailIs
      <4> QED BY <1>1, <2>2, <4>1 DEF Steps, CheckMounted, Open, Transfer, Unlink, Rename, Unmount, Mkfs,
                 MkfsFails, Mount,
              FirstMount, NoteMounted, DefaultFile, LoadName, Doing
    <3> DEFINE f == th[t].file
    <3>2. f.name = n /\ files'[n] = IF f.state = "open" /\ f.dirty /\ f.name = n THEN f.data ELSE files[n]
      BY <2>2, <3>1, ClosedFiles
    <3>3. Inside(s, 1)
      BY <1>1, <1>2, <2>2, HeadIs DEF Inner
    <3>4. f.state = "open" /\ f.dirty /\ Fits(f.name, f.data, goal[f.name])
      BY <1>1, <1>2, <2>2, <3>2, <3>3 DEF Writing
    <3> QED BY <3>2, <3>4
  <2>3. CASE x.do = "unlink"
    <3>1. Unlink(t)
      <4>1. ~Fail(t)
        BY <1>1, FailIs
      <4> QED BY <1>1, <2>3, <4>1 DEF Steps, CheckMounted, Open, Transfer, Close, Rename, Unmount, Mkfs,
                 MkfsFails, Mount,
              FirstMount, NoteMounted, DefaultFile, LoadName, Doing
    <3>2. x.name = n
      BY <1>5, <2>3 DEF Touches
    <3>3. files'[n] = Absent
      BY <3>1, <3>2, RemoveFiles DEF Unlink
    <3> QED BY <1>3, <1>2, <2>3, <3>2, <3>3 DEF AimedAt, Fits
  <2>4. CASE x.do = "rename"
    <3>1. Rename(t)
      <4>1. ~Fail(t)
        BY <1>1, FailIs
      <4> QED BY <1>1, <2>4, <4>1 DEF Steps, CheckMounted, Open, Transfer, Close, Unlink, Unmount, Mkfs,
                 MkfsFails, Mount,
              FirstMount, NoteMounted, DefaultFile, LoadName, Doing
    <3> DEFINE a == x.name  b == x.data
    <3>2. a \in UserFiles /\ b \in UserFiles /\ a # b /\ Absent \in goal[a]
      BY <1>1, <2>4, MovesWhat
    <3>3. files[a] # Absent /\ files'[n] = IF n = a THEN Absent ELSE IF n = b THEN files[a] ELSE files[n]
      BY <3>1, <3>2, RenameFiles, Contents DEF Rename
    <3>4. MayHold(a) \ {Absent} \subseteq goal[b]
      <4>1. Do(s, 1) = "rename" /\ s[1] = x
        BY <1>2, <2>4 DEF Do
      <4> QED BY <1>1, <4>1 DEF Moving
    <3>5. files[a] \in MayHold(a)
      <4>1. Holds(a)
        BY <3>2, FilesHold, Contents
      <4> QED BY <3>2, <4>1, HoldsIn
    <3>6. n \in {a, b}
      BY <1>5, <2>4 DEF Touches
    <3> QED BY <3>2, <3>3, <3>4, <3>5, <3>6 DEF Fits
  <2>5. x.do # "unmount"
    <3>1. ASSUME x.do = "unmount" PROVE FALSE
      <4>1. 1 + 1 = 2
        OBVIOUS
      <4>2. Do(s, 2) \in {"mkfs", "remkfs"}
        BY <1>2, <3>1, <4>1 DEF LaidAt, ManagedAt
      <4>3. Do(z, 1) \in {"mkfs", "remkfs"}
        BY <1>1, <4>2, TookShift
      <4>4. 1 \in 1 .. Len(z) /\ z[1].do \in {"mkfs", "remkfs"}
        BY <4>3 DEF Do
      <4> QED BY <4>4 DEF Touched, Touches
    <3> QED BY <3>1
  <2>6. CASE x.do \in {"mkfs", "remkfs"}
    <3>1. Mkfs(t)
      <4>1. ~MkfsFails(t)
        BY <1>1, MkfsFailsIs
      <4> QED BY <1>1, <2>6, <4>1 DEF Steps, CheckMounted, Open, Transfer, Close, Unlink, Rename, Fail,
                 Unmount, Mount,
              FirstMount, NoteMounted, DefaultFile, LoadName, Doing
    <3>2. files'[n] = Absent
      BY <3>1 DEF Mkfs, Emptied
    <3>3. Manages(t) /\ Defaulted(s)
      BY <1>1, <2>6, ManagerIs DEF Managing, Making
    <3>4. th[t].op = "format"
      <4>1. th[t].op # "boot"
        BY <1>2, <2>6 DEF Goals, Making
      <4> QED BY <3>3, <4>1 DEF Manages
    <3>5. n \notin UserFiles
      <4>1. ASSUME n \in UserFiles PROVE FALSE
        <5>1. n \in Names_(Rest(s, 2))
          BY <1>1, <1>2, <2>6, <3>3, <4>1, MakingNames DEF Making
        <5> QED BY <1>2, <5>1 DEF Names_, Touched, Touches
      <4> QED BY <4>1
    <3>6. goal[n] = {Absent}
      BY <3>4, <3>5 DEF Goals
    <3> QED BY <3>2, <3>6 DEF Fits
  <2>7. ~(x.name = n /\ x.do = "default")
    <3>1. ASSUME x.name = n, x.do = "default" PROVE FALSE
      <4>1. DefaultFile(t)
        BY <1>1, <3>1 DEF Steps, CheckMounted, Open, Transfer, Close, Unlink, Rename, Fail, Unmount,
           Mkfs, MkfsFails, Mount,
              FirstMount, NoteMounted, LoadName, Doing
      <4>2. ~Missing(n, x.data)
        <5>1. ASSUME Missing(n, x.data) PROVE FALSE
          <6>1. /\ n \in UserFiles /\ x.data \in Text
                /\ z = WriteFile(n, x.data) \o Rest(s, 2)
            BY <3>1, <4>1, <5>1, DefaultFileIs DEF Extends
          <6>2. Rest(s, 2) \in Seq(AnyStep)
            <7>1. 2 \in Nat \ {0} /\ s \in Seq(AnyStep)
              BY <1>2
            <7> HIDE DEF s
            <7> QED BY <7>1, RestIs
          <6>3. z[2].name = n /\ 2 \in 1 .. Len(z)
            BY <6>1, <6>2, WriteThen
          <6> QED BY <6>3 DEF Touched, Touches
        <5> QED BY <5>1
      <4>3. Manages(t)
        BY <1>1, <3>1, ManagerIs DEF Managing, Ended
      <4>4. th[t].op # "boot"
        BY <1>2, <3>1 DEF Goals
      <4>5. files[n] = Absent
        <5>1. th[t].op = "format"
          BY <4>3, <4>4 DEF Manages
        <5> QED BY <1>1, <1>2, <3>1, <5>1 DEF Goals
      <4> QED BY <4>2, <4>5 DEF Missing
    <3> QED BY <3>1
  <2>8. ~(x.name = n /\ x.do = "loadName")
    <3>1. ASSUME x.name = n, x.do = "loadName" PROVE FALSE
      <4>1. th[t].op = "boot"
        BY <1>1, <3>1, ManagerIs DEF Managing, Ended
      <4> QED BY <1>2, <3>1, <4>1 DEF Goals
    <3> QED BY <3>1
  <2>9. ~(x.name = n /\ x.do \in Making \cup {"check"})
    BY <1>2, Contents DEF LaidAt, ManagedAt
  <2>10. x.do = "wait" /\ x.name = n => Inner(x)
    BY Contents DEF Inner
  <2>11. ~(x.name = n /\ x.do \notin {"close", "unlink", "rename"})
    <3>1. x.do \in Opening \cup {"write", "append", "read", "wait", "close", "unlink", "rename", "default", "loadName", "check"} \cup Making
      BY <1>2 DEF Operations, Opening, Making
    <3>2. x.do \in {"write", "append", "read"} => Inner(x)
      BY DEF Inner
    <3> QED BY <2>1, <2>7, <2>8, <2>9, <2>10, <3>1, <3>2
  <2>12. CASE x.name = n
    BY <2>2, <2>3, <2>4, <2>11, <2>12
  <2>13. CASE x.name # n
    BY <1>5, <2>4, <2>5, <2>6, <2>13 DEF Touches
  <2> QED BY <2>12, <2>13
<1> QED BY <1>4, <1>5

LEMMA StepReached ==
    ASSUME Calm, FilesAsMeant, NEW t \in Threads, Steps(t), Aimed(t), Moving(t), Writing(t), Reached(t),
           Goals(t)
    PROVE  Reached(t)'
<1> DEFINE s == th[t].todo  z == th'[t].todo  aim == th'[t].goal  goal == th[t].goal  x == Now(t)
<1> SUFFICES ASSUME Sole(t)', NEW n \in Files, aim[n] # {}, ~Touched(z, n) PROVE Fits(n, files'[n], aim[n])
  BY DEF Reached
<1>1. Sole(t) /\ ~Return(t) /\ ~Skipped(t) /\ s # <<>>
  BY SoleBefore
<1>2. s \in Seq(AnyStep) /\ x = s[1] /\ 1 \in 1 .. Len(s) /\ LaidAt(s, 1) /\ Next1(t) = x.do
  BY <1>1, HeadIs DEF Next1
<1>3. CASE Took(t)
  <2>1. aim = goal
    BY <1>3 DEF Took
  <2> QED BY <1>3, <2>1, TookReached
<1>4. CASE FirstMount(t)
  <2>1. aim[n] = goal[n] /\ th[t].op = "boot" /\ x.do = "init"
    BY <1>4, FirstMountIs DEF FirstMount, Doing
  <2>2. goal[n] = {}
    BY <1>2, <2>1 DEF Goals, Making
  <2> QED BY <2>1, <2>2
<1>5. CASE DefaultFile(t) /\ ~Took(t)
  <2> DEFINE r == Rest(s, 2)
  <2>1. /\ x.name \in UserFiles /\ x.data \in Text /\ z = WriteFile(x.name, x.data) \o r
           /\ x.do = "default" /\ r \in Seq(AnyStep)
    <3>1. Extends(t, WriteFile(x.name, x.data), Only(x.name, {x.data})) /\ x.name \in UserFiles
          /\ x.data \in Text /\ x.do = "default"
      BY <1>5, DefaultFileIs DEF DefaultFile, Doing
    <3>2. r \in Seq(AnyStep)
      BY <1>1, HeadIs, RestIs
    <3> QED BY <3>1, <3>2 DEF Extends
  <2>2. z[2].name = x.name /\ 2 \in 1 .. Len(z) /\ Len(r) \in Nat /\ Len(z) = Len(r) + 4
        /\ z \in Seq(AnyStep) /\ Rest(z, 5) = r
    BY <2>1, WriteThen
  <2>3. x.name # n
    BY <2>2 DEF Touched, Touches
  <2>4. ~Touched(r, n)
    <3>1. ASSUME NEW i \in 1 .. Len(r), Touches(r[i], n) PROVE FALSE
      <4>1. i \in 1 .. Len(Rest(z, 5)) /\ i + 4 \in 1 .. Len(z) /\ i + 5 - 1 = i + 4
        BY <2>2
      <4>2. Rest(z, 5)[i] = z[i + 5 - 1]
        BY <2>2, <4>1, RestIs
      <4> QED BY <2>2, <3>1, <4>1, <4>2 DEF Touched
    <3> QED BY <3>1 DEF Touched
  <2>5. ~Touched(s, n)
    <3>1. ~Touches(x, n)
      BY <2>1, <2>3 DEF Touches
    <3> QED BY <1>1, <1>2, <2>4, <3>1, RestTouched
  <2>6. aim[n] = goal[n]
    <3>1. ~LoadName(t)
      BY <2>1 DEF LoadName, Doing
    <3> QED BY <1>1, <2>3, <3>1, GoalIs
  <2>7. files' = files
    BY <1>5 DEF DefaultFile
  <2> QED BY <1>1, <2>5, <2>6, <2>7 DEF Reached
<1>6. CASE LoadName(t) /\ ~Took(t)
  <2>1. /\ aim = Instead(Only("name", {DefaultName}), goal) /\ {DefaultName} \in SUBSET Content
           /\ DefaultName \in Text
        /\ z = Saved("name", DefaultName) /\ goal \in [Files -> SUBSET Content] /\ x.do = "loadName"
           /\ files' = files
    <3>1. goal \in [Files -> SUBSET Content]
      BY CallTyped DEF Calm, TypeOK
    <3>2. x.do = "loadName" /\ files' = files
      BY <1>6 DEF LoadName, Doing
    <3> QED BY <1>6, <3>1, <3>2, LoadNameIs
  <2>2. n # "name"
    <3>1. z[2].name = "name" /\ 2 \in 1 .. Len(z)
      BY <2>1, SavedIs, Contents
    <3> QED BY <3>1 DEF Touched, Touches
  <2>3. aim[n] = goal[n]
    <3> DEFINE g == Only("name", {DefaultName})
    <3>1. g \in [Files -> SUBSET Content] /\ g[n] = {}
      BY <2>1, <2>2, OnlyTyped
    <3> HIDE DEF g, goal, aim
    <3>2. Instead(g, goal)[n] = IF g[n] # {} THEN g[n] ELSE goal[n]
      BY <2>1, <3>1, InsteadTyped
    <3> QED BY <2>1, <3>1, <3>2 DEF g
  <2>4. ~Touched(s, n)
    <3>1. x.name = "name" /\ Do(s, 1 + 1) = "end"
      BY <1>2, <2>1 DEF LaidAt, ManagedAt
    <3>2. 2 \notin 1 .. Len(s)
      <4>1. ASSUME 2 \in 1 .. Len(s) PROVE FALSE
        <5>1. s[2] \in AnyStep /\ s[2].do = "end"
          BY <1>2, <3>1, <4>1 DEF Do
        <5> QED BY <5>1 DEF AnyStep, Operations
      <4> QED BY <4>1
    <3>3. \A i \in 1 .. Len(s) : i = 1
      BY <1>2, <3>2
    <3>4. ~Touches(s[1], n)
      BY <1>2, <2>1, <2>2, <3>1 DEF Touches
    <3> QED BY <3>3, <3>4 DEF Touched
  <2>5. Fits(n, files[n], goal[n])
    BY <1>1, <2>3, <2>4 DEF Reached
  <2> QED BY <2>1, <2>3, <2>5
<1> QED BY <1>1, <1>3, <1>4, <1>5, <1>6, TookOrManages

-----------------------------------------------------------------------------
(* What holds of every call. *)

Written(t) == Aimed(t) /\ Moving(t) /\ Writing(t) /\ Reached(t) /\ Goals(t)

LEMMA WrittenParts == AllWritten <=> \A t \in Threads : Written(t)
BY DEF AllWritten, Written

LEMMA IdleWritten ==
    ASSUME NEW u \in Threads, th'[u].op = "none", th'[u].todo = <<>>, th'[u].file = NoFile PROVE Written(u)'
<1>1. ~Inside(th'[u].todo, 1) /\ ~Sole(u)'
  BY DEF Inside, Sole, Busy
<1>2. Writing(u)'
  BY <1>1, OutsideWriting
<1>3. Aimed(u)' /\ Moving(u)' /\ Reached(u)' /\ Goals(u)'
  BY <1>1 DEF Aimed, Moving, Reached, Goals
<1> QED BY <1>2, <1>3 DEF Written

LEMMA BesideWritten ==
    ASSUME Calm, NEW u \in Threads, Written(u), th'[u].op = th[u].op, th'[u].todo = th[u].todo,
           th'[u].goal = th[u].goal,
           Fades(th[u].file, th'[u].file), ~Sole(u)', \A n \in Files : meant[n] \subseteq meant'[n]
    PROVE  Written(u)'
<1>1. Writing(u)'
  BY OtherWriting DEF Written
<1>2. Aimed(u)'
  <2> DEFINE s == th[u].todo
  <2>1. s \in Seq(AnyStep) /\ Laid(s)
    BY CallTyped DEF Calm, TypeOK, AllRoles, Roles
  <2>2. \A i \in 1 .. Len(s) : AimedAt(s, i, th[u].goal, meant')
    BY <2>1, AimedMore DEF Written, Aimed
  <2> HIDE DEF s
  <2>3. th'[u].todo = s
    BY DEF s
  <2> QED BY <2>2, <2>3 DEF Aimed
<1>3. Moving(u)' /\ Reached(u)'
  BY DEF Moving, Reached
<1>4. Goals(u)'
  BY DEF Written, Goals, Next1
<1> QED BY <1>1, <1>2, <1>3, <1>4 DEF Written

FilesInv == FilesSorted /\ AllWritten /\ FilesAsMeant

LEMMA StepFiles ==
    ASSUME Calm, FilesInv, NEW t \in Threads, Steps(t) PROVE FilesInv'
<1>1. Aimed(t) /\ Moving(t) /\ Writing(t) /\ Reached(t) /\ Goals(t) /\ FilesSorted /\ FilesAsMeant
  BY DEF FilesInv, AllWritten
<1>2. FilesSorted' /\ FilesAsMeant'
  BY <1>1, StepSorted, StepMeant
<1>3. Written(t)'
  BY <1>1, StepAimed, StepMoving, StepWriting, StepReached, StepGoals DEF Written
<1>4. ASSUME NEW u \in Threads \ {t} PROVE Written(u)'
  <2>1. Written(u) /\ ~Sole(u)'
    BY SoleStep, WrittenParts DEF FilesInv
  <2>2. CASE Return(t)
    <3>1. th'[u] = th[u]
      BY <2>2, ReturnIs DEF SameBut
    <3>2. CASE Sole(t)
      <4>1. ~Busy(u)
        BY <3>2, SoleIs
      <4>2. th[u].op = "none" /\ th[u].todo = <<>> /\ th[u].file = NoFile
        BY <4>1, IdleIs DEF Busy
      <4> QED BY <3>1, <4>2, IdleWritten
    <3>3. CASE ~Sole(t)
      <4>1. meant' = meant
        BY <2>2, <3>3, ReturnIs DEF Return, Sole
      <4> QED BY <2>1, <3>1, <4>1, FadesSame, BesideWritten
    <3> QED BY <3>2, <3>3
  <2>3. CASE ~Return(t)
    <3>1. SameCall(th'[u], th[u]) /\ Fades(th[u].file, th'[u].file)
      BY <2>3, StepRole DEF Beside
    <3>2. \A n \in Files : meant[n] \subseteq meant'[n]
      BY <2>3, MeantKept
    <3> QED BY <2>1, <3>1, <3>2, BesideWritten DEF SameCall
  <2> QED BY <2>2, <2>3
<1>5. \A u \in Threads : Written(u)'
  BY <1>3, <1>4
<1> QED BY <1>2, <1>5 DEF FilesInv, AllWritten, Written

LEMMA BeginFiles ==
    ASSUME Calm, FilesInv, NEW t \in Threads, NEW op, NEW steps, NEW goal,
           Begin(t, op, steps, goal), Suits(op, steps, goal), Intends(op, steps, goal)
    PROVE  FilesInv'
<1>1. /\ th'[t].op = op /\ th'[t].todo = steps /\ th'[t].file = NoFile /\ th'[t].goal = goal
      /\ \A u \in Threads \ {t} :
            th'[u].op = th[u].op /\ th'[u].todo = th[u].todo /\ th'[u].file = th[u].file
            /\ th'[u].goal = th[u].goal
  <2>1. th'[t].op = op /\ th'[t].todo = steps /\ th'[t].file = NoFile /\ th'[t].goal = goal
    BY DEF Begin
  <2>2. ASSUME NEW u \in Threads \ {t}
        PROVE  th'[u].op = th[u].op /\ th'[u].todo = th[u].todo /\ th'[u].file = th[u].file
               /\ th'[u].goal = th[u].goal
    BY BeginIs
  <2> QED BY <2>1, <2>2
<1>2. /\ files' = files /\ hollow' = hollow /\ meant' = Widened(goal)
      /\ \A n \in Files : meant'[n] = meant[n] \cup goal[n]
  BY DEF Begin, Widened
<1>3. /\ op \in Kinds /\ steps \in Seq(AnyStep) /\ Laid(steps)
         /\ Do(steps, 1) \in {"check", "look", "truncate", "open", "unlink", "unmount"}
      /\ op = "format" => steps = FormatPlan
  BY DEF Suits
<1>4. ~Inside(steps, 1)
  BY <1>3 DEF Inside, Inner, Do
<1>5. Aimed(t)'
  <2>1. \A i \in 1 .. Len(steps) : AimedAt(steps, i, goal, meant')
    <3>1. \A n \in Files : goal[n] \subseteq meant'[n]
      BY <1>2
    <3> QED BY <1>3, <3>1, AimedMore DEF Intends
  <2> QED BY <1>1, <2>1 DEF Aimed
<1>6. Moving(t)'
  <2>1. ASSUME NEW i \in {1, 2}, Do(steps, i) = "rename"
        PROVE  (meant'[steps[i].name] \cup {c \in {<<>>} : steps[i].name \in hollow'}) \ {Absent}
               \subseteq goal[steps[i].data]
    <3>1. i \in 1 .. Len(steps) /\ steps[i].do = "rename"
      BY <2>1 DEF Do
    <3>2. AimedAt(steps, i, goal, goal) /\ MayHold(steps[i].name) \ {Absent} \subseteq goal[steps[i].data]
          /\ goal[steps[i].name] = {Absent}
      BY <3>1 DEF Intends
    <3>3. steps[i].name \in Files
      BY <3>1, <3>2, Contents DEF AimedAt
    <3> QED BY <1>2, <3>2, <3>3 DEF MayHold
  <2> QED BY <1>1, <2>1 DEF Moving, MayHold
<1>7. Writing(t)'
  BY <1>1, <1>4, OutsideWriting
<1>8. Reached(t)'
  BY <1>1 DEF Reached, Intends
<1>9. Goals(t)'
  <2>1. op # "boot"
    BY <1>3 DEF Kinds
  <2>2. op = "format" => /\ \A n \in Files : goal[n] = IF n \in UserFiles THEN {Default[n]} ELSE {Absent}
                         /\ Do(steps, 1) = "unmount"
    <3>1. FormatPlan[1].do = "unmount" /\ Len(FormatPlan) = 6
      BY FormatPlanIs
    <3>2. op = "format" => goal = FormatAims
      BY DEF Intends
    <3>3. \A n \in Files : FormatAims[n] = IF n \in UserFiles THEN {Default[n]} ELSE {Absent}
      BY DEF FormatAims, Default, UserFiles
    <3> QED BY <1>3, <3>1, <3>2, <3>3 DEF Do
  <2> QED BY <1>1, <2>1, <2>2 DEF Goals, Next1
<1>10. ASSUME NEW u \in Threads \ {t} PROVE Written(u)'
  <2>1. Written(u) /\ ~Sole(u)'
    BY SoleBegin, WrittenParts DEF FilesInv
  <2>2. Fades(th[u].file, th'[u].file)
    BY <1>1, FadesSame
  <2> QED BY <1>1, <1>2, <2>1, <2>2, BesideWritten
<1>11. AllWritten'
  <2>1. Written(t)'
    BY <1>5, <1>6, <1>7, <1>8, <1>9 DEF Written
  <2>2. \A u \in Threads : Written(u)'
    BY <1>10, <2>1
  <2> QED BY <2>2 DEF AllWritten, Written
<1>12. FilesSorted'
  BY <1>2 DEF FilesInv, FilesSorted
<1>13. FilesAsMeant'
  BY <1>2, SameFiles DEF FilesInv
<1> QED BY <1>11, <1>12, <1>13 DEF FilesInv

LEMMA ScriptFiles ==
    ASSUME Calm, FilesInv, Script PROVE FilesInv'
<1>0. FilesSorted /\ FilesAsMeant /\ meant \in [Files -> SUBSET Content] /\ files \in [Files -> Content]
      /\ fds \in [Slots -> Handles] /\ hollow \subseteq Files
  BY DEF FilesInv, Calm, TypeOK
<1>1. /\ FilesAsMeant' /\ \A n \in Files : meant[n] \subseteq meant'[n]
      /\ \A n \in Sized : files'[n] = files[n]
  <2>0. "demo" \in Files /\ "howto" \in Files /\ "demo" # "howto" /\ \A n \in Sized : n \in Files
        /\ n \notin UserFiles
    BY DEF Sized, Files, UserFiles, Settings
  <2>1. ASSUME NEW do, FdOpen("demo", do)
        PROVE  /\ FilesAsMeant' /\ \A n \in Files : meant[n] \subseteq meant'[n]
               /\ \A n \in Sized : files'[n] = files[n]
    <3>1. \A m \in Files : files'[m] = files[m] \/ m = "demo"
      BY <2>0, <2>1, CreatedFiles DEF FdOpen
    <3>2. FilesAsMeant' /\ meant' = meant
      BY <1>0, <2>0, <2>1, CreatedHolds DEF FdOpen
    <3> QED BY <2>0, <3>1, <3>2, Contents
  <2>2. CASE unlink("demo")
    <3>1. Only("demo", {Absent})["demo"] = {Absent} /\ meant' = Widened(Only("demo", {Absent}))
      BY <2>0, <2>2, OnlyTyped, Singles, Contents DEF unlink
    <3>2. (\A n \in Files : meant[n] \subseteq meant'[n]) /\ Absent \in meant'["demo"]
      BY <2>0, <3>1 DEF Widened
    <3>3. \A m \in Files : /\ files'[m] = IF m = "demo" THEN Absent ELSE files[m]
                           /\ m # "demo" /\ m \in hollow => m \in hollow'
      BY <2>0, <2>2, RemoveFiles DEF unlink
    <3>4. ASSUME NEW n \in Files PROVE Holds(n)'
      <4>1. Holds(n)
        BY <1>0, FilesHold
      <4>2. CASE n # "demo"
        BY <3>2, <3>3, <4>1, <4>2, HoldsStill
      <4>3. CASE n = "demo"
        BY <3>2, <3>3, <4>3 DEF Holds, Fits
      <4> QED BY <4>2, <4>3
    <3> QED BY <2>0, <3>2, <3>3, <3>4, HoldNext, Contents
  <2>3. CASE rename("demo", "howto")
    <3> DEFINE a == Only("demo", {Absent})  b == Only("howto", MayHold("demo") \ {Absent})
    <3>1. /\ a \in [Files -> SUBSET Content] /\ b \in [Files -> SUBSET Content]
          /\ a["demo"] = {Absent} /\ a["howto"] = {} /\ b["howto"] = MayHold("demo") \ {Absent}
      <4>1. {Absent} \in SUBSET Content /\ MayHold("demo") \ {Absent} \in SUBSET Content
        BY <1>0, <2>0, MayHoldTyped, Singles, Contents
      <4> QED BY <2>0, <4>1, OnlyTyped
    <3>2. meant' = Widened(Instead(a, b)) /\ RenameFile("demo", "howto", Disturbed)
      BY <2>3 DEF rename
    <3> HIDE DEF a, b
    <3>3. Instead(a, b)["demo"] = {Absent} /\ Instead(a, b)["howto"] = MayHold("demo") \ {Absent}
      <4>1. \A n \in Files : Instead(a, b)[n] = IF a[n] # {} THEN a[n] ELSE b[n]
        BY <3>1, InsteadTyped
      <4> QED BY <2>0, <3>1, <4>1
    <3>4. \A n \in Files : meant'[n] = meant[n] \cup Instead(a, b)[n]
      BY <3>2 DEF Widened
    <3>5. (\A n \in Files : meant[n] \subseteq meant'[n]) /\ Absent \in meant'["demo"]
          /\ MayHold("demo") \ {Absent} \subseteq meant'["howto"]
      BY <2>0, <3>3, <3>4
    <3>6. FilesAsMeant'
      BY <1>0, <2>0, <3>2, <3>5, MovedFiles, Contents
    <3>7. \A m \in Files : files'[m] = IF m = "demo" THEN Absent ELSE IF m = "howto" THEN files["demo"] ELSE files[m]
      BY <2>0, <3>2, RenameFiles
    <3> QED BY <2>0, <3>5, <3>6, <3>7, Contents
  <2>4. ASSUME NEW fd \in Slots, FdClose(fd)
        PROVE  /\ FilesAsMeant' /\ \A n \in Files : meant[n] \subseteq meant'[n]
               /\ \A n \in Sized : files'[n] = files[n]
    <3> DEFINE f == fds[fd]
    <3>1. f \in Handles /\ f.name \in UserFiles /\ f.name \in Files
      BY <1>0, <2>4, Contents DEF FdClose, Held, Calm, Handling
    <3>2. /\ meant' = [meant EXCEPT ![f.name] = @ \cup {f.data}]
          /\ (files' = Committed(f) /\ hollow' = Filled(f)) \/ (files' = files /\ hollow' = hollow)
      BY <2>4 DEF FdClose
    <3>3. \A n \in Files : \/ files'[n] = files[n] /\ (n \in hollow => n \in hollow')
                           \/ f.name = n /\ files'[n] = f.data
      <4>1. FilesOK
        BY <1>0 DEF FilesOK
      <4> QED BY <3>1, <3>2, <4>1, CommittedTyped
    <3> HIDE DEF f
    <3>4. (\A n \in Files : meant[n] \subseteq meant'[n]) /\ f.data \in meant'[f.name]
      BY <1>0, <3>1, <3>2
    <3>5. ASSUME NEW n \in Files PROVE Holds(n)'
      <4>1. Holds(n)
        BY <1>0, FilesHold
      <4>2. CASE files'[n] = files[n] /\ (n \in hollow => n \in hollow')
        BY <3>4, <4>1, <4>2, HoldsStill
      <4>3. CASE f.name = n /\ files'[n] = f.data
        BY <3>4, <4>3 DEF Holds, Fits
      <4> QED BY <3>3, <4>2, <4>3
    <3> QED BY <2>0, <3>1, <3>3, <3>4, <3>5, HoldNext
  <2>5. ASSUME NEW fd \in Slots, NEW d \in Scripts, FdWrite(fd, d)
        PROVE  /\ FilesAsMeant' /\ \A n \in Files : meant[n] \subseteq meant'[n]
               /\ \A n \in Sized : files'[n] = files[n]
    BY <1>0, <2>5 DEF FdWrite, FilesAsMeant
  <2> QED BY <2>1, <2>2, <2>3, <2>4, <2>5 DEF Script
<1>2. FilesSorted'
  BY <1>0, <1>1 DEF FilesSorted, Full
<1>3. ASSUME NEW u \in Threads PROVE Written(u)'
  <2>1. Written(u) /\ ~Sole(u)' /\ Watches(u)
    BY SoleScript, ScriptIs, WrittenParts DEF FilesInv
  <2> QED BY <1>1, <2>1, BesideWritten DEF Watches
<1> QED BY <1>1, <1>2, <1>3 DEF FilesInv, AllWritten, Written

\* At boot nothing has been done yet.
LEMMA BootWritten == th = Booting => AllWritten
<1> SUFFICES ASSUME th = Booting, NEW u \in Threads PROVE Written(u)
  BY WrittenParts
<1>1. /\ u = "main" => th[u].op = "boot" /\ th[u].todo = BootPlan /\ th[u].file = NoFile
      /\ u # "main" => th[u].op = "none" /\ th[u].todo = <<>> /\ th[u].file = NoFile
  BY BootCalls
<1>2. /\ Len(BootPlan) = 5 /\ BootPlan[1].do = "init" /\ BootPlan[2].do = "set" /\ BootPlan[3].do = "default"
      /\ BootPlan[4].do = "default" /\ BootPlan[5].do = "loadName"
      /\ BootPlan[3].name = "demo" /\ BootPlan[4].name = "howto" /\ BootPlan[5].name = "name"
  BY BootPlanIs
<1> DEFINE p == BootPlan
<1> HIDE DEF p
<1>3. NoFile.state = "closed" /\ NoFile.name = "none" /\ NoFile.dirty = FALSE /\ "none" \notin Sized
  BY DEF NoFile, Sized
<1>4. CASE u # "main"
  <2>1. th[u].op = "none" /\ th[u].todo = <<>> /\ th[u].file = NoFile
    BY <1>1, <1>4
  <2>2. ~Sole(u) /\ Do(<<>>, 1) = "end" /\ ~Inside(<<>>, 1)
    BY <2>1 DEF Sole, Busy, Do, Inside
  <2>3. Writing(u)
    BY <1>3, <2>1, <2>2 DEF Writing, Next1
  <2>4. Aimed(u) /\ Moving(u) /\ Reached(u) /\ Goals(u)
    BY <2>1, <2>2 DEF Aimed, Moving, Reached, Goals
  <2> QED BY <2>3, <2>4 DEF Written
<1>5. CASE u = "main"
  <2>1. \A n \in Files : th[u].goal[n] = {}
    BY <1>5, NoGoalTyped DEF Booting, NoCall
  <2>2. th[u].todo = p /\ th[u].op = "boot" /\ th[u].file = NoFile
    BY <1>1, <1>5 DEF p
  <2>3. /\ Len(p) = 5 /\ p[1].do = "init" /\ p[2].do = "set" /\ p[3].do = "default"
        /\ p[4].do = "default" /\ p[5].do = "loadName"
        /\ p[3].name \in Files /\ p[4].name \in Files /\ p[5].name \in Files
    BY <1>2, Contents DEF p
  <2>4. Aimed(u) /\ Moving(u)
    BY <2>2, <2>3 DEF Aimed, AimedAt, Ends, Moving, Do
  <2>5. Writing(u)
    BY <1>3, <2>2, <2>3 DEF Writing, Next1, Do, Inside, Inner
  <2>6. Reached(u) /\ Goals(u)
    BY <2>1, <2>2, <2>3 DEF Reached, Goals
  <2> QED BY <2>4, <2>5, <2>6 DEF Written
<1> QED BY <1>4, <1>5

LEMMA BootedWritten == th' = Booting => AllWritten'
<1>1. th' = Booting => (th = Booting)'
  BY DEF Booting
<1>2. (th = Booting)' => AllWritten'
  BY BootWritten, PTL
<1> QED BY <1>1, <1>2

LEMMA FilesInit == Init => FilesInv
<1> SUFFICES ASSUME Init PROVE FilesInv
  OBVIOUS
<1>1. AllWritten
  BY BootWritten DEF Init
<1>2. \A n \in Files : files[n] \in meant[n]
  BY DEF Init
<1>3. \A n \in Sized : files[n] = Absent
  BY DEF Init, Sized, Files, Settings
<1> QED BY <1>1, <1>2, <1>3 DEF FilesInv, FilesAsMeant, FilesSorted

LEMMA FilesNext == Calm /\ FilesInv /\ [Next]_vars => FilesInv'
<1> SUFFICES ASSUME Calm, FilesInv, [Next]_vars PROVE FilesInv'
  OBVIOUS
<1>1. CASE \/ \E t \in {"web", "shell"} : Calls(t)
           \/ Cat \/ Restore \/ Serve \/ Receive
  <2>1. PICK t \in {"web", "shell"} : \E op, steps, goal :
              Begin(t, op, steps, goal) /\ Suits(op, steps, goal) /\ Intends(op, steps, goal)
    BY <1>1, CallMeans
  <2>2. t \in Threads
    BY DEF Threads
  <2> QED BY <2>1, <2>2, BeginFiles
<1>2. ASSUME NEW t \in Threads, Steps(t) PROVE FilesInv'
  BY <1>2, StepFiles
<1>3. CASE Script
  BY <1>3, ScriptFiles
<1>4. CASE Restart
  <2>1. AllWritten'
    BY <1>4, BootedWritten DEF Restart
  <2>2. files' = files /\ meant' = meant /\ hollow' = hollow
    BY <1>4 DEF Restart
  <2> QED BY <2>1, <2>2 DEF FilesInv, FilesSorted, FilesAsMeant
<1>5. CASE UNCHANGED vars
  <2>1. th' = th /\ files' = files /\ meant' = meant /\ hollow' = hollow /\ clash' = clash
    BY <1>5 DEF vars
  <2>2. FilesSorted' /\ FilesAsMeant'
    BY <2>1 DEF FilesInv, FilesSorted, FilesAsMeant
  <2>3. ASSUME NEW u \in Threads PROVE Written(u)'
    <3>1. Written(u)
      BY WrittenParts DEF FilesInv
    <3>2. Aimed(u)' /\ Moving(u)'
      BY <2>1, <3>1 DEF Written, Aimed, Moving, MayHold, Sole, Busy
    <3>3. Writing(u)'
      BY <2>1, <3>1 DEF Written, Writing, Sole, Busy, Next1
    <3>4. Reached(u)' /\ Goals(u)'
      BY <2>1, <3>1 DEF Written, Reached, Goals, Sole, Busy, Next1
    <3> QED BY <3>2, <3>3, <3>4 DEF Written
  <2> QED BY <2>2, <2>3 DEF FilesInv, AllWritten, Written
<1> QED BY <1>1, <1>2, <1>3, <1>4, <1>5 DEF Next

-----------------------------------------------------------------------------
(* The theorems. *)

\* What every step keeps: the calls are in order, the mounting state is what it is
\* noted as, a boot or a format by itself has the default files in hand, and what is
\* written, and what is left to write, was meant by some call.
IInv == InvWild /\ AllDefaulting /\ FilesInv

\* The inductive invariant, through calls, scripts, failures and restarts.
THEOREM Inductive == Spec => []IInv
<1>1. Init => IInv
  BY InvWildInit, DefaultingInit, FilesInit DEF IInv
<1>2. IInv /\ [Next]_vars => IInv'
  <2>1. ASSUME IInv, [Next]_vars PROVE IInv'
    <3>1. InvWild' /\ AllDefaulting'
      BY <2>1, InvWildNext, DefaultingNext DEF IInv
    <3>2. Calm
      BY <2>1 DEF IInv, InvWild
    <3>3. FilesInv'
      BY <2>1, <3>2, FilesNext DEF IInv
    <3> QED BY <3>1, <3>3 DEF IInv
  <2> QED BY <2>1
<1> QED BY <1>1, <1>2, PTL DEF Spec

\* Files, steps, open files and the goals of calls are what they are meant to be, for
\* any contents, descriptors and number of calls, failures and restarts.
THEOREM TypeCorrect == Spec => []TypeOK
<1>1. IInv => TypeOK
  BY DEF IInv, InvWild, Calm
<1> QED BY Inductive, <1>1, PTL

\* A file system is used after it has gone, or formatted while it is mounted, only
\* once fs_manager_format has overlapped another call or found a file open.
THEOREM OnlyClashesProved == Spec => []OnlyClashesWild
<1>1. IInv => OnlyClashesWild
  BY DEF IInv, InvWild
<1> QED BY Inductive, <1>1, PTL

\* is_mounted tells of a file system that is there, and a boot or a format that met
\* no failure and no other call leaves both default files.
THEOREM FileSystemReadyProved == Spec => []FileSystemReady
<1>1. IInv => FileSystemReady
  BY ReadyFrom DEF IInv
<1> QED BY Inductive, <1>1, PTL

\* A file holds what a call has put there undisturbed or what a call since then was to
\* put there, or nothing at all from when a call or a script creates it until one fills
\* or removes it: never a mixture, nor a part of a content other than of an upload that
\* has broken off, through any interleaving of calls and scripts, failures and restarts.
\* An access point name may have the end of an older one behind it.
THEOREM FilesProved == Spec => []FilesAsMeant
<1>1. IInv => FilesAsMeant
  BY DEF IInv, FilesInv
<1> QED BY Inductive, <1>1, PTL

============================================================================
