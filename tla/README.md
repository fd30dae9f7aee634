# ESPirate in TLA+

A verification development for ESPirate, the Lua-scriptable bus probe for ESP32-S3 boards
on Zephyr (`src/`). TLA+ modules model its concurrent parts and the Lua interpreter that it
runs scripts with, TLC checks them on small instances, and TLAPS proves theorems about the
job queue, the manager, their composition, the telemetry, the Wi-Fi manager and the pins for every
value of the constants.

Contents: 1 the system · 2 the modules · 3 what the runs check · 4 fairness and scheduling ·
5 what is proved · 6 disagreements between code and documents · 7 what is not modelled ·
8 plan.

## 1 The system

The firmware runs on one processor core. Its threads, by Zephyr priority (a smaller number
goes first):

| thread | priority | blocks in |
|---|---|---|
| system work queue, network event thread (Wi-Fi retry, watchdog, events) | cooperative | `k_msleep`, waiting for work |
| web server (`web_server.c`, a single thread, one request at a time) | 6 | `accept`, `recv`, the wait for a script |
| Lua worker (`lua_worker.c`) | 7 | the empty job queue, `sys.sleep` in a script |
| shell (`shell_commands.c`) | 14 | the terminal, the wait for a script |

| component | state | operations | talks to |
|---|---|---|---|
| Lua worker, `lua_worker.c` | message queue of 8 jobs, `worker_busy`, the job in hand; in each caller's stack frame a semaphore and a result slot | `lua_worker_eval`, `_eval_file`, `_reset`, `_submit_async`, `_interrupt`, thread loop | callers through the queue and *pointers into their frames*; manager by calls |
| Lua manager, `lua_manager.c` | `L`, `lua_lock`, `s_interrupted`, the VM's hook | `eval`, `eval_file`, `reset`, `interrupt`, `get_memory_kb` | worker calls it; shell and web server interrupt it from their own threads, without the lock |
| Telemetry, `lua_manager.c` | `s_telemetry`, a recursive mutex | `telemetry.set/inc/get` for scripts, `espirate_telemetry_get/_reset` | scripts on the worker; web server and shell |
| Lua bindings, `lua_gpio.c` | none of its own | argument conversion; `sys.sleep`/`sys.usleep` in chunks that look at `s_interrupted` | hardware components, manager |
| Shell, `shell_commands.c` | Ctrl+C in the terminal's buffer | `lua`, `lua run/bg/reset/stop`, `telemetry`, hardware and Wi-Fi commands | all others |
| Web server, `web_server.c` | connections, the request it serves, nested requests in the wait for a script | REST interface, dashboard | all others |
| Wi-Fi manager, `wifi_manager.c` | active mode, connecting/connected/pending flags, retry count, two delayable works, credentials, configured mode | set mode, set/forget credentials, rename the AP, retry work, watchdog, driver and address events | driver, DHCP client, settings files |
| Settings files, `wifi_manager.c` | four small files | load, save | flash file system |
| PWM channels, `hw_pwm.c` | 8 channels on 4 timers | set, stop | GPIO matrix; shell, scripts, web |
| GPIO, `hw_gpio.c` | flags of each pin and the signal routed to it, as the driver has them and on record | configure, write, route, detach, safety check | shell, scripts, web |
| I2C, SPI, `hw_i2c.c`, `hw_spi.c` | pin numbers of the bus | bit-banged transfers | GPIO |
| File descriptors, `posix_stubs.c` | table of open files for Lua `io` | open, read, write, close | flash file system |
| Flash file system, `fs_manager.c` | `is_mounted` | mount, format, default scripts | LittleFS |
| Lua compiler, `lparser.c`, `lcode.c` | the function being compiled: code, constants, registers, blocks, labels, open jumps | one rule per construct of the grammar; code for expressions, conditions, assignments | the virtual machine, through the prototype |
| Lua virtual machine, `lvm.c`, `ldo.c`, `lfunc.c`, `ltm.c` | stacks and frames of each coroutine, open upvalues, variables to close | one action per group of instructions; call, return, throw, resume, yield, close | tables, collector, C functions |
| Lua tables, `ltable.c` | array part, hash part, length hint | read, assign, rehash, length, traverse | virtual machine, collector |
| Lua collector, `lgc.c` | phase, colours, ages, lists of objects, open upvalues | steps, minor and full collections, barriers, finalizers, closing the state | the program, between any two steps |
| Captive DNS, `captive_dns.c` | an enable flag | answer every name with the AP's address | Wi-Fi manager |

Hard behaviours, and the properties they call for:

* **Answers through stack frames.** A job points to a semaphore and a result in the frame of
  its caller. Nothing may be written there after the caller has left; every caller that waits
  must be answered once. Puts that time out just as a slot becomes free, a full queue and
  background jobs without a frame make this delicate (*NoDanglingFrame*, *OneAnswerComing*,
  *ImplementsService*).
* **Stopping a script.** A stop is three unlocked steps (flag, hook, wake) against a job start
  that clears flag and hook in two others, sleeps that look at the flag, scripts that catch
  errors, and a VM that may be closed meanwhile (*NoStaleStop*, *InterruptedMeansStopped*,
  *InterruptedCallsStopped*, *StopEndsScript*; *HooksOnlyLiveVM* is not kept, section 6).
* **One web server thread.** It waits for scripts and serves other requests while it does
  (*EveryCallReturns*, *StopFreesCaller*; what is missing is in section 6).
* **Longjmp under a mutex.** Errors of `telemetry.set` and `telemetry.get`, for a bad argument or for want
  of memory, leave by `longjmp` (*ServedUnlessLeaked*, *ImplementsCounters*).
* **Wi-Fi flags without a lock.** Four threads write the same flags and sleep between steps,
  while events arrive late (*PendingMeansScheduled*, *ConnectedIsReal*, *SearchEnds*).
* **A bus with a mind of its own.** An I2C target reacts to edges, stretches the clock, and may be
  left in the middle of a transfer by a restart of the chip (*CallsDeliver*, *BusLeftFree*,
  *RecoveryFreesReader*).
* **One file system, many users.** Web server, shell and scripts write, delete and format without a lock of
  their own; settings are written over in place; an operation fails, a connection breaks off or the chip restarts
  between any two steps (*FilesAsMeant*, *FileSystemReady*, *OnlyClashesWild*).
* **Pins shared by three threads.** A channel is searched and then claimed, a pin configured and then
  recorded, and a thread that preempts another does all of its call in between (*PwmAsOnRecord*, *RecordsTrue*).
* **A compiler that saves every register it can.** Registers, constants, immediate operands, jump lists, copies before
  a conflicting assignment, the CLOSE of a block that a goto leaves: each choice depends on the expressions around it
  (*RunsAsWritten*, *AssertsHold*).
* **Leaving a block.** An end, a break, a goto, a return, an error, a stop or the closing of a coroutine must run each
  closing method once, in order, and close each upvalue before its slot is used again (*ClosedOnce*, *UpvaluesAlive*).
* **A table that moves its own nodes.** Colliding keys move others, dead keys stay in their chains, a rehash moves keys between
  the parts, and memory may run out (*TableIsMap*, *TraversalComplete*, *LengthIsBorder*).
* **A collector that never stops the program.** Between two of its steps the program changes the objects it has looked at,
  a finalizer revives its object, an emergency collection comes in the middle of an allocation (*NothingLost*,
  *Tricolour*, *GarbageGoes*, *FinalizersRun*, *FinalizedWhenUnreachable*).

`PROJECT.json` lists the hazards at their source lines. Some of them do go wrong in this code: no property forbids these, and the
note of each says so; they are told in section 6.

## 2 The modules

| module | models |
|---|---|
| `JobService` | abstract: requests are accepted or refused, run first come first served, each answered once |
| `LuaWorker` | the job queue, the worker's loop, the calls of its clients; implements `JobService` |
| `LuaWorker_proofs` | theorems about `LuaWorker` |
| `LuaManager` | VM, lock, stop flag, stop hook, sleeping scripts, resets, stoppers, memory reader |
| `LuaRuntime` | composes `LuaWorker` and `LuaManager` with shell and web server |
| `LuaRuntime_proofs` | theorems about `LuaRuntime` |
| `Counters` | abstract: a struct that is updated and read in one piece |
| `Telemetry` | the telemetry calls, field by field under the recursive mutex; implements `Counters` |
| `Telemetry_proofs` | theorems about `Telemetry` |
| `WifiManager` | mode switching, retries, watchdog, driver events |
| `WifiManager_proofs` | theorems about `WifiManager` |
| `I2cBus` | the bit-banged I2C master, line by line, and a target; chip restarts |
| `I2cBus_proofs` | theorems about `I2cBus` |
| `Storage` | mounting and formatting, files, uploads, settings files, the descriptors of scripts; restarts |
| `Storage_proofs` | theorems about `Storage` |
| `Pins` | GPIO flags, output routes and PWM channels as three threads that preempt one another use them |
| `Pins_proofs` | theorems about `Pins` |
| `LuaValues` | values of the Lua interpreter, their arithmetic, comparison and conversion to text and numbers |
| `LuaInstr`, `LuaCode` | instructions, jumps, registers and constants; the code generator |
| `LuaScope`, `LuaParser` | variables, blocks, labels and gotos; the grammar |
| `LuaMatch` | the string library: pattern matching, substitution, the plain functions |
| `PatternMeaning` | reference: the ways in which a pattern matches, in their order, from its syntax tree |
| `LuaVm` | the virtual machine, with calls, errors, coroutines, upvalues and variables to close |
| `LuaMeaning` | reference: what a program means, from its syntax tree, without registers, jumps or frames |
| `MCLuaPrograms`, `MCLuaPatterns` | the programs that `LuaVm` is run on, the patterns that `LuaMatch` is compared on |
| `LuaTable` | the layout of a table: array part, hash part, rehash, length, traversal |
| `Lua_proofs` | theorems about `LuaManager` and `LuaTable` |
| `LuaGc` | the garbage collector and a program that works between its steps |
| `MCxxx` | what TLC is run on; the constants are given in the `.cfg` files |

Operators marked *(mutant of X: ...)* stand for plausible mistakes in X. No specification uses
them; putting one in the place of X makes TLC report a violation of the property it is listed
with in `PROJECT.json`, which shows that the property depends on that code.

**LuaWorker.** `queue` is `lua_worker_msgq`; `wpc`, `job`, `res`, `busy` are the worker thread's
place in its loop, its local job, `job.result` and `worker_busy`. For each client `pc`, `msg`,
`call`, `sem`, `result`, `ret` are the frame of its current call. A job carries its owner and the
owner's call number in place of the two pointers, so that a pointer into a frame that has gone can
be told from one into the frame of the same thread's next call. `Request` is the body of the three
blocking calls up to the put (`K_SECONDS(1)`), `WebRun` the copy of it in `handle_api_run`
(`K_NO_WAIT`), `Background` is `lua_worker_submit_async`. The queue follows Zephyr: a put goes
straight to a pending reader, a get moves a pending writer's message into the slot it frees.
Script text and path are abstracted to the type of the job.

**LuaManager.** The executor's `mpc` walks through `lua_manager_eval` (`look`, `clearFlag`,
`clearHook`, `run`, `unhook`, `report`, `leave`) or `lua_manager_reset` (`look`, `clearFlag`,
`close`, `closing`, `new`, `leave`). `vm` is `L` as a generation number, `live` the generations not
yet being freed. Scripts are abstracted to what a stop can tell apart: they compute (`run`), sleep
(`calling` a sleep, `asleep` in a chunk of it, or `roused` by `k_wakeup`), end or fail by themselves, and either let errors pass
(`plain`), catch them (`guarded`: `pcall` in a loop) or run in a coroutine that has no hook. A
stopper walks `StopFlag`, `StopRead`, `StopArm`, `StopWake`. `reached` and `cut` are history.

**LuaRuntime** instantiates both components over one set of variables. The executor is the worker
between `SetBusy` and `Run`; `Begin` and `End` are the joints, and `End` replaces the free choice of
an outcome in `LuaWorker!Run` by what the manager returns. Clients become stoppers: an idle shell
checks `worker_busy` first, a waiting shell polls for Ctrl+C, an idle web server stops at once, one
that waits for a script serves nested connections. Both look around only when a wait of 50 ms has timed out
(`TimePasses`); the model lets that happen while a script runs or a VM is closed or made, since everything else the
worker does is over in microseconds. `hit` is history: the clients whose latest job a stop has overlapped. The memory reader is left to `LuaManager`. That
the composition takes the manager's own steps is by construction (each action that touches the manager is one of `LuaManager`); finalizers, which
may call `telemetry` while a VM is closed, are not modelled.

**Telemetry.** Each call walks `locking`, `inside`, `idle` or `holding` (a reader with its copy);
`todo` lists the fields it has still to touch. `owner` and `depth` are the recursive mutex. `Wrap`
is where the counters wrap (2^32 in the source). `RaisesError` leaves a call by `longjmp` with the mutex locked: `Careless` scripts give `set` a
bad argument, and where `ShortOfMemory` allows it, `set` and `get` of the status find no memory for a string (`lua_manager.c:124, 161`).

**WifiManager.** `w` holds the manager's static variables, the two timers, the driver as the manager
sees it and the events not yet handled; the functions of the manager are operators from a state to
the set of states they may leave. Steps go from one blocking call to the next: on one core with
cooperative event and work-queue threads, that is where these threads give way. A switch to the access point gives way in `stop_sta_mode`'s wait and
again in the mDNS announcement of `start_ap_mode`, after which `Announced` saves the mode. A user's thread
is preempted at other places too; those finer interleavings are not in the model.

**I2cBus.** A call of `hw_i2c.c` is a `plan`, a sequence of stages (recovery, start, a byte sent or received,
stop), and a stage is a sequence of operations on the two lines, of which each action does the next: `SdaLow`,
`SdaRelease`, `SclLow`, `SclRelease` with its wait for a stretched clock, `ReadSda`. `StageEnds` has the error
paths: without an acknowledgement only the stop is left. The target `dev` is external, written from the I2C
protocol: it sees the wired-and of both sides, may refuse a byte, and may hold the clock after a falling edge.
`Restart` drops the call at any place and lets go of the lines, in either order. `Parsed` is what
`parse_lua_bytes` makes of a script's arguments. `was`, `clean` and `late` are history: what the target was doing
when the call began, whether the recovery got it to rest, whether a stretch outlasted the 10 ms.

**Storage.** A call is a plan too: `th[t].todo` holds the file-system operations that it has still to do, each with
the number of the following ones that are left out when it fails, which is how the code's error paths differ.
`WriteFile`, `Saved`, `UploadFile`, `FormatPlan`, `BootPlan` are the bodies of the functions of the same or a similar name.
LittleFS is external: an operation is atomic (it has a mutex), what is written becomes the file when the file is closed, and
a handle whose file system has been unmounted is stale. `flash` and `files` survive a restart, `mounted` is what the
kernel has, `is_mounted` what `fs_manager.c` believes. Contents are sequences of pieces, so that one can be written over
a longer one. `meant` is history: for each file, the last content that a call has put there without a failure or
another call beside it, and whatever the calls begun since then were to put there; `hollow` are the files that a call has created and none has filled. Once a file system has been used after it
has gone, or formatted while mounted (`wild`), anything may happen and the model stops. Threads follow the
priorities of the build: a thread runs while those above it are idle or wait for their connection, and between a script's
file operations the script is taken to sleep. `index.html` and `favicon.png` are handled as `howto.md` is and the
internet flag as the mode is; they have no files of their own in the model.

**Pins.** `drv`, `mat`, `tim` and `led` are what the hardware does, `flags`, `sig` and `chan` the records of `hw_gpio.c` and
`hw_pwm.c`. A call walks through its writes step by step; a more urgent thread may come between any two of them and is
through with its own call before the other goes on, since no call blocks. The driver may refuse a configuration (`Refused`; it is taken to leave the pin
alone then): `hw_gpio.c` returns without a record, `hw_pwm.c` goes on. `last`, `latest` and `clash` are history: what decided
on a pin last, which pin programmed a timer last, which pins had calls that overlapped.

**The compiler.** `S` is the state of a compilation, and each function of `lparser.c` and `lcode.c` an operator of the same
name from a state to a state; an error ends the compilation. The rules of the grammar call each other through `Parse`. A program
is a sequence of tokens: the scanner is left out. `lua_assert` is kept and falsifies `S.ok`.

**LuaVm.** A program is compiled statement by statement (`CompileStatement`, `CloseMain`; a statement of the main
function is one step with all that it contains), then each action is one instruction, one call, one step of a C function or one step of an
unwinding, by the mode of the state. What `luaV_execute` and `luaD_call` keep in the C stack is kept in the frames, so that a
metamethod that yields, fails or is stopped is finished as `luaV_finishOp` does it, where it was begun from C as well. `Stop` is the
hook of `lua_manager_interrupt`: it raises an error between two instructions, or a stack
overflow when `luaD_hook` finds no room; it may also come between the parts of a generic `for`, where the code has no hook. Tables are maps here and have their layout in
`LuaTable`; library functions are the ones about control (`pcall`, `error`, `setmetatable`, the coroutine library) and
the arithmetic metamethods of strings, and those of `LuaMatch`, which are global functions here. Floats are exact fractions; `IntBits` is the width of integers, which wrap.

**LuaMatch.** A pattern and a subject are strings, a match state the record that `lstrlib.c` passes from function to function; an error
ends the match, and what the code takes back when a way fails (captures, `matchdepth`) is taken back here. `PatternMeaning` knows neither: it
lists all the ways in which the items of a pattern match, best first. `MCLuaPatterns` assumes, and TLC evaluates, that `find`, `match` and
`gsub` take the first of them, for 84 patterns and 5 subjects.

**LuaMeaning** is the specification that `LuaVm` is compared with: a recursive definition over syntax trees in which variables are
cells. It shares `LuaValues` with the machine, and nothing else. Coroutines and stack overflow are beyond it; the programs about
these and about strings say by hand what they show (`GivenPrograms`, `StringPrograms`), and `RefusedBodies` are the ones that break a rule of the language.

**LuaTable.** `table` is the array part, the nodes with their relative links, `lastfree` and the length hint; `map` is what the
program has assigned, the abstract table. Every read, insertion, move of a colliding node, rehash and border search follows
`ltable.c`. `trav` is a traversal, in which fields may be changed and removed.

**LuaGc.** `g` is `global_State` with the objects: colour, age, lists, contents. The actions of the collector are `singlestep` and the
collections of the generational mode, emergency and full ones included, with the asserts of `lgc.c` and `checkliveness` of each value that is marked; the program's are creation, stores with their barriers, open and
closed upvalues, coroutines, `setmetatable` with a finalizer, and what a finalizer does. `doomed` and `armed` are history: the garbage
at the start of a cycle, the objects whose finalizer has yet to run.

## 3 What the runs check

| run | instance | distinct states | shows |
|---|---|---|---|
| `worker` | 2 clients × 2 calls, queue of 1 | 334 688 | no dangling frame; exactly one answer for a call that waits and none for any other; outcomes fit the job; implements `JobService`; every call returns |
| `manager` | 2 stoppers, 1 reader, all kinds of scripts, 2 VMs, every interleaving | 206 946 | VM used under its lock only; no stale stop; `-EINTR` only after a stop; an armed hook ends plain scripts |
| `runtime` | 1 shell, 1 web server, one call each, any number of stops | 868 689 | the composition keeps to `LuaWorker`; `worker_busy` covers all use of the VM; a client is told `-EINTR` only of a job that a stop overlapped |
| `runtime_caller` | 1 web server, two calls, queue of 1 | 18 392 | a stop that has armed its hook frees the request that waits for the script |
| `telemetry` | worker and web server, counters of one bit, bad arguments and want of memory allowed | 173 844 | calls are atomic (implements `Counters`); readers are served unless an error has leaked the mutex |
| `wifi` | 2 users, 2 commands, 3 retries, event queue of 2 | 1 190 631 | a pending retry is scheduled; a shown connection is real or its loss is on the way; a search ends |
| `i2c` | bytes of 2 bits, 2 addresses, up to 2 bytes each way, 1 held clock, restarts | 963 524 | what a call says it did is what the target saw; presence is told right; the bus is left free; nine clocks free a reader; every call returns |
| `storage` | two user files, three settings, one descriptor; at most 2 calls, 1 failure, 1 restart, 3 of them together | 952 572 | a file holds what some call was to leave there and no mixture, or nothing since it was created; the mounted flag tells the truth; defaults are there after boot and format; a file system is misused only where a format overlaps other work |
| `pins` | shell, script and web server, 3 calls, 2 pins, 2 channels on 1 timer, configurations refused at will | 397 310 | for pins whose calls did not overlap, channels, routes and flags are what the records say |
| `gc` | 5 objects in five scenarios, up to 4 operations of the program, both modes | 241 140 | nothing reachable is freed, garbage goes, the finalizer lists hold just the objects whose finalizer has yet to run, none at the close, finalizers wait for unreachable objects, barriers keep the colours, no assertion fails |
| `lua_vm` | about 500 programs, 8-bit integers, 1 stop | 92 872 | each program does what its source means; no assertion fails; every variable is closed once; no upvalue outlives its frame |
| `lua_table` | 9 programs of up to 7 keys, both kinds of hash part, memory refused at any time | 1 221 116 | a table is a map; a traversal is complete; the length is a border |

Two more configurations, `LuaManager_closerace.cfg` and `LuaRuntime_server.cfg`, are kept beside these for the first two
disagreements of section 6: TLC finds their properties violated.

Bounds, and why they are enough:

* `QueueLen = 1` instead of 8, with two clients: a queued job and a writer blocked behind it
  already need two owners besides the job in hand, which background jobs supply. A longer queue
  only lengthens the line; the safety properties and the refinement are *proved* for every length,
  every set of clients and every `MaxCalls`.
* `MaxCalls = 2`: a second call of a thread re-uses the frame of its first, which is what a late
  write would hit.
* `MaxGen` bounds resets that succeed; further ones fail with `-ENOMEM`, a case of the code. Two
  generations tell an old pointer from a new one.
* Two stoppers overlap each other and both the end of one job and the start of the next; the number
  of jobs and of stops is not bounded.
* `Wrap = 2`: a counter wraps at its second increment. `MaxDepth` bounds how often a leaking mutex is
  taken.
* `MaxRetries` is the source's 3. `MaxCommands = 2` lets two users be in the middle of a command at
  the same time, or one user follow the other. `MaxEvents` is where the *driver* waits before it reports
  more; the manager's own events are never held back. The event queue of Zephyr (16) drops events when
  it is full; this is not modelled.
* `Bits = 2` instead of 8: one address bit and the direction bit in an address byte; a data byte has a first and a last bit. Two bytes
  each way have an acknowledged and a last one. `MaxHolds = 1`: one stretch per call, at any falling edge. Calls follow
  one another and restarts happen without bound.
* In `storage`, two calls of different threads overlap, follow each other or are cut short, and after them one operation
  fails *or* the chip restarts; with one call there are a failure *and* a restart. A plan has at most twelve operations, and a
  failure or a restart may come at each. Longer histories only add calls that find the files as an earlier one
  has left them. Contents have one to three pieces. The first state is a blank chip or one formatted by an older
  firmware, with or without a known size.

* In `pins`, three threads of different priority nest their calls three deep; one timer for two channels stands for four timers
  for eight, two pins for the channels that are free and the ones that are not.
* In `lua_vm`: `OperatorAt` has each of 18 operators between operands of every kind (upvalues that hold a number, a number as text or
  an object with a handler; integers that fit an operand of an instruction and ones that do not, floats with and without integer value,
  a string, `nil`, `true`), `EdgeAt` arithmetic and shifts at the ends of the integers, by zero and with zeros of floats, folded by the
  compiler and computed by the machine; `LogicAt` the combinations of `and`, `or`, `not` and comparisons as values and as conditions;
  `ClosingAt` every way to leave every kind of block, with closing methods that fail and that do not, every ninth of them stopped between
  any two instructions; `Statements` the rest of the grammar. The limits of
  the instruction format are small (`MaxArgC` 15 for 255, `MaxArgBx` 31, `MaxArgVB` 7, `MaxArgVC` 3) so that programs reach them, as they reach
  `MaxVars`, `MaxStack`, `MaxTagLoop` and `MaxCcmt`, and patterns `MaxCcalls` (8 for 200), `MaxCaptures` (4 for 32) and `MaxSize` (12).
* In `lua_table`: lists that grow and shrink, integers in slices of 2^n, keys at both ends of the integers and floats with integer value,
  strings and objects that share a main position, tables made with and without room, and keys that are refused. `LimForLast` is 2 for 3, so
  that hash parts of 4 nodes have a `lastfree` and smaller ones search; `MaxVicinity` is 1 for 4.
* In `gc`: an ephemeron whose key hangs on another, a value with a finalizer in weak tables, a closure on a variable of a coroutine, and an
  empty heap. `SweepMax = 1` sweeps object by object, so that the program comes between any two.

`CHECK_DEADLOCK FALSE` is set where the calls, commands or events are bounded and the system comes to
rest after them, and where a thread may be blocked for ever.

## 4 Fairness and scheduling

* *Worker, executor, event thread, work queue:* weak fairness of their own next steps: a ready thread
  runs in the end. In `LuaRuntime` the worker yields to the web server, so it is not always enabled;
  the web server blocks between two requests and the worker gets the processor again and again: strong
  fairness.
* *Time-outs* (`PutTimeout`, `TimePasses`, retry timer, watchdog, sleeps): weak fairness, Zephyr's clock goes on.
  The watchdog (20 s) never overtakes the retry timer (2 s) set with it.
* *Locks:* strong fairness of taking them. `k_mutex_unlock` hands the mutex to a waiting thread, so nobody
  is passed over for ever.
* *Scripts:* in `LuaManager` and `LuaRuntime` each call of a sleep comes to its end (`SleepEnds`); otherwise nothing:
  scripts may run for ever. In `LuaWorker`, where
  the manager is one step, fairness of `Run` says that the script ends: *EveryCallReturns* is a property of
  the queue, and the scripts that do not end are the subject of `LuaRuntime`.
* *Driver:* nothing. It may never answer.
* *I2C:* weak fairness of the master, nothing of the target: it may hold the clock for ever.
* *Nested connections:* every accepted one sends its request. A silent client is a hazard of its own that is
  listed and not modelled.

`LuaManager` alone has every interleaving of its threads. `LuaRuntime` uses the priorities of the build: web server before worker
before shell. A shell step therefore needs a worker that sleeps or pends. That is an assumption about the
configuration, not about the code; blocking C functions of scripts other than `sys.sleep` count as sleeping.

## 5 What is proved

For `Spec`, without fairness. In `LuaWorker_proofs` the assumptions are: `Nobody` is not a client, `QueueLen` is a
positive and `MaxCalls` a natural number. Clients need not be finite.

| theorem | says |
|---|---|
| `TypeCorrect` | types; the queue never exceeds its length |
| `Inductive` | the inductive invariant `IInv` |
| `FramesSafe` | no result or semaphore is ever written to a frame that has gone |
| `AnswersOnce` | a call waits exactly when one answer to it is coming, from the queue, the worker's hands or its semaphore, and never from two of them; no other call has any |
| `AnswersFit` | a call returns an outcome of its own kind of job, or a refusal |
| `TimeoutsMeanFull` | a put is blocked only in front of a full queue |
| `WorkerImplementsService` | every behaviour is one of `JobService` |

*NoDanglingFrame* is not inductive: that a job in hand names a waiting call says nothing about whether another
job of the same call is queued, or its semaphore already given, and then taking the one answer would let the
frame go with the other still to be written. `IInv` adds that (`JobsApart`) no client has two jobs under way,
that (`SemLast`) a given semaphore is the last thing done for a call, that (`JobsMine`, `FramesBuilt`) a job
is the one its owner's current call built, (`AnswerComing`) that a waiting call has a job or a semaphore, and
what results may be at which place (`ResultsFit`), which the refinement needs for the answer it shows.
Preservation is proved action by action; the queue operations rest on lemmas about `Append` and `Tail`. The
refinement maps the job in hand and the queue to the line of the service, and a client's answer to the
worker's result until it is in the frame, then to the frame.

In the part of `Lua_proofs` about `LuaManager` the assumptions are that scripts are of the three kinds, that `MaxGen` is a positive number and
that no reader is named like the executor or like a free lock. Any sets of stoppers and readers will do.

| theorem | says |
|---|---|
| `TypeCorrect` | types |
| `Inductive` | the inductive invariant `IInv` |
| `LockGuardsVM` | the VM is run, closed, made and measured by the holder of `lua_lock` alone, and is there while it is used |
| `StopsNotStale` | a stop that was over before a job cleared flag and hook never ends that job |
| `InterruptionsReal` | `-EINTR` is returned only for a job that a stop overlapped |

Of the parts of `IInv`, `LockHeld` ties the lock to the executor's place (it holds it from the first look at `L` to the
last), `VMKnown` says that `L` points to the only VM there is except while `lua_close` runs, and `StopsCount` says what
*NoStaleStop* leaves out: between clearing flag and hook and the report, a raised flag, an armed hook, a cut sleep and
every stop that has begun each mark the job as `reached`, whether the stop began before the clearing or after it.
`ToldLast` says that nothing but the report makes a result `-EINTR`. Each part has a lemma that every action keeps it.

In `LuaRuntime_proofs` the assumptions are those of `LuaWorker`. Any clients, web servers, number of calls and queue length will do.

| theorem | says |
|---|---|
| `Inductive` | the inductive invariant `IInv` |
| `BusyProved` | `worker_busy` is set as long as the manager may touch the VM |
| `RuntimeImplementsWorker` | every behaviour of the composition is one of `LuaWorker` |
| `WorkerInvariant` | `IInv` of `LuaWorker_proofs` holds in the composition |
| `InterruptedCallsProved` | a client is told `-EINTR` only of a job that a stop overlapped |

*BusyCoversVM* says where the manager is while the worker is at one place; `IInv` says it for every place (`InStep`: the
worker is in the switch over `job.type` exactly while the manager is in a call, and in the call that the job asks for), and that each of
the manager's calls stays among its own steps and results (`Sided`), so that what it returns is an outcome `LuaWorker!Run` may have.

*InterruptedCallsStopped* follows an `-EINTR` on its way from the stop to the caller. `WorkerInvariant` says that jobs and frames belong together (`Framed`): the job in
hand, a result and a semaphore are those of the owner's current call, so that `hit`, which a call clears as it begins, speaks of that call at each
place. `Told` is the manager's part: a result `-EINTR` means that a stop has `reached` the job. `Carried` says that wherever the outcome is by then, in the worker, in the frame or
returned, an `-EINTR` is one of a client in `hit`.

In `Telemetry_proofs` the assumptions are that the worker is not one of the other threads, that only those reset, that no thread is
named like a free mutex, that `Wrap` and `MaxDepth` are positive, and that `Careless` and `ShortOfMemory` are Boolean. Any set of threads will do, and errors under the mutex are included.

| theorem | says |
|---|---|
| `TypeCorrect` | types; counters stay below `Wrap` |
| `Inductive` | the inductive invariant `IInv` |
| `TelemetryImplementsCounters` | every behaviour is one of `Counters` |

`IInv`: only the thread that owns the mutex is inside (`MutexHeld`); the fields a call has passed and those it has still to touch are
together the ones of its kind, each once (`CallsProceed`); the struct differs from `done`, the abstract one, in the passed fields of the one call
inside, by that call's effect (`StructHalfway`); a reader's copy agrees with `done` in the fields it has passed (`CopiesTrue`). A call that leaves by
`longjmp` has written nothing, so the abstract struct is unchanged while the lock count stays. The abstract step is the unlock.

In `WifiManager_proofs` the assumptions are that `MaxRetries` is positive, `MaxCommands` and `MaxEvents` are natural numbers and `ApMayFail` is a
Boolean. Any set of users will do.

| theorem | says |
|---|---|
| `TypeCorrect` | types; the retry count keeps to its limit |
| `Inductive` | the inductive invariant `IInv` |
| `PendingScheduled` | `s_sta_retry_pending` is set only while the retry work is scheduled |
| `ConnectionsReal` | a connection that shows is real, or the event of its loss is still to be handled |

`IInv` is the types and `Sound`: a pending retry is scheduled, and an address or a connection that shows has its link or an event of its loss. It says nothing else
of timers, modes and the other flags. *ConnectedIsReal* alone is not inductive: the connection is shown on the strength of an address that is looked up when its event is handled,
later than the event was put. `Sound` says the same of the address itself. No relation between the places of the work queue, the users and the flags is needed: each function of the manager
keeps `Sound` from whatever state it is called in, which is why the missing lock does no harm to these two properties.

In `Pins_proofs` the assumptions are that threads are numbers (their priorities), that there are channels and timers, and that `MaxCalls` is a
natural number. Pins may be any set.

| theorem | says |
|---|---|
| `TypeCorrect` | types |
| `Inductive` | the inductive invariant `IInv` |
| `PwmProved` | between calls, a pin whose calls never overlapped is as `hw_pwm_set` or `hw_pwm_stop` has left it |
| `RecordsProved` | between calls, flags and signal on record are the hardware's for such a pin |

`IInv` has `Kept(p)` for each pin that is not in `clash`: what each call has done so far on the pin (`InSet`, `InStop`), what holds while no
call has begun to change it (`AsSet`, `AsStopped`, `Routed`), the record of the flags one step behind the driver (`FlagsFollow`), and that its channel
belongs to no other pin's call (`OneChannel`, `OwnChannel`). `Apart` says that two calls under way that touch the same pin or may touch the same
channel have both pins in `clash`. A step of a call about another pin (`ElsewhereKeeps`) leaves all this alone because it neither gives nor takes the pin's
channel; a step of a call about this pin (`HereKeeps`) finds what the step before has left. That threads nest by priority is not used.

In `Storage_proofs` the assumption is that of the model (`StorageAssumption`): contents are sequences of pieces, what is written as a whole is not
empty, the encrypted records have one length, an upload has two pieces, and the bounds are natural numbers. Contents, descriptors and bounds are any.

| theorem | says |
|---|---|
| `TypeCorrect` | types |
| `Inductive` | the inductive invariant `IInv` |
| `OnlyClashesProved` | a file system that has gone is used, or a mounted one formatted, only once a format has overlapped another call or found a file open |
| `FileSystemReadyProved` | `is_mounted` tells of a file system that is there; a boot or format that met no failure and no other call leaves the default files |
| `FilesProved` | a file holds what a call has put there undisturbed, or what a call since then was to put there, or nothing if it was created and not filled since: no mixture, and no piece of a content but of an upload that has broken off |

A call may be anywhere in any plan, and a failure may cut out steps of it, so `IInv` speaks of what is left of the plans. `Laid` says how steps lie to one another
(a step that needs an open file comes after one that opens it, or follows such a one; what is left out at a failure ends outside; the steps that make a
file system come first, in the code's order); every plan is laid like that (`WriteFileLaid`, `SavedLaid`, ...), and stays so when its head is taken, skipped
or replaced by the plan of a file to write. With it a call has an open file exactly while its next step needs one (`Handling`), handles and descriptors are stale only after a
clash, and a call that began alone stays the only one (`Single`): nobody above it has begun, no script has a descriptor. *MountedIsReal* is not inductive, since
between `fs_mount` and `is_mounted = true` there are steps, and `fs_manager_init` may set the flag after a failed mount: `Ordered` says what
is mounted and noted before each step of a boot or format, that one thread at most is about to set the flag (`OneNotes`), and that a file system that is mounted without it
has someone about to set it (`Noting`). For the default files, `Defaulting` says that a boot or format that was alone and met no failure has each file
either on flash or among the names still in its plan, and that what it is about to close is the whole content.

*FilesAsMeant* says nothing of the writes under way, and `AllWritten` does, for each call: what its remaining steps write, remove or rename to is among
what the file may hold and what the call is for (`Aimed`); a handle holds what has been written so far, so that a dirty one that is closed has the whole
(`Writing`, in one piece or, for uploads, two); a rename by a call that is alone is for all that the old name may hold (`Moving`); a call that is alone has
brought each file that its plan no longer touches to what it is for (`Reached`), which is what lets `Return` narrow `meant` to the call's own goal; and
a boot or format is for the default files just when it makes them (`Goals`). The settings are opened without truncation: a mode or an encrypted record
overwrites one of the same length (`FilesSorted`), an access point name may leave the end of a longer one behind, and the property says so. The set
`meant` only grows until a call returns that was alone and met no failure, so one call's step does not disturb what is said of another's (`BesideWritten`).

In `I2cBus_proofs` the assumptions are those of the model: a byte has at least two bits, the target's address and those probed are addresses,
payloads are sequences of bytes, the lengths read are positive (`hw_i2c_read` and `hw_i2c_write_read` refuse 0). The width of a byte, the payloads and
lengths, the list of a scan (the target's address may be in it several times, or not at all), the target's replies and how often it holds the
clock are any.

| theorem | says |
|---|---|
| `TypeCorrect` | types; no stage reads more than a byte |
| `Inductive` | the inductive invariant `IInv` |
| `DeliveryProved` | what a call reports is what the target has seen: bytes taken and sent, addresses found, `-ENODEV` |
| `BusFreeProved` | after a call both lines are let go and the target is at rest |
| `RecoveryProved` | a target that was in the middle of sending is at rest after the recovery |

The runs look at a call that is over; `IInv` says where it is at every operation (`At`) of every stage (`Begun`). `InPlan`: a call follows its
plan until it fails, and then only stops. `Well`: while it has not failed, the target is where the stage has brought it (`InStart`, `InStop`, `InSend`, `InReceive`: which
bits it has taken or sent, what is on the line, what has been read), it has taken what the plan has sent up to here (`Sent`), and the call has received and found what
the plan has asked for (`Kept`). Between stages the next one is `Ready`. That each stage leaves the next one ready is a fact about plans: the lemmas
`WritePlaced`, `ReadPlaced`, `WriteReadPlaced` and `ScanPlaced` say what may follow each stage of each plan, and `PlanIs` what a whole plan adds up to. An operation
on a line is taken to an edge (`Edge`) and looked at once for each kind of stage, wherever in whichever call the stage is; the target may let go of the clock before any of them
(`ReleaseKeepsSend`, ...). `Freed` is about calls that find the target in the middle of a byte: `Left` counts the falls of the clock until it lets SDA go, at most `Bits`
+ 1 of them, and each clock of the recovery takes one. `Raised` is what lets the first start be sent: the recovery's stop has let both lines go. Calls that begin with
a target in the acknowledgement of a write, or that time out on a stretch, are in the model and outside these properties (section 7).

In the part of `Lua_proofs` about `LuaTable` the specification is `TableSpec` and the assumptions are those of the model: sizes are natural numbers, the
greatest array (`MaxASize`) is less than the greatest integer by two at least, and keys are Lua's: integers of the range, floats, strings and objects with
natural hash values, Booleans, nil and NaN. The hash functions, the programs (the keys they use, the sizes their tables are made with), the random seeds of the
border search, its vicinity and the size from which a hash part has a `lastfree` are any.

| theorem | says |
|---|---|
| `TableInductive` | the inductive invariant `TableInv` |
| `TableHoldsMap` | every read gives what the program has last assigned to the key |
| `TraversalGivesAll` | a traversal gives no field twice, and at its end every field that is still there |
| `LengthAlwaysBorder` | the length is a border: `t[n]` has a value or `n` is 0, and `t[n + 1]` has none or `n` is the greatest integer |

*TableIsMap* is not inductive: a table may read as the map does while its chains are such that the next insertion loses a key. `GoodTable` says that they are not. Links stay in the
hash part and no two nodes have the same next one (`Linked`); every node is reached from the main position of its key, dead or not (`Headed`); a
live key is in one node (`Single`); and a number can be given to each node that grows along the chains, so that each search ends, and from the node of a live key to those
where the same key is dead, so that `next` finds the live one first (`Ordered`). All nodes from `lastfree` on are used, no key of the array's
range is in the hash part (`Apart`), and the length hint is a place of the array. `Agrees` has the reads of all keys, also of those
the program does not use; `Travels` says that a traversal under way has given just the fields with a value up to the place of its key.

An insertion takes the main position, a free node, or moves a colliding node: each keeps the chains and changes one read (`InsertKeyOK`). In a rehash a table of the new
sizes takes over the old entries one by one. That none is refused needs that the counts by slices of 2^n suffice: `RehashCounts` and `HasRoom` say that
the nodes are as many as the keys the array does not take, and `Fresh`, that the nodes in use are those of keys already moved, so that one is free for each key still to come and `getfreepos` does not
fail in the middle. `ResizeOK` puts this together. An assignment to a key that is there, and a collection, which turns keys without value into dead ones, leave all nodes where they are
(`ChangesOK`), so the traversal finds its place again. For the length, `BisectOK` and `SearchFromOK` follow the vicinity of the hint, the binary search and the doubling, up to the greatest integer. The loops of `ltable.c` are
recursive functions here; that a loop keeps something is shown by a set of natural numbers that has 0 and with each number the next (`StepByStep`), since the provers
cannot take the library's induction rule.

Only model-checked: every liveness property (fairness and `ENABLED` are out of the prover's reach), *CallReturns* of `I2cBus` among them; and the rest of the interpreter:
*AssertsHold*, *NothingLost*, *Tricolour*, *GarbageGoes* and *FinalizersRun* of `LuaGc`, *RunsAsWritten*, *AssertsHold*, *ClosedOnce* and *UpvaluesAlive* of `LuaVm`. What
these modules do is written with recursive operators (marking and sweeping of any heap, compilation and meaning of any syntax tree), which take the SMT prover
away; and that a program runs as written is an induction over its syntax. Each *TypeOK* named above and *BlockedOnlyWhenFull* of `LuaWorker` are proved and no longer part of a run.

## 6 Disagreements between code and documents

Each was found by TLC as a violation of the definition named. No run of `PROJECT.json` lists them any more; the definitions are
kept in their modules, and the first two have a configuration.

1. *HooksOnlyLiveVM* in `LuaManager` (`LuaManager_closerace.cfg`): `lua_manager_interrupt` tests `L` and sets the hook without the lock, while
   `lua_manager_reset` is in `lua_close(L)`, with `L` still set.
2. *ServerComesBack* in `LuaRuntime` (`LuaRuntime_server.cfg`): `POST /api/reset` behind an endless script blocks the only web thread for good.
3. *NoConnectInAp* in `WifiManager`: the retry work sleeps between its check and its connect request; a switch to AP in between is
   followed by a station connect.
4. *ScriptsWriteBytes* in `I2cBus`: `parse_lua_bytes` takes numbers for strings, since `lua_isstring` does; `i2c.write(bus, addr, 0x00, 0xAF)` sends the
   digit `0`.

Met while modelling, without a run: two threads that save a setting at once set the variable and write the file without a
lock, and may leave them different until the next boot; the disconnect that a Wi-Fi retry itself asks for is counted as another failure
(`wifi_manager.c:421`); a bad value given to `telemetry.set` leaves the mutex locked by the `longjmp` of the
argument error (`lua_manager.c:123`), and so does a memory error of `lua_pushstring` in `telemetry.get("status")` (`lua_manager.c:161`) or of
`luaL_checkstring` in `telemetry.set("status", n)` with a number: every later reader blocks for good, the web server among them (*ServedUnlessLeaked* says
that these are the only ways); a restart or a failure between the creation of a file and its first write leaves it empty, and an
empty `demo.lua` is never made good, since `fs_manager_create_default_files` looks only whether there is one (*FilesAsMeant*, *DefaultsThere* except it); a format while a script, a download or an upload has a file open leaves stale handles, and one of the
web server inside one of the shell makes the shell format a mounted file system, while `doc/howto.md:177` has the
partition formatted "at any time" (*OnlyClashesWild*); `is_mounted` is set even when the reformat at boot
has failed (`fs_manager.c:257`); the results of `fs_close` are ignored, so that a write is reported as done with nothing stored; an
upload that breaks off is kept as far as it came and answered with 200; a shorter access point name saved over a longer one keeps its tail
(`wifi_manager.c:305`); a boot that does not detect the size of the chip after one that did, or the reverse, formats
the partition; `restore_all` promises `demo.lua`, which it does not restore (`fs_manager.h:116`); the stop hook disarms itself before it raises an ordinary error, so a loop around `pcall`
goes on, as does one in a coroutine made before the stop; a stop names no job, and one that the waiting web server serves
while its own script is still queued reaches another script or none, while the awaited script clears flag and hook as it
starts; a stop whose flag is cleared by a starting job and whose hook comes after ends
that job as a plain error and not as INTERRUPTED; Ctrl+C is not read while a script computes without sleeping
(shell 14, worker 7); `handle_api_run` words its answer from the flag and not from the result
(`web_server.c:762`); `telemetry.inc` ignores the keys `"passed"` and `"failed"`, and there is no
`telemetry.reset`, which `doc/howto.md` uses; when the access point cannot be enabled after a fallback, the device is
off the air until a user acts; credentials forgotten in the middle of a switch to station mode leave neither mode
running; an I2C target that a restart left in the acknowledgement of a *write* is in its next acknowledgement after nine
clocks and holds SDA through the stop; callers of `i2c_scl_release` ignore its time-out, so a transfer goes on out of step and
may return 0; `hw_i2c.c` has no lock, and a web request in the middle of a script's transfer uses the same pins; I2C addresses above
0x7F lose their top bit.

## 7 What is not modelled

Script contents, printing and the wording of answers; the 511-byte truncation of scripts; the DHCP server, client
count, scans (with the restart of the access point at their end), mDNS and captive DNS packets; the
arguments of the hardware endpoints of the web server; the dashboard; register windows of `setjmp.S`; the panic of Lua when memory runs
out while the libraries of a new VM are opened. SPI is a straight sequence of pin writes without state. Of pins: levels, drive strength,
input signals and the pins the safety check refuses. Of storage: directories, listing
and statistics, a full flash other than as a write that fails, and reading a setting back, which changes no file. `PROJECT.json` has a line on each.

Of the interpreter: the scanner, binary chunks, line and variable information (of an error message, the value's type and the operation
remain), the limit on nested C calls, hooks other than the stop, `xpcall`, of the string library what is not in `LuaMatch` (`format`, `gmatch`, `pack`, `byte`, `char`, `dump`, a function or table given to `gsub`), and the table, math, io and os libraries. In `LuaVm`
memory does not run out; in `LuaTable` there are no weak tables, external strings, metamethods
or tables beyond the greatest size; the asserts that `LuaVm` leaves out are about what it leaves out too (flags of a frame, resizing of the stack, names of variables); that
finalizers run *in the end* before the state is closed is not stated, since nothing obliges a program to collect; in `LuaGc` a table has one entry, sizes and pacing are free choices, and prototypes, userdata, fixed
objects, metatables and the fast path of `luaC_step` are left out, as are emergency collections while the state closes.
The compiler and the machine were compared with the bytecode and the output of a build of `src/lua` on some 1500 programs, without a
difference; that comparison is not part of the project.

## 8 Plan

Done, in this order: `LuaWorker`, `JobService`, `LuaWorker_proofs`; `LuaManager` and the proofs about it; `LuaRuntime`; `Counters`, `Telemetry`;
`WifiManager`; `I2cBus`; `Storage`; `Pins`; the proofs about `LuaRuntime`, `Telemetry`, `WifiManager`, `Pins`, `Storage` and `I2cBus`; `LuaGc`; `LuaValues`, the compiler, `LuaVm` and `LuaMeaning`; `LuaTable`; `LuaMatch`; the proofs about `LuaTable`. Next:

1. `next` and the length of `LuaTable` in `LuaVm`.
2. `Storage`: a descriptor for every script call of `io`, directories.
3. Proofs: the collector of `LuaGc`, with its recursive operators written as functions.

New runs take the place of the least telling of the ones there are, section 6 keeps the account of the disagreements.
