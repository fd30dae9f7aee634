------------------------------- MODULE Storage -------------------------------
(***************************************************************************)
(* The flash file system and those who use it: mounting and formatting     *)
(* (src/src/fs_manager.c), the settings files (src/src/wifi_manager.c),    *)
(* the files that scripts hold open (src/src/posix_stubs.c).               *)
(*                                                                         *)
(* A call is a plan, a sequence of file-system operations, each of them    *)
(* atomic and each of them able to fail.  The file system is external, as  *)
(* LittleFS is: what is written becomes part of the file when the file is  *)
(* closed, all of it or nothing.  Connections may break off in uploads and *)
(* the chip may restart between any two operations.                        *)
(***************************************************************************)
EXTENDS Naturals, Sequences, SequencesExt, TLC

CONSTANTS
    Pieces,       \* what contents are made of
    Absent,       \* the content of a file that is not there
    Demo, Howto,  \* what the firmware has for /lfs/demo.lua and /lfs/howto.md
    Scripts,      \* what users write into their files
    Upload,       \* a file that is uploaded in two pieces
    Names,        \* the names that users give the access point
    OldName, DefaultName,  \* its default names, of old and now
    Records,      \* credentials, as records of one length
    Slots,        \* descriptors for the files of scripts: 13 in the source
    MaxCalls,     \* bound on the calls of users and scripts
    MaxFaults,    \* bound on the operations that fail though they could succeed
    MaxRestarts,  \* bound on the restarts
    MaxTogether   \* bound on the three of them together

UserFiles == {"demo", "howto"}
Settings == {"mode", "sta", "name"}
Files == UserFiles \cup Settings
Modes == {<<"AP">>, <<"STA">>}

Text == Seq(Pieces)
Content == {Absent} \cup Text

ASSUME StorageAssumption ==
    /\ {"AP", "STA"} \subseteq Pieces
    /\ Absent \notin Text /\ {Demo, Howto, OldName, DefaultName, Upload} \subseteq Text
    /\ Scripts \cup Names \cup Records \subseteq Text
    /\ \A c \in Scripts \cup Names \cup Records \cup {Demo, Howto, OldName, DefaultName} : Len(c) > 0
    /\ \A r, s \in Records : Len(r) = Len(s)
    /\ Len(Upload) = 2 /\ MaxCalls \in Nat /\ MaxFaults \in Nat /\ MaxRestarts \in Nat
    /\ MaxTogether \in Nat

\* main boots the device; the web server and the shell make calls; a thread runs
\* while those above it have nothing to do or wait for a connection.
Threads == {"main", "web", "shell"}
Above == [main |-> {}, web |-> {"main"}, script |-> {"main", "web"},
          shell |-> {"main", "web", "script"}]

VARIABLES
    flash,       \* whether it holds a file system, and one of which size
    files,       \* what is in it
    mounted,     \* (external) whether the kernel has it mounted
    is_mounted,  \* what fs_manager.c has noted of that
    part,        \* the size of the partition as detected at boot, or "unknown"
    th,          \* each thread's call
    fds,         \* the files that scripts have open
    calls, faults, restarts,  \* counters, up to their bounds
    meant,       \* (history) what each file may hold: the last content that a call has
                 \* put there undisturbed, and those of the calls since then
    hollow,      \* (history) files that have been created and not been filled since
    clash,       \* (history) a format has overlapped another call or an open file
    stranded,    \* (history) reformatting at boot has failed
    wild         \* (history) a file was used after its file system had gone

counters == <<calls, faults, restarts>>
Room == calls + faults + restarts < MaxTogether
vars == <<flash, files, mounted, is_mounted, part, th, fds, counters,
          meant, hollow, clash, stranded, wild>>

-----------------------------------------------------------------------------
(* Plans.  Each step says how many of the following ones are left out when it *)
(* fails.                                                                     *)

Step(do, name, data, skip) == [do |-> do, name |-> name, data |-> data, skip |-> skip]
Check(skip) == Step("check", "none", <<>>, skip)

\* Over the old content, byte by byte.
Overlaid(new, old) == new \o SubSeq(old, Len(new) + 1, Len(old))

\* (mutant of WriteFile: the file is not truncated)
WriteFileOver(n, data) ==
    <<Check(3), Step("open", n, data, 2), Step("write", n, data, 0), Step("close", n, data, 0)>>

WriteFile(n, data) ==
    <<Check(3), Step("truncate", n, data, 2), Step("write", n, data, 0), Step("close", n, data, 0)>>
ReadFile(n) ==
    <<Check(3), Step("look", n, <<>>, 2), Step("read", n, <<>>, 0), Step("close", n, <<>>, 0)>>

\* The web server sends and receives between the operations on an open file.
ServeFile(n) ==
    <<Step("look", n, <<>>, 3), Step("wait", n, <<>>, 1), Step("read", n, <<>>, 0),
      Step("close", n, <<>>, 0)>>
UploadFile(n) ==
    <<Step("truncate", n, Upload, 4), Step("write", n, <<Upload[1]>>, 0),
      Step("wait", n, <<>>, 1), Step("append", n, <<Upload[2]>>, 0), Step("close", n, Upload, 0)>>

\* (mutant of Saved: the file is left open)
SavedOpen(n, data) == <<Step("open", n, data, 2), Step("write", n, data, 0)>>

\* A settings file is written over, without truncation.
Saved(n, data) ==
    <<Step("open", n, data, 2), Step("write", n, data, 0), Step("close", n, data, 0)>>

\* In between, the access point is restarted if it was off; this may fail.
Forgotten == <<Step("unlink", "sta", <<>>, 0), Step("wait", "none", <<>>, 3)>> \o Saved("mode", <<"AP">>)

CreateDefaultFile(n, data) == Step("default", n, data, 0)

\* (mutant of FormatPlan: noted as mounted before the mount has succeeded)
FormatPlanEarly ==
    <<Step("unmount", "none", <<>>, 0), Step("mkfs", "none", <<>>, 4), Step("set", "none", <<>>, 0),
      Step("mount", "none", <<>>, 2), CreateDefaultFile("demo", Demo), CreateDefaultFile("howto", Howto)>>

FormatPlan ==
    <<Step("unmount", "none", <<>>, 0), Step("mkfs", "none", <<>>, 4), Step("mount", "none", <<>>, 3),
      Step("set", "none", <<>>, 0), CreateDefaultFile("demo", Demo), CreateDefaultFile("howto", Howto)>>

\* fs_manager_init, then load_ap_ssid.
BootPlan ==
    <<Step("init", "none", <<>>, 0), Step("set", "none", <<>>, 0), CreateDefaultFile("demo", Demo),
      CreateDefaultFile("howto", Howto), Step("loadName", "name", <<>>, 0)>>
FormatBlank == <<Step("mkfs", "none", <<>>, 4), Step("mount", "none", <<>>, 3)>>
Reformat == <<Step("unmount", "none", <<>>, 0), Step("remkfs", "none", <<>>, 1), Step("remount", "none", <<>>, 0)>>

-----------------------------------------------------------------------------
(* Calls. *)

NoFile == [name |-> "none", data |-> <<>>, state |-> "closed", dirty |-> FALSE]
\* The contents that a call sets out to leave in some files; none for the others.
Only(n, contents) == [f \in Files |-> IF f = n THEN contents ELSE {}]
NoGoal == [f \in Files |-> {}]
Instead(goal, other) == [f \in Files |-> IF goal[f] # {} THEN goal[f] ELSE other[f]]

NoCall == [op |-> "none", todo |-> <<>>, file |-> NoFile, goal |-> NoGoal,
           alone |-> TRUE, clean |-> TRUE]

Busy(t) == th[t].op # "none"
Waits(t) == th[t].todo # <<>> /\ Head(th[t].todo).do = "wait"
Runs(t) == ~wild /\ \A u \in Above[t] \cap Threads : ~Busy(u) \/ Waits(u)
Held == {fd \in Slots : fds[fd].state # "closed"}

Widened(goal) == [n \in Files |-> meant[n] \cup goal[n]]
MayHold(n) == meant[n] \cup {c \in {<<>>} : n \in hollow}

Begin(t, op, steps, goal) ==
    /\ Runs(t) /\ ~Busy(t) /\ calls < MaxCalls /\ Room
    /\ LET others == {u \in Threads : Busy(u)}
           alone == others = {} /\ Held = {}
       IN /\ th' = [u \in Threads |->
               IF u = t THEN [op |-> op, todo |-> steps, file |-> NoFile, goal |-> goal,
                              alone |-> alone, clean |-> TRUE]
               ELSE [th[u] EXCEPT !.alone = @ /\ u \notin others]]
          /\ clash' = (clash \/ (~alone /\ "format" \in {op} \cup {th[u].op : u \in others}))
    /\ meant' = Widened(goal)
    /\ calls' = calls + 1
    /\ UNCHANGED <<flash, files, mounted, is_mounted, part, fds, faults, restarts, hollow, stranded, wild>>

Write(t) == \E n \in UserFiles, d \in Scripts : Begin(t, "write", WriteFile(n, d), Only(n, {d}))
Delete(t) == \E n \in UserFiles : Begin(t, "delete", <<Check(1), Step("unlink", n, <<>>, 0)>>, Only(n, {Absent}))
Move(t) == \E n, m \in UserFiles :
    n # m /\ Begin(t, "rename", <<Check(1), Step("rename", n, m, 0)>>,
                   Instead(Only(n, {Absent}), Only(m, MayHold(n) \ {Absent})))
Cat == \E n \in UserFiles : Begin("shell", "read", ReadFile(n), NoGoal)
Restore == Begin("shell", "restore", WriteFile("howto", Howto), Only("howto", {Howto}))
Serve == \E n \in UserFiles : Begin("web", "read", ServeFile(n), NoGoal)
Receive == \E n \in UserFiles : Begin("web", "upload", UploadFile(n), Only(n, {Upload}))
Format(t) ==
    Begin(t, "format", FormatPlan,
          [n \in Files |-> CASE n = "demo" -> {Demo} [] n = "howto" -> {Howto} [] OTHER -> {Absent}])

SaveMode(t) == \E m \in Modes : Begin(t, "mode", Saved("mode", m), Only("mode", {m}))
SaveName(t) == \E s \in Names : Begin(t, "name", Saved("name", s), Only("name", {s}))
SaveCredentials(t) == \E r \in Records : Begin(t, "sta", Saved("sta", r), Only("sta", {r}))
Forget(t) ==
    Begin(t, "forget", Forgotten,
          Instead(Only("sta", {Absent}), Only("mode", {<<"AP">>})))

Return(t) ==
    /\ Runs(t) /\ Busy(t) /\ th[t].todo = <<>>
    /\ th' = [th EXCEPT ![t] = NoCall]
    /\ meant' = IF th[t].alone /\ th[t].clean THEN Instead(th[t].goal, meant) ELSE meant
    /\ wild' = (th[t].file.state # "closed")
    /\ UNCHANGED <<flash, files, mounted, is_mounted, part, fds, counters, hollow, clash, stranded>>

-----------------------------------------------------------------------------
(* The steps of a call. *)

Now(t) == Head(th[t].todo)
Doing(t, ops) == Runs(t) /\ th[t].todo # <<>> /\ Now(t).do \in ops
Done(t, file) == [th EXCEPT ![t].todo = Tail(@), ![t].file = file]
Failed(t, file) ==
    [th EXCEPT ![t].todo = SubSeq(@, 2 + Now(t).skip, Len(@)), ![t].file = file, ![t].clean = FALSE]
Extended(t, steps, goal) ==
    [th EXCEPT ![t].todo = steps \o Tail(@), ![t].goal = Instead(goal, @)]
UNCH_flash == UNCHANGED <<flash, mounted, part>>
UNCH_count == UNCHANGED <<counters, clash>>

Opened(n, do) ==
    [name |-> n, state |-> "open", dirty |-> do = "truncate",
     data |-> IF do = "truncate" \/ files[n] = Absent THEN <<>> ELSE files[n]]
\* A file is empty when it has been created, whatever its call is to leave in it.
Created(n) ==
    IF files[n] = Absent
    THEN files' = [files EXCEPT ![n] = <<>>] /\ hollow' = hollow \cup {n}
    ELSE UNCHANGED <<files, hollow>>
Commits(f) == f.state = "open" /\ f.dirty
Committed(f) == IF Commits(f) THEN [files EXCEPT ![f.name] = f.data] ELSE files
Filled(f) == IF Commits(f) THEN hollow \ {f.name} ELSE hollow

CheckMounted(t) ==
    /\ Doing(t, {"check"})
    /\ th' = IF is_mounted THEN Done(t, NoFile) ELSE Failed(t, NoFile)
    /\ UNCH_flash /\ UNCH_count /\ UNCHANGED <<files, is_mounted, fds, meant, hollow, stranded, wild>>

Open(t) ==
    /\ Doing(t, {"open", "truncate", "look"}) /\ mounted
    /\ Now(t).do = "look" => files[Now(t).name] # Absent
    /\ th' = Done(t, Opened(Now(t).name, Now(t).do))
    /\ Created(Now(t).name)
    /\ UNCH_flash /\ UNCH_count /\ UNCHANGED <<is_mounted, fds, meant, stranded, wild>>

Transfer(t) ==
    /\ Doing(t, {"write", "append", "read", "wait"})
    /\ LET f == th[t].file
           new == CASE Now(t).do = "write" -> [f EXCEPT !.data = Overlaid(Now(t).data, @), !.dirty = TRUE]
                    [] Now(t).do = "append" -> [f EXCEPT !.data = @ \o Now(t).data]
                    [] OTHER -> f
       IN th' = Done(t, new) /\ wild' = (f.state = "stale" /\ Now(t).do # "wait")
    /\ UNCH_flash /\ UNCH_count /\ UNCHANGED <<files, is_mounted, fds, meant, hollow, stranded>>

Close(t) ==
    /\ Doing(t, {"close"})
    /\ files' = Committed(th[t].file) /\ hollow' = Filled(th[t].file) /\ th' = Done(t, NoFile)
    /\ wild' = (th[t].file.state = "stale")
    /\ UNCH_flash /\ UNCH_count /\ UNCHANGED <<is_mounted, fds, meant, stranded>>

\* Open files of these names are not files of the file system any more.
Lost(f, ns) == IF f.name \in ns /\ f.state = "open" THEN [f EXCEPT !.state = "lost"] ELSE f
LostAll(thr, ns) == [u \in Threads |-> [thr[u] EXCEPT !.file = Lost(@, ns)]]
LostFds(ns) == fds' = [fd \in Slots |-> Lost(fds[fd], ns)]

\* thr: the calls, as they are otherwise.
RemoveFile(n, thr) ==
    /\ mounted /\ files[n] # Absent
    /\ files' = [files EXCEPT ![n] = Absent] /\ hollow' = hollow \ {n}
    /\ th' = LostAll(thr, {n}) /\ LostFds({n})
RenameFile(from, to, thr) ==
    /\ mounted /\ files[from] # Absent
    /\ files' = [files EXCEPT ![to] = files[from], ![from] = Absent]
    /\ hollow' = hollow \ {from, to}
    /\ th' = LostAll(thr, {from, to}) /\ LostFds({from, to})

Unlink(t) ==
    /\ Doing(t, {"unlink"}) /\ RemoveFile(Now(t).name, Done(t, NoFile))
    /\ UNCH_flash /\ UNCH_count /\ UNCHANGED <<is_mounted, meant, stranded, wild>>

Rename(t) ==
    /\ Doing(t, {"rename"}) /\ RenameFile(Now(t).name, Now(t).data, Done(t, NoFile))
    /\ meant' = Widened(Only(Now(t).data, MayHold(Now(t).name) \ {Absent}))
    /\ UNCH_flash /\ UNCH_count /\ UNCHANGED <<is_mounted, stranded, wild>>

Possible(t) ==
    LET n == Now(t).name
    IN CASE Now(t).do \in {"open", "truncate"} -> mounted
         [] Now(t).do \in {"look", "unlink", "rename"} -> mounted /\ files[n] # Absent
         [] Now(t).do \in {"mount", "remount"} -> flash.ok /\ ~mounted
         [] OTHER -> TRUE

\* An operation fails because it must, or for a fault of the flash or a connection.
Fault(possible) ==
    IF possible THEN faults < MaxFaults /\ Room /\ faults' = faults + 1 ELSE UNCHANGED faults

\* The steps that depend on it are left out.  A failed write keeps the file from
\* being committed; a connection that breaks off does not.
Fail(t) ==
    /\ Doing(t, {"open", "truncate", "look", "write", "append", "read", "wait", "close",
                 "unlink", "rename", "mount", "remount"})
    /\ Fault(Possible(t))
    /\ LET f == th[t].file
           do == Now(t).do
       IN /\ th' = Failed(t, IF do = "close" THEN NoFile
                            ELSE IF do \in {"write", "append"} /\ f.state = "open"
                                 THEN [f EXCEPT !.state = "lost"] ELSE f)
          /\ wild' = (f.state = "stale" /\ do # "wait")
          /\ meant' = IF do = "wait" /\ f.dirty THEN Widened(Only(f.name, {f.data})) ELSE meant
          /\ stranded' = (stranded \/ do = "remount")
    /\ UNCH_flash /\ UNCHANGED <<files, is_mounted, fds, hollow, calls, restarts, clash>>

-----------------------------------------------------------------------------
(* Mounting and formatting. *)

\* (mutant of Size: what has been detected is used even if it is nothing)
SizeDetected == part

\* The partition has the size that the build gives it unless the chip's is known.
Size == IF part = "chip" THEN "chip" ELSE "static"

Stale(f) == IF f.state = "closed" THEN f ELSE [f EXCEPT !.state = "stale"]

\* Open files do not keep a file system from being unmounted.
Unmount(t) ==
    /\ Doing(t, {"unmount"})
    /\ IF is_mounted \/ th[t].op = "boot"
       THEN /\ mounted' = FALSE /\ is_mounted' = FALSE
            /\ th' = [u \in Threads |-> [Done(t, NoFile)[u] EXCEPT !.file = Stale(@)]]
            /\ fds' = [fd \in Slots |-> Stale(fds[fd])]
       ELSE th' = Done(t, NoFile) /\ UNCHANGED <<mounted, is_mounted, fds>>
    /\ UNCH_count /\ UNCHANGED <<flash, part, files, meant, hollow, stranded, wild>>

Emptied == /\ files' = [n \in Files |-> Absent] /\ hollow' = {}
           /\ meant' = [n \in Files |-> meant[n] \cup {Absent}]

Mkfs(t) ==
    /\ Doing(t, {"mkfs", "remkfs"})
    /\ flash' = [ok |-> TRUE, size |-> Size]
    /\ Emptied /\ th' = Done(t, NoFile)
    /\ wild' = mounted
    /\ UNCH_count /\ UNCHANGED <<mounted, is_mounted, part, fds, stranded>>

\* It may fail half-way.
MkfsFails(t) ==
    /\ Doing(t, {"mkfs", "remkfs"}) /\ Fault(TRUE)
    /\ \/ flash' = [flash EXCEPT !.ok = FALSE] /\ Emptied
       \/ UNCHANGED <<flash, files, meant, hollow>>
    /\ th' = Failed(t, NoFile) /\ stranded' = (stranded \/ Now(t).do = "remkfs")
    /\ wild' = mounted
    /\ UNCHANGED <<mounted, is_mounted, part, fds, calls, restarts, clash>>

Mount(t) ==
    /\ Doing(t, {"mount", "remount"}) /\ flash.ok /\ ~mounted
    /\ mounted' = TRUE /\ th' = Done(t, NoFile) /\ stranded' = FALSE
    /\ UNCH_count /\ UNCHANGED <<flash, files, is_mounted, part, fds, meant, hollow, wild>>

\* The first mount.  What cannot be mounted is formatted; so is what has another size
\* than the partition, if that has been detected.
FirstMount(t) ==
    /\ Doing(t, {"init"})
    /\ \/ /\ flash.ok /\ mounted' = TRUE /\ UNCHANGED faults
          /\ \/ part = "chip" /\ flash.size # part /\ th' = Extended(t, Reformat, NoGoal)
             \/ (part = "chip" => flash.size = part) /\ th' = Done(t, NoFile)
       \/ /\ Fault(flash.ok /\ flash.size = Size)
          /\ th' = Extended(t, FormatBlank, NoGoal) /\ UNCHANGED mounted
    /\ UNCHANGED <<flash, files, is_mounted, part, fds, meant, hollow, stranded, wild, calls, restarts, clash>>

NoteMounted(t) ==
    /\ Doing(t, {"set"})
    /\ is_mounted' = TRUE /\ th' = Done(t, NoFile)
    /\ UNCH_flash /\ UNCH_count /\ UNCHANGED <<files, fds, meant, hollow, stranded, wild>>

\* (mutant of Missing: an outdated file is kept)
MissingAbsent(n, c) == ~mounted \/ files[n] = Absent

Missing(n, c) == ~mounted \/ files[n] = Absent \/ (n = "howto" /\ Len(files[n]) # Len(c))

DefaultFile(t) ==
    /\ Doing(t, {"default"})
    /\ LET n == Now(t).name  c == Now(t).data
       IN IF Missing(n, c)
          THEN th' = Extended(t, WriteFile(n, c), Only(n, {c})) /\ meant' = Widened(Only(n, {c}))
          ELSE th' = Done(t, NoFile) /\ UNCHANGED meant
    /\ UNCH_flash /\ UNCH_count /\ UNCHANGED <<files, is_mounted, fds, hollow, stranded, wild>>

\* The old default name gives way to the new one.
LoadName(t) ==
    /\ Doing(t, {"loadName"})
    /\ IF mounted /\ files["name"] = OldName
       THEN /\ th' = Extended(t, Saved("name", DefaultName), Only("name", {DefaultName}))
            /\ meant' = Widened(Only("name", {DefaultName}))
       ELSE th' = Done(t, NoFile) /\ UNCHANGED meant
    /\ UNCH_flash /\ UNCH_count /\ UNCHANGED <<files, is_mounted, fds, hollow, stranded, wild>>

-----------------------------------------------------------------------------
(* The files of scripts. *)

ScriptCalls == Runs("script") /\ calls < MaxCalls /\ Room /\ calls' = calls + 1
\* No call of another thread is alone any more.
Disturbed == [u \in Threads |-> [th[u] EXCEPT !.alone = @ /\ ~Busy(u)]]

FdOpen(n, do) ==
    /\ ScriptCalls /\ mounted
    /\ \E fd \in Slots \ Held :
          (\A g \in Slots \ Held : fd <= g) /\ fds' = [fds EXCEPT ![fd] = Opened(n, do)]
    /\ Created(n) /\ th' = Disturbed
    /\ clash' = (clash \/ \E u \in Threads : th[u].op = "format")
    /\ UNCH_flash /\ UNCHANGED <<is_mounted, faults, restarts, meant, stranded, wild>>

unlink(n) ==
    /\ ScriptCalls /\ RemoveFile(n, Disturbed)
    /\ meant' = Widened(Only(n, {Absent}))
    /\ UNCH_flash /\ UNCHANGED <<is_mounted, faults, restarts, clash, stranded, wild>>

rename(from, to) ==
    /\ ScriptCalls /\ RenameFile(from, to, Disturbed)
    /\ meant' = Widened(Instead(Only(from, {Absent}), Only(to, MayHold(from) \ {Absent})))
    /\ UNCH_flash /\ UNCHANGED <<is_mounted, faults, restarts, clash, stranded, wild>>

FdWrite(fd, data) ==
    /\ Runs("script") /\ fd \in Held
    /\ \/ /\ fds' = [fds EXCEPT ![fd].data = Overlaid(data, @), ![fd].dirty = TRUE]
          /\ UNCHANGED faults
       \/ /\ fds[fd].state = "open" /\ Fault(TRUE)
          /\ fds' = [fds EXCEPT ![fd].state = "lost"]
    /\ wild' = (fds[fd].state = "stale")
    /\ UNCH_flash /\ UNCHANGED <<files, is_mounted, th, meant, hollow, stranded, calls, restarts, clash>>

\* The descriptor is free again even if the file could not be committed.
FdClose(fd) ==
    /\ Runs("script") /\ fd \in Held
    /\ \/ files' = Committed(fds[fd]) /\ hollow' = Filled(fds[fd]) /\ UNCHANGED faults
       \/ UNCHANGED <<files, hollow>> /\ Fault(TRUE)
    /\ meant' = [meant EXCEPT ![fds[fd].name] = @ \cup {fds[fd].data}]
    /\ fds' = [fds EXCEPT ![fd] = NoFile]
    /\ wild' = (fds[fd].state = "stale")
    /\ UNCH_flash /\ UNCHANGED <<is_mounted, th, stranded, calls, restarts, clash>>

-----------------------------------------------------------------------------
Booting == [u \in Threads |-> IF u = "main" THEN [NoCall EXCEPT !.op = "boot", !.todo = BootPlan]
                              ELSE NoCall]
NoFds == [fd \in Slots |-> NoFile]

\* A blank chip, or one that an older firmware has used.
Init ==
    /\ \/ /\ flash = [ok |-> FALSE, size |-> "static"]
          /\ files = [n \in Files |-> Absent]
       \/ /\ flash \in [ok : {TRUE}, size : {"static", "chip"}]
          /\ files = [n \in Files |-> CASE n = "name" -> OldName [] n = "demo" -> Demo [] OTHER -> Absent]
    /\ meant = [n \in Files |-> {files[n]}] /\ hollow = {}
    /\ mounted = FALSE /\ is_mounted = FALSE /\ part \in {"chip", "unknown"}
    /\ th = Booting /\ fds = NoFds
    /\ calls = 0 /\ faults = 0 /\ restarts = 0
    /\ clash = FALSE /\ stranded = FALSE /\ wild = FALSE

\* Memory is gone; the flash is as it was.
Restart ==
    /\ ~wild /\ restarts < MaxRestarts /\ Room /\ restarts' = restarts + 1
    /\ mounted' = FALSE /\ is_mounted' = FALSE /\ part' \in {"chip", "unknown"}
    /\ th' = Booting /\ fds' = NoFds /\ stranded' = FALSE
    /\ UNCHANGED <<flash, files, calls, faults, meant, hollow, clash, wild>>

Calls(t) == Write(t) \/ Delete(t) \/ Move(t) \/ Format(t) \/ SaveMode(t) \/ SaveName(t) \/ SaveCredentials(t) \/ Forget(t)
Steps(t) == \/ CheckMounted(t) \/ Open(t) \/ Transfer(t) \/ Close(t) \/ Unlink(t) \/ Rename(t)
            \/ Fail(t) \/ Unmount(t) \/ Mkfs(t) \/ MkfsFails(t) \/ Mount(t) \/ FirstMount(t) \/ NoteMounted(t)
            \/ DefaultFile(t) \/ LoadName(t) \/ Return(t)
Script == \/ \E do \in {"open", "truncate"} : FdOpen("demo", do)
          \/ unlink("demo") \/ rename("demo", "howto")
          \/ \E fd \in Slots : FdClose(fd) \/ \E d \in Scripts : FdWrite(fd, d)

Next == \/ \E t \in {"web", "shell"} : Calls(t)
        \/ Cat \/ Restore \/ Serve \/ Receive
        \/ \E t \in Threads : Steps(t)
        \/ Script \/ Restart

Spec == Init /\ [][Next]_vars

-----------------------------------------------------------------------------
(* Properties. *)

Handles == [name : Files \cup {"none"}, data : Text, state : {"closed", "open", "lost", "stale"},
            dirty : BOOLEAN]
Operations == {"check", "open", "truncate", "look", "write", "append", "read", "wait", "close", "unlink",
               "rename", "init", "unmount", "mkfs", "remkfs", "mount", "remount", "set", "default", "loadName"}
AnyStep == [do : Operations, name : Files \cup {"none"}, data : Text \cup Files, skip : Nat]
AnyCall == [op : {"none", "boot", "write", "delete", "rename", "read", "restore", "upload", "format",
                  "mode", "name", "sta", "forget"},
            todo : Seq(AnyStep), file : Handles, goal : [Files -> SUBSET Content],
            alone : BOOLEAN, clean : BOOLEAN]

TypeOK ==
    /\ flash \in [ok : BOOLEAN, size : {"static", "chip"}]
    /\ files \in [Files -> Content] /\ meant \in [Files -> SUBSET Content]
    /\ \A n \in Files : meant[n] # {}
    /\ hollow \subseteq Files
    /\ mounted \in BOOLEAN /\ is_mounted \in BOOLEAN /\ part \in {"chip", "unknown"}
    /\ th \in [Threads -> AnyCall] /\ fds \in [Slots -> Handles]
    /\ clash \in BOOLEAN /\ stranded \in BOOLEAN /\ wild \in BOOLEAN
    /\ calls \in 0 .. MaxCalls /\ faults \in 0 .. MaxFaults /\ restarts \in 0 .. MaxRestarts
    /\ calls + faults + restarts <= MaxTogether

\* Through failures, overlapping calls and restarts, a file holds what a call has put
\* there undisturbed, or what one of the calls since then was to put there; or
\* nothing, if it was created and whoever created it has not come to fill it: a failed
\* write or a restart leaves the empty file, until a call fills or removes it.  It never
\* holds a mixture, nor a part of a content, the empty one included, other than of an
\* upload that has broken off.  An access point name may have the end of an older name
\* behind it.
FilesAsMeant ==
    \A n \in Files :
        \/ files[n] \in meant[n]
        \/ files[n] = <<>> /\ n \in hollow
        \/ n = "name" /\ \E c \in meant[n] \ {Absent} : files[n] # Absent /\ IsPrefix(c, files[n])

\* is_mounted is not set while there is no file system, unless reformatting at boot
\* has failed: fs_manager_init then sets it all the same.
MountedIsReal == is_mounted /\ ~stranded => mounted

\* A boot or a format that met no failure leaves the default files.  For demo.lua that
\* is no more than that there is one: an empty one, left by a boot that was cut off
\* before its write, is not made good by the next, as fs_manager_create_default_files
\* only looks whether there is one; of howto.md it looks at the size too.
DefaultsThere ==
    \A t \in Threads :
        th[t].op \in {"boot", "format"} /\ th[t].todo = <<>> /\ th[t].clean /\ th[t].alone =>
            files["demo"] # Absent /\ files["howto"] # Absent /\ Len(files["howto"]) = Len(Howto)

\* What every later call relies on after a boot or a format.
FileSystemReady == MountedIsReal /\ DefaultsThere

\* Only a format that overlaps another call, or that finds a file open, makes a file
\* system be used after it has gone or be formatted while it is mounted.
OnlyClashesWild == wild => clash

=============================================================================
