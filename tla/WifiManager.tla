------------------------------ MODULE WifiManager ------------------------------
(***************************************************************************)
(* Switching between access point and station, and keeping the station     *)
(* connected (src/src/wifi_manager.c).                                     *)
(*                                                                         *)
(* Four kinds of threads work on the same static variables without a lock: *)
(* users (shell, web server) switch modes; the system work queue runs the  *)
(* retry work and the watchdog; the network event thread handles what the  *)
(* driver reports.  A step here is what a thread does from one blocking    *)
(* call (k_msleep, mostly) to the next.                                    *)
(*                                                                         *)
(* The driver and the DHCP client are external: how they answer is taken   *)
(* from the calls made on them and the events handled here.  DHCP server,  *)
(* captive DNS, client count, scans and names are left out.                *)
(***************************************************************************)
EXTENDS Naturals, Sequences

CONSTANTS
    Users,        \* threads that give commands
    MaxRetries,   \* STA_MAX_RETRIES (3 in the source)
    ApMayFail,    \* NET_REQUEST_WIFI_AP_ENABLE may be refused
    MaxCommands,  \* bound on the commands given
    MaxEvents     \* bound on the queue at which the driver waits

ASSUME RetriesAssumption == MaxRetries \in Nat \ {0}
ASSUME FailAssumption == ApMayFail \in BOOLEAN
ASSUME BoundAssumption == MaxCommands \in Nat /\ MaxEvents \in Nat

VARIABLES
    w,       \* the variables of the manager, the timers, the driver, the events
    wpc,     \* the work queue: "idle", or in the 150 ms of a "retry"
    upc,     \* where each user is in its command
    save,    \* whether that command saves the mode
    mode,    \* s_configured_mode, and the mode file
    saved,   \* station credentials are on file
    given    \* number of commands given

vars == <<w, wpc, upc, save, mode, saved, given>>

Events == {"ap_on", "ap_off", "ok", "fail", "lost", "addr"}
Timer == {"set", "due"}

States ==
    [active : {"AP", "STA"},        \* s_active_mode
     ap : BOOLEAN,                  \* s_ap_active
     connecting : BOOLEAN, connected : BOOLEAN, pending : BOOLEAN,  \* s_sta_...
     retries : 0 .. MaxRetries,     \* s_sta_retry_count
     watchdog : SUBSET Timer,       \* timer running, handler submitted
     retry : SUBSET Timer,
     link : {"down", "trying", "up"},   \* the driver as a station
     dhcp : BOOLEAN, addr : BOOLEAN,    \* DHCP client runs, has an address
     events : Seq(Events)]          \* reported and not yet handled

TypeOK ==
    /\ w \in States
    /\ wpc \in {"idle", "retry"}
    /\ upc \in [Users -> {"idle", "apSleep", "staSleep", "goodbye", "rename", "announce"}]
    /\ save \in [Users -> BOOLEAN]
    /\ mode \in {"AP", "STA"} /\ saved \in BOOLEAN
    /\ given \in 0 .. MaxCommands

-----------------------------------------------------------------------------
(* The functions of the manager: from a state to the states they may leave.  *)

StopDhcp(s) == [s EXCEPT !.dhcp = FALSE, !.addr = FALSE]

\* NET_REQUEST_WIFI_DISCONNECT: the driver reports the end of what was there.
Disconnect(s) ==
    [s EXCEPT !.link = "down",
              !.events = IF s.link = "down" THEN @ ELSE Append(@, "lost")]

CancelTimers(s) == [s EXCEPT !.watchdog = {}, !.retry = {}]
ForgetAttempt(s) == [s EXCEPT !.connecting = FALSE, !.connected = FALSE, !.pending = FALSE]

StopSta(s) == Disconnect(StopDhcp(ForgetAttempt(CancelTimers(s))))

\* Every address is removed first; if the driver refuses nothing else is done.
NoAddress(s) == [s EXCEPT !.addr = FALSE]
ApOn(s) == [NoAddress(s) EXCEPT !.active = "AP", !.ap = TRUE, !.events = Append(@, "ap_on")]
StartAp(s) == {ApOn(s)} \cup (IF ApMayFail THEN {NoAddress(s)} ELSE {})

\* The end of stop_ap_mode, after the goodbye packets.
StopAp(s) == [s EXCEPT !.ap = FALSE, !.addr = FALSE, !.events = Append(@, "ap_off")]

Fallback(s) == StartAp(StopSta(s))

\* A station is wanted, and not there yet.
Seeking(s) == s.active = "STA" /\ s.connecting /\ ~s.connected

\* (mutant of TriggerRetry: one retry too many)
TriggerRetryOneMore(s) ==
    IF ~Seeking(s) \/ s.pending THEN {s}
    ELSE IF s.retries <= MaxRetries
         THEN {[s EXCEPT !.retries = @ + 1, !.pending = TRUE,
                         !.retry = @ \cup {"set"}, !.watchdog = @ \cup {"set"}]}
         ELSE Fallback(s)

\* (mutant of TriggerRetry: the watchdog is not set again)
TriggerRetryNoWatchdog(s) ==
    IF ~Seeking(s) \/ s.pending THEN {s}
    ELSE IF s.retries < MaxRetries
         THEN {[s EXCEPT !.retries = @ + 1, !.pending = TRUE, !.retry = @ \cup {"set"}]}
         ELSE Fallback(s)

\* trigger_sta_retry
TriggerRetry(s) ==
    IF ~Seeking(s) \/ s.pending THEN {s}
    ELSE IF s.retries < MaxRetries
         THEN {[s EXCEPT !.retries = @ + 1, !.pending = TRUE,
                         !.retry = @ \cup {"set"}, !.watchdog = @ \cup {"set"}]}
         ELSE Fallback(s)

\* NET_REQUEST_WIFI_CONNECT: queued, or refused at once (-EALREADY if the driver
\* is not down).
Connect(s) ==
    (IF s.link = "down" THEN {[s EXCEPT !.link = "trying"]} ELSE {})
        \cup TriggerRetry(s)

\* start_sta_mode, with credentials
StartSta(s) ==
    Connect([StopDhcp(s) EXCEPT
        !.retries = 1, !.connecting = TRUE, !.connected = FALSE, !.pending = FALSE,
        !.active = "STA",
        !.watchdog = IF @ = {} THEN {"set"} ELSE @])

-----------------------------------------------------------------------------

Off == [active |-> "AP", ap |-> FALSE, connecting |-> FALSE, connected |-> FALSE,
        pending |-> FALSE, retries |-> 0, watchdog |-> {}, retry |-> {},
        link |-> "down", dhcp |-> FALSE, addr |-> FALSE, events |-> <<>>]

\* wifi_manager_init: a station whose first attempt is queued, or else (not
\* wanted, no credentials, attempt refused at once) an access point.
Init ==
    /\ saved \in BOOLEAN /\ mode \in {"AP", "STA"}
    /\ \/ mode = "STA" /\ saved /\ w \in {s \in StartSta(Off) : s.link = "trying"}
       \/ mode = "STA" /\ saved
          /\ \E s \in StartSta(Off) : s.link = "down" /\ w \in StartAp(s)
       \/ (mode = "AP" \/ ~saved) /\ w \in StartAp(Off)
    /\ wpc = "idle"
    /\ upc = [u \in Users |-> "idle"] /\ save = [u \in Users |-> FALSE]
    /\ given = 0

-----------------------------------------------------------------------------
(* Users. *)

Give(u) ==
    /\ upc[u] = "idle" /\ given < MaxCommands
    /\ given' = given + 1

\* The rest of wifi_manager_set_mode(m, s) up to its first sleep, from state t.
BeginMode(u, m, s, t) ==
    /\ save' = [save EXCEPT ![u] = s]
    /\ \/ /\ m = t.active /\ (m = "AP" \/ t.connected)
          /\ mode' = IF s THEN m ELSE mode
          /\ w' = t /\ UNCHANGED upc
       \/ /\ m = "AP" /\ t.active = "STA"
          /\ w' = StopSta(t) /\ upc' = [upc EXCEPT ![u] = "apSleep"]
          /\ UNCHANGED mode
       \/ /\ m = "STA" /\ ~(t.active = "STA" /\ t.connected)
          /\ \/ ~saved /\ w' = t /\ UNCHANGED upc
             \/ saved /\ t.ap /\ w' = t /\ upc' = [upc EXCEPT ![u] = "goodbye"]
             \/ saved /\ ~t.ap /\ w' = StopSta(t) /\ upc' = [upc EXCEPT ![u] = "staSleep"]
          /\ UNCHANGED mode

\* wifi mode sta, wifi mode ap, wifi disconnect (which does not save)
SetMode(u) ==
    /\ Give(u)
    /\ \/ BeginMode(u, "STA", TRUE, w)
       \/ \E s \in BOOLEAN : BeginMode(u, "AP", s, w)
    /\ UNCHANGED <<wpc, saved>>

\* The goodbye packets are out (50 ms): stop_ap_mode ends.
ApStops(u) ==
    /\ upc[u] = "goodbye"
    /\ w' = StopAp(w)
    /\ upc' = [upc EXCEPT ![u] = "staSleep"]
    /\ UNCHANGED <<wpc, save, mode, saved, given>>

\* start_ap_mode: if the driver does not refuse, the access point is announced, which
\* takes 50 ms.  (Where it is called by the work queue or the event thread, nothing
\* follows these 50 ms.)
StartsAp(u, s) ==
    \/ w' = ApOn(s) /\ upc' = [upc EXCEPT ![u] = "announce"]
    \/ ApMayFail /\ w' = NoAddress(s) /\ upc' = [upc EXCEPT ![u] = "idle"]

\* After the 100 ms.
ApStarts(u) ==
    /\ upc[u] = "apSleep"
    /\ StartsAp(u, w)
    /\ UNCHANGED <<wpc, save, mode, saved, given>>

\* The access point is announced; only now the mode is saved.
Announced(u) ==
    /\ upc[u] = "announce"
    /\ mode' = IF save[u] THEN "AP" ELSE mode
    /\ upc' = [upc EXCEPT ![u] = "idle"]
    /\ UNCHANGED <<w, wpc, save, saved, given>>

\* After the 100 ms: start_sta_mode, which gives up if the credentials are gone.
StaStarts(u) ==
    /\ upc[u] = "staSleep"
    /\ IF saved THEN w' \in StartSta(w) ELSE UNCHANGED w
    /\ mode' = IF saved /\ save[u] /\ w'.link = "trying" /\ w.link = "down"
               THEN "STA" ELSE mode
    /\ upc' = [upc EXCEPT ![u] = "idle"]
    /\ UNCHANGED <<wpc, save, saved, given>>

\* wifi_manager_set_ap_ssid restarts a running access point.
Rename(u) ==
    /\ Give(u)
    /\ w.active = "AP" /\ w.ap
    /\ upc' = [upc EXCEPT ![u] = "rename"] /\ save' = [save EXCEPT ![u] = FALSE]
    /\ UNCHANGED <<w, wpc, mode, saved>>

ApRestarts(u) ==
    /\ upc[u] = "rename"
    /\ StartsAp(u, StopAp(w))
    /\ UNCHANGED <<wpc, save, mode, saved, given>>

SetCredentials(u) ==
    /\ Give(u)
    /\ saved' = TRUE
    /\ UNCHANGED <<w, wpc, upc, save, mode>>

\* wifi_manager_forget_sta
ForgetSta(u) ==
    /\ Give(u)
    /\ saved' = FALSE
    /\ LET t == ForgetAttempt(CancelTimers(w)) IN
          IF t.active = "STA" THEN BeginMode(u, "AP", TRUE, t)
          ELSE w' = t /\ mode' = "AP" /\ UNCHANGED <<upc, save>>
    /\ UNCHANGED wpc

-----------------------------------------------------------------------------
(* The system work queue: one handler at a time. *)

others_unchanged == UNCHANGED <<upc, save, mode, saved, given>>

\* The retry timer (2 s).
RetryExpires ==
    /\ "set" \in w.retry
    /\ w' = [w EXCEPT !.retry = {"due"}]
    /\ UNCHANGED wpc /\ others_unchanged

\* The watchdog (20 s, or 22 s where it is set together with the retry timer) is
\* the longer one: it never overtakes a retry.
WatchdogExpires ==
    /\ "set" \in w.watchdog /\ w.retry = {}
    /\ w' = [w EXCEPT !.watchdog = {"due"}]
    /\ UNCHANGED wpc /\ others_unchanged

\* sta_retry_work_handler, up to its sleep
RetryWork ==
    /\ wpc = "idle" /\ "due" \in w.retry
    /\ LET s == [w EXCEPT !.retry = @ \ {"due"}, !.pending = FALSE] IN
          IF Seeking(s) THEN w' = Disconnect(StopDhcp(s)) /\ wpc' = "retry"
                        ELSE w' = s /\ UNCHANGED wpc
    /\ others_unchanged

\* ... and after it: nothing is checked again.
RetryConnects ==
    /\ wpc = "retry" /\ wpc' = "idle"
    /\ w' \in Connect(w)
    /\ others_unchanged

\* sta_watchdog_handler
WatchdogWork ==
    /\ wpc = "idle" /\ "due" \in w.watchdog
    /\ w' \in TriggerRetry([w EXCEPT !.watchdog = @ \ {"due"}])
    /\ UNCHANGED wpc /\ others_unchanged

-----------------------------------------------------------------------------
(* The event thread: wifi_mgmt_event_handler, ipv4_mgmt_event_handler. *)

\* (mutant of HandleLost: a loss is not noted where a connection is looked for anew)
HandleLostKeepsConnected(s) ==
    IF s.active = "STA" /\ s.connected
    THEN TriggerRetry([StopDhcp(s) EXCEPT !.connecting = TRUE, !.retries = 0, !.pending = FALSE])
    ELSE TriggerRetry([StopDhcp(s) EXCEPT !.connected = FALSE])

HandleLost(s) ==
    LET t == [StopDhcp(s) EXCEPT !.connected = FALSE] IN
    IF s.active = "STA" /\ s.connected
    THEN TriggerRetry([t EXCEPT !.connecting = TRUE, !.retries = 0, !.pending = FALSE])
    ELSE TriggerRetry(t)

\* (mutant of HandleAddr: a pending retry is cancelled and still counts as such)
HandleAddrPending(s) ==
    IF s.active = "STA" /\ s.addr
    THEN {[CancelTimers(s) EXCEPT !.connected = TRUE, !.connecting = FALSE, !.retries = 0]}
    ELSE {s}

\* The address is looked up again: it may be gone by now.
HandleAddr(s) ==
    IF s.active = "STA" /\ s.addr
    THEN {[CancelTimers(s) EXCEPT !.connected = TRUE, !.connecting = FALSE,
                                  !.retries = 0, !.pending = FALSE]}
    ELSE {s}

Handle(e, s) ==
    CASE e = "ap_on"  -> {[s EXCEPT !.ap = TRUE]}
      [] e = "ap_off" -> {[s EXCEPT !.ap = FALSE]}
      [] e = "ok"     -> {[s EXCEPT !.dhcp = TRUE, !.watchdog = @ \cup {"set"}]}
      [] e = "fail"   -> TriggerRetry(s)
      [] e = "lost"   -> HandleLost(s)
      [] e = "addr"   -> HandleAddr(s)

Event ==
    /\ w.events # <<>>
    /\ w' \in Handle(Head(w.events), [w EXCEPT !.events = Tail(@)])
    /\ UNCHANGED wpc /\ others_unchanged

-----------------------------------------------------------------------------
(* The driver and the DHCP client. *)

Report(link, e) ==
    /\ Len(w.events) < MaxEvents
    /\ w' = [w EXCEPT !.link = link, !.events = Append(@, e)]
    /\ UNCHANGED wpc /\ others_unchanged

Associates == w.link = "trying" /\ Report("up", "ok")
FailsToAssociate == w.link = "trying" /\ \E e \in {"fail", "lost"} : Report("down", e)
LosesLink == w.link = "up" /\ Report("down", "lost")
Lease ==
    /\ w.link = "up" /\ w.dhcp /\ ~w.addr
    /\ Len(w.events) < MaxEvents
    /\ w' = [w EXCEPT !.addr = TRUE, !.events = Append(@, "addr")]
    /\ UNCHANGED wpc /\ others_unchanged

-----------------------------------------------------------------------------

Command(u) == SetMode(u) \/ Rename(u) \/ SetCredentials(u) \/ ForgetSta(u)
Continue(u) == ApStops(u) \/ ApStarts(u) \/ Announced(u) \/ StaStarts(u) \/ ApRestarts(u)
WorkQueue == RetryWork \/ RetryConnects \/ WatchdogWork
Driver == Associates \/ FailsToAssociate \/ LosesLink \/ Lease

Next ==
    \/ \E u \in Users : Command(u) \/ Continue(u)
    \/ RetryExpires \/ WatchdogExpires \/ WorkQueue
    \/ Event
    \/ Driver

\* Sleeps end, timers that stay set expire, the work queue and the event thread
\* run.  Nothing is assumed of the driver: it may never answer.
Fairness ==
    /\ \A u \in Users : WF_vars(Continue(u))
    /\ WF_vars(RetryExpires) /\ WF_vars(WatchdogExpires)
    /\ WF_vars(WorkQueue) /\ WF_vars(Event)

Spec == Init /\ [][Next]_vars
FairSpec == Spec /\ Fairness

-----------------------------------------------------------------------------
(* Properties. *)

\* A retry that is announced will come: s_sta_retry_pending, which makes the
\* watchdog and every further failure do nothing, is only set while the retry
\* work is scheduled.
PendingMeansScheduled == w.pending => w.retry # {}

\* A station that shows as connected has its link, or the news of its loss is on
\* the way.
ConnectedIsReal ==
    w.active = "STA" /\ w.connected =>
        w.link = "up" \/ \E i \in 1 .. Len(w.events) : w.events[i] = "lost"

\* However the driver behaves, even if it never answers: looking for a network
\* ends, with a connection, with the access point, or with a user's command.
SearchEnds == Seeking(w) ~> ~Seeking(w)

\* wifi_manager.h: "Exclusive AP or STA".  The driver is never asked to connect
\* as a station while the access point is the active mode.
NoConnectInAp ==
    [][w.link # "trying" /\ w'.link = "trying" => w'.active = "STA"]_vars

=============================================================================
