------------------------- MODULE WifiManager_proofs -------------------------
(***************************************************************************)
(* What holds of the Wi-Fi manager for any number of users, of retries and *)
(* of commands, and for a driver that does anything.  The argument is      *)
(* about the state w of the manager and the driver alone: every function   *)
(* of the manager, the event handlers and the driver keep it Sound,        *)
(* wherever the users and the work queue are in the middle of.             *)
(***************************************************************************)
EXTENDS WifiManager, TLAPS

USE RetriesAssumption, FailAssumption, BoundAssumption

-----------------------------------------------------------------------------
(* The events that are reported and not yet handled. *)

\* The news of a loss is among the events.
LossIn(q) == \E i \in 1 .. Len(q) : q[i] = "lost"

\* What is reported joins the events, and they keep what was there.
LEMMA Reported ==
    ASSUME NEW q \in Seq(Events), NEW e \in Events
    PROVE  /\ Append(q, e) \in Seq(Events)
           /\ LossIn(Append(q, e)) <=> LossIn(q) \/ e = "lost"
<1>1. Len(Append(q, e)) = Len(q) + 1 /\ Append(q, e)[Len(q) + 1] = e /\ Len(q) \in Nat
  OBVIOUS
<1>2. \A i \in 1 .. Len(q) : Append(q, e)[i] = q[i]
  OBVIOUS
<1>3. Append(q, e) \in Seq(Events)
  OBVIOUS
<1>4. ASSUME LossIn(q) \/ e = "lost" PROVE LossIn(Append(q, e))
  BY <1>1, <1>2, <1>4 DEF LossIn
<1>5. ASSUME LossIn(Append(q, e)), e # "lost" PROVE LossIn(q)
  <2>1. PICK i \in 1 .. Len(q) + 1 : Append(q, e)[i] = "lost"
    BY <1>1, <1>5 DEF LossIn
  <2>2. i \in 1 .. Len(q)
    BY <1>1, <1>5, <2>1
  <2> QED BY <1>2, <2>1, <2>2 DEF LossIn
<1> QED BY <1>3, <1>4, <1>5

\* Handling an event that is no loss takes no loss away.
LEMMA Handled ==
    ASSUME NEW q \in Seq(Events), q # << >>
    PROVE  /\ Head(q) \in Events /\ Tail(q) \in Seq(Events)
           /\ LossIn(q) => LossIn(Tail(q)) \/ Head(q) = "lost"
<1>1. Head(q) \in Events /\ Tail(q) \in Seq(Events) /\ Head(q) = q[1] /\ Len(q) \in Nat
  OBVIOUS
<1>2. Len(Tail(q)) = Len(q) - 1 /\ \A i \in 1 .. Len(q) - 1 : Tail(q)[i] = q[i + 1]
  OBVIOUS
<1>3. ASSUME NEW i \in 1 .. Len(q), q[i] = "lost", Head(q) # "lost" PROVE LossIn(Tail(q))
  <2>1. i - 1 \in 1 .. Len(q) - 1 /\ i - 1 + 1 = i
    BY <1>1, <1>3
  <2> QED BY <1>2, <1>3, <2>1 DEF LossIn
<1> QED BY <1>1, <1>3 DEF LossIn

-----------------------------------------------------------------------------
(* The inductive invariant. *)

\* The link is up, or its loss has been reported.
Real(s) == s.link = "up" \/ LossIn(s.events)

\* Well typed; a pending retry is scheduled; an address, and a connection that
\* is shown, are real.  The address is what makes it inductive: a connection is
\* shown on the strength of the address that is looked up when an event that
\* reports one is handled, and by then the link may have gone.
Sound(s) ==
    /\ s \in States
    /\ s.pending => s.retry # {}
    /\ s.addr => Real(s)
    /\ s.active = "STA" /\ s.connected => Real(s)

IInv == TypeOK /\ Sound(w)

-----------------------------------------------------------------------------
(* The functions of the manager keep a state sound. *)

\* Without a DHCP client there is no address.
LEMMA StopDhcpSound ==
    ASSUME NEW s, Sound(s) PROVE Sound(StopDhcp(s)) /\ ~StopDhcp(s).addr /\ StopDhcp(s) \in States
BY DEF Sound, StopDhcp, States, Real

\* A disconnect reports the loss of a link that was up.
LEMMA DisconnectSound ==
    ASSUME NEW s, Sound(s), ~s.addr PROVE Sound(Disconnect(s))
<1>1. s \in States /\ s.events \in Seq(Events) /\ s.link \in {"down", "trying", "up"}
  BY DEF Sound, States
<1>2. CASE s.link = "down"
  BY <1>1, <1>2 DEF Disconnect, Sound, States, Real
<1>3. CASE s.link # "down"
  <2>1. Append(s.events, "lost") \in Seq(Events) /\ LossIn(Append(s.events, "lost"))
    BY <1>1, Reported DEF Events
  <2> QED BY <1>1, <1>3, <2>1 DEF Disconnect, Sound, States, Real
<1> QED BY <1>2, <1>3

\* Stopping the station leaves neither a connection nor a pending retry.
LEMMA StopStaSound ==
    ASSUME NEW s, Sound(s) PROVE Sound(StopSta(s))
<1> DEFINE t == ForgetAttempt(CancelTimers(s))
<1>1. Sound(t)
  BY DEF Sound, ForgetAttempt, CancelTimers, States, Real
<1> QED BY <1>1, StopDhcpSound, DisconnectSound DEF StopSta

\* The access point starts, or the driver refuses.
LEMMA StartApSound ==
    ASSUME NEW s, Sound(s), NEW t \in StartAp(s) PROVE Sound(t)
<1>1. Append(s.events, "ap_on") \in Seq(Events) /\ (LossIn(s.events) => LossIn(Append(s.events, "ap_on")))
  BY Reported DEF Sound, States, Events
<1>2. CASE t = ApOn(s)
  BY <1>1, <1>2 DEF ApOn, NoAddress, Sound, States, Real
<1>3. CASE t = NoAddress(s)
  BY <1>3 DEF NoAddress, Sound, States, Real
<1> QED BY <1>2, <1>3 DEF StartAp

\* The access point stops.
LEMMA StopApSound ==
    ASSUME NEW s, Sound(s) PROVE Sound(StopAp(s))
<1>1. Append(s.events, "ap_off") \in Seq(Events) /\ (LossIn(s.events) => LossIn(Append(s.events, "ap_off")))
  BY Reported DEF Sound, States, Events
<1> QED BY <1>1 DEF StopAp, Sound, States, Real

\* A retry that is announced is scheduled with it; the last one falls back.
LEMMA TriggerRetrySound ==
    ASSUME NEW s, Sound(s), NEW t \in TriggerRetry(s) PROVE Sound(t)
<1>1. CASE t = s
  BY <1>1
<1>2. CASE s.retries < MaxRetries
           /\ t = [s EXCEPT !.retries = @ + 1, !.pending = TRUE,
                            !.retry = @ \cup {"set"}, !.watchdog = @ \cup {"set"}]
  <2>1. s \in States /\ s.retries \in 0 .. MaxRetries
    BY DEF Sound, States
  <2>2. s.retries + 1 \in 0 .. MaxRetries
    BY <1>2, <2>1
  <2>3. s.retry \cup {"set"} \in SUBSET Timer /\ s.retry \cup {"set"} # {} /\ s.watchdog \cup {"set"} \in SUBSET Timer
    BY <2>1 DEF States, Timer
  <2>4. t \in States /\ t.retry # {}
    BY <1>2, <2>1, <2>2, <2>3 DEF States
  <2> QED BY <1>2, <2>1, <2>4 DEF Sound, Real, States
<1>3. CASE t \in Fallback(s)
  BY <1>3, StopStaSound, StartApSound DEF Fallback
<1> QED BY <1>1, <1>2, <1>3 DEF TriggerRetry

\* A connect request is queued, or refused and tried again.
LEMMA ConnectSound ==
    ASSUME NEW s, Sound(s), NEW t \in Connect(s) PROVE Sound(t)
<1>1. CASE s.link = "down" /\ t = [s EXCEPT !.link = "trying"]
  BY <1>1 DEF Sound, States, Real
<1>2. CASE t \in TriggerRetry(s)
  BY <1>2, TriggerRetrySound
<1> QED BY <1>1, <1>2 DEF Connect

\* A new search begins without a connection and without a pending retry.
LEMMA StartStaSound ==
    ASSUME NEW s, Sound(s), NEW t \in StartSta(s) PROVE Sound(t)
<1> DEFINE d == StopDhcp(s)
<1> DEFINE b == [d EXCEPT
        !.retries = 1, !.connecting = TRUE, !.connected = FALSE, !.pending = FALSE,
        !.active = "STA",
        !.watchdog = IF @ = {} THEN {"set"} ELSE @]
<1>1. Sound(d) /\ ~d.addr
  BY StopDhcpSound
<1>2. t \in Connect(b)
  BY DEF StartSta
<1> HIDE DEF d
<1>3. b \in States
  <2>1. d \in States /\ 1 \in 0 .. MaxRetries /\ {"set"} \in SUBSET Timer
    BY <1>1 DEF Sound, Timer
  <2> QED BY <2>1 DEF States
<1>4. Sound(b)
  BY <1>1, <1>3 DEF Sound, Real, States
<1> QED BY <1>2, <1>4, ConnectSound

\* The state at power-on.
LEMMA OffSound == Sound(Off)
<1>1. << >> \in Seq(Events) /\ Len(<< >>) = 0
  OBVIOUS
<1> QED BY <1>1 DEF Sound, Off, States, Real, LossIn, Timer

-----------------------------------------------------------------------------
(* The event handlers keep a state sound. *)

\* A loss takes address and connection away, whatever the mode.
LEMMA HandleLostSound ==
    ASSUME NEW s \in States, s.pending => s.retry # {}, NEW t \in HandleLost(s)
    PROVE  Sound(t)
<1> DEFINE d == [StopDhcp(s) EXCEPT !.connected = FALSE]
<1>1. Sound(d)
  BY DEF Sound, StopDhcp, States, Real
<1>2. CASE s.active = "STA" /\ s.connected
            /\ t \in TriggerRetry([d EXCEPT !.connecting = TRUE, !.retries = 0, !.pending = FALSE])
  <2>1. Sound([d EXCEPT !.connecting = TRUE, !.retries = 0, !.pending = FALSE])
    <3> HIDE DEF d
    <3>1. 0 \in 0 .. MaxRetries
      OBVIOUS
    <3> QED BY <1>1, <3>1 DEF Sound, States, Real
  <2> QED BY <1>2, <2>1, TriggerRetrySound
<1>3. CASE t \in TriggerRetry(d)
  BY <1>1, <1>3, TriggerRetrySound
<1> QED BY <1>2, <1>3 DEF HandleLost

\* A connection is shown where there is an address, which is real.
LEMMA HandleAddrSound ==
    ASSUME NEW s, Sound(s), NEW t \in HandleAddr(s) PROVE Sound(t)
<1>1. CASE s.active = "STA" /\ s.addr
            /\ t = [CancelTimers(s) EXCEPT !.connected = TRUE, !.connecting = FALSE,
                                            !.retries = 0, !.pending = FALSE]
  <2>1. 0 \in 0 .. MaxRetries
    OBVIOUS
  <2> QED BY <1>1, <2>1 DEF CancelTimers, Sound, States, Real
<1>2. CASE t = s
  BY <1>2
<1> QED BY <1>1, <1>2 DEF HandleAddr

\* The event thread takes the first event and handles it.
LEMMA EventSound ==
    ASSUME NEW s, Sound(s), s.events # << >>,
           NEW t \in Handle(Head(s.events), [s EXCEPT !.events = Tail(@)])
    PROVE  Sound(t)
<1> DEFINE e == Head(s.events)
<1> DEFINE r == [s EXCEPT !.events = Tail(@)]
<1>1. e \in Events /\ r \in States /\ (r.pending => r.retry # {})
  BY Handled DEF Sound, States
<1>2. e # "lost" => Sound(r)
  BY <1>1, Handled DEF Sound, States, Real
<1> HIDE DEF e, r
<1>3. CASE e = "ap_on"
  <2>1. t = [r EXCEPT !.ap = TRUE]
    BY <1>3 DEF Handle, e, r
  <2> QED BY <1>2, <1>3, <2>1 DEF Sound, States, Real
<1>4. CASE e = "ap_off"
  <2>1. t = [r EXCEPT !.ap = FALSE]
    BY <1>4 DEF Handle, e, r
  <2> QED BY <1>2, <1>4, <2>1 DEF Sound, States, Real
<1>5. CASE e = "ok"
  <2>1. t = [r EXCEPT !.dhcp = TRUE, !.watchdog = @ \cup {"set"}]
    BY <1>5 DEF Handle, e, r
  <2>2. r.watchdog \cup {"set"} \in SUBSET Timer
    BY <1>1 DEF States, Timer
  <2> QED BY <1>2, <1>5, <2>1, <2>2 DEF Sound, States, Real
<1>6. CASE e = "fail"
  BY <1>2, <1>6, TriggerRetrySound DEF Handle, e, r
<1>7. CASE e = "lost"
  <2>1. t \in HandleLost(r)
    BY <1>7 DEF Handle, e, r
  <2> QED BY <1>1, <2>1, HandleLostSound
<1>8. CASE e = "addr"
  <2>1. t \in HandleAddr(r)
    BY <1>8 DEF Handle, e, r
  <2> QED BY <1>2, <1>8, <2>1, HandleAddrSound
<1> QED BY <1>1, <1>3, <1>4, <1>5, <1>6, <1>7, <1>8 DEF Events

-----------------------------------------------------------------------------
(* Every step keeps w sound. *)

\* A change of mode goes on in a sound state up to its first sleep.
LEMMA BeginModeSound ==
    ASSUME NEW u, NEW m, NEW b, NEW t, Sound(t), BeginMode(u, m, b, t) PROVE Sound(w)'
BY StopStaSound DEF BeginMode

\* What the driver reports of a link that was up is a loss, unless it stays up.
LEMMA ReportSound ==
    ASSUME Sound(w), NEW link \in {"down", "trying", "up"}, NEW e \in Events, Report(link, e),
           w.link = "up" => e = "lost"
    PROVE  Sound(w)'
<1>1. Append(w.events, e) \in Seq(Events) /\ (LossIn(Append(w.events, e)) <=> LossIn(w.events) \/ e = "lost")
  BY Reported DEF Sound, States
<1> QED BY <1>1 DEF Report, Sound, States, Real

LEMMA SoundStep ==
    ASSUME Sound(w), [Next]_vars PROVE Sound(w)'
<1>1. ASSUME NEW u \in Users, SetMode(u) PROVE Sound(w)'
  BY <1>1, BeginModeSound DEF SetMode
<1>2. ASSUME NEW u \in Users, Rename(u) PROVE Sound(w)'
  BY <1>2 DEF Rename
<1>3. ASSUME NEW u \in Users, SetCredentials(u) PROVE Sound(w)'
  BY <1>3 DEF SetCredentials
<1>4. ASSUME NEW u \in Users, ForgetSta(u) PROVE Sound(w)'
  <2> DEFINE t == ForgetAttempt(CancelTimers(w))
  <2>1. Sound(t)
    BY DEF Sound, ForgetAttempt, CancelTimers, States, Real
  <2>2. w' = t \/ BeginMode(u, "AP", TRUE, t)
    BY <1>4 DEF ForgetSta
  <2> QED BY <2>1, <2>2, BeginModeSound
<1>5. ASSUME NEW u \in Users, ApStops(u) PROVE Sound(w)'
  BY <1>5, StopApSound DEF ApStops
<1>6. ASSUME NEW u \in Users, ApStarts(u) PROVE Sound(w)'
  BY <1>6, StartApSound DEF ApStarts, StartsAp, StartAp
<1>7. ASSUME NEW u \in Users, StaStarts(u) PROVE Sound(w)'
  BY <1>7, StartStaSound DEF StaStarts
<1>8. ASSUME NEW u \in Users, ApRestarts(u) PROVE Sound(w)'
  <2>1. w' \in StartAp(StopAp(w))
    BY <1>8 DEF ApRestarts, StartsAp, StartAp
  <2> QED BY <2>1, StopApSound, StartApSound
<1>9. CASE RetryExpires
  BY <1>9 DEF RetryExpires, Sound, States, Real, Timer
<1>10. CASE WatchdogExpires
  BY <1>10 DEF WatchdogExpires, Sound, States, Real, Timer
<1>11. CASE RetryWork
  <2> DEFINE s == [w EXCEPT !.retry = @ \ {"due"}, !.pending = FALSE]
  <2>1. Sound(s)
    BY DEF Sound, States, Real
  <2>2. w' = s \/ w' = Disconnect(StopDhcp(s))
    BY <1>11 DEF RetryWork
  <2> QED BY <2>1, <2>2, StopDhcpSound, DisconnectSound
<1>12. CASE RetryConnects
  BY <1>12, ConnectSound DEF RetryConnects
<1>13. CASE WatchdogWork
  <2>1. Sound([w EXCEPT !.watchdog = @ \ {"due"}])
    BY DEF Sound, States, Real
  <2> QED BY <1>13, <2>1, TriggerRetrySound DEF WatchdogWork
<1>14. CASE Event
  BY <1>14, EventSound DEF Event
<1>15. CASE Associates
  BY <1>15, ReportSound DEF Associates, Events
<1>16. CASE FailsToAssociate
  BY <1>16, ReportSound DEF FailsToAssociate, Events
<1>17. CASE LosesLink
  BY <1>17, ReportSound DEF LosesLink, Events
<1>18. CASE Lease
  <2>1. Append(w.events, "addr") \in Seq(Events)
    BY Reported DEF Sound, States, Events
  <2> QED BY <1>18, <2>1 DEF Lease, Sound, States, Real
<1>19. CASE UNCHANGED vars
  BY <1>19 DEF vars
<1>20. ASSUME NEW u \in Users, Announced(u) PROVE Sound(w)'
  BY <1>20 DEF Announced
<1> QED
  BY <1>1, <1>2, <1>3, <1>4, <1>5, <1>6, <1>7, <1>8, <1>9, <1>10, <1>11, <1>12, <1>13, <1>14, <1>15, <1>16, <1>17,
     <1>18, <1>19, <1>20 DEF Next, Command, Continue, WorkQueue, Driver

\* No step breaks a type.
LEMMA TypeStep ==
    ASSUME TypeOK, Sound(w), [Next]_vars PROVE TypeOK'
<1>1. w' \in States
  BY SoundStep DEF Sound
<1>2. ASSUME NEW u \in Users, Command(u) PROVE TypeOK'
  <2>1. given < MaxCommands /\ given' = given + 1
    BY <1>2 DEF Command, SetMode, Rename, SetCredentials, ForgetSta, Give
  <2>2. given' \in 0 .. MaxCommands
    BY <2>1 DEF TypeOK
  <2>3. CASE SetMode(u)
    BY <1>1, <2>2, <2>3 DEF SetMode, BeginMode, TypeOK
  <2>4. CASE Rename(u)
    BY <1>1, <2>2, <2>4 DEF Rename, TypeOK
  <2>5. CASE SetCredentials(u)
    BY <1>1, <2>2, <2>5 DEF SetCredentials, TypeOK
  <2>6. CASE ForgetSta(u)
    BY <1>1, <2>2, <2>6 DEF ForgetSta, BeginMode, TypeOK
  <2> QED BY <1>2, <2>3, <2>4, <2>5, <2>6 DEF Command
<1>3. ASSUME NEW u \in Users, Continue(u) PROVE TypeOK'
  BY <1>1, <1>3 DEF Continue, ApStops, ApStarts, StartsAp, Announced, StaStarts, ApRestarts, TypeOK
<1>4. CASE RetryExpires \/ WatchdogExpires \/ WorkQueue
  BY <1>1, <1>4 DEF RetryExpires, WatchdogExpires, WorkQueue, RetryWork, RetryConnects, WatchdogWork, others_unchanged, TypeOK
<1>5. CASE Event \/ Driver
  BY <1>1, <1>5 DEF Event, Driver, Associates, FailsToAssociate, LosesLink, Lease, Report, others_unchanged, TypeOK
<1>6. CASE UNCHANGED vars
  BY <1>6 DEF vars, TypeOK
<1> QED BY <1>2, <1>3, <1>4, <1>5, <1>6 DEF Next

\* The start leaves a sound state: a station's first attempt or an access point.
LEMMA InitIInv == Init => IInv
<1> SUFFICES ASSUME Init PROVE IInv
  OBVIOUS
<1>1. Sound(w)
  BY OffSound, StartStaSound, StartApSound DEF Init
<1> QED BY <1>1 DEF IInv, Init, TypeOK, Sound

-----------------------------------------------------------------------------
(* The theorems. *)

\* The inductive invariant: types hold, a pending retry is scheduled, and an address or
\* a connection that is shown has its link, or the news of its loss is on the way.
THEOREM Inductive == Spec => []IInv
<1>1. IInv /\ [Next]_vars => IInv'
  BY SoundStep, TypeStep DEF IInv
<1> QED BY InitIInv, <1>1, PTL DEF Spec

\* The retry counter stays within its limit, timers and modes within their
\* values, whatever the interleaving of users, work queue and events.
THEOREM TypeCorrect == Spec => []TypeOK
<1>1. IInv => TypeOK
  BY DEF IInv
<1> QED BY Inductive, <1>1, PTL

\* s_sta_retry_pending, which makes the watchdog and every further failure do
\* nothing, is only set while the retry work is scheduled.
THEOREM PendingScheduled == Spec => []PendingMeansScheduled
<1>1. IInv => PendingMeansScheduled
  BY DEF IInv, Sound, PendingMeansScheduled
<1> QED BY Inductive, <1>1, PTL

\* A station that shows as connected has its link, or the event that reports
\* the loss is among the ones not yet handled.
THEOREM ConnectionsReal == Spec => []ConnectedIsReal
<1>1. IInv => ConnectedIsReal
  BY DEF IInv, Sound, ConnectedIsReal, Real, LossIn
<1> QED BY Inductive, <1>1, PTL

=============================================================================
