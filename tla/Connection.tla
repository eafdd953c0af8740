------------------------------ MODULE Connection -------------------------------
(***************************************************************************)
(* Connection life cycle of the FINS client (client.go): the goroutines of  *)
(* listenLoop, of reconnect (run by a listenLoop that failed, or spawned by *)
(* triggerReconnect after a response timeout), the callers that wait for    *)
(* the connection and use the transport, and Close and Shutdown.            *)
(*                                                                          *)
(* A transport is numbered in the order of the successful dials, and the    *)
(* listenLoop and the listenErr channel (buffer of one) made for it carry   *)
(* its number.  c.connected is never closed after it was installed open, so *)
(* a channel is a Boolean: closed (connected) or never.  A nil dereference  *)
(* or a misused error channel ends the process: see panic.                  *)
(***************************************************************************)
EXTENDS Integers

CONSTANTS
  Callers,         \* goroutines that call operations
  Closers,         \* goroutines that call Close
  Shutdowns,       \* those of them that call Shutdown: autoReconnect off first
  Spawns,          \* slots for goroutines started by triggerReconnect
  Cancellable,     \* callers whose context may expire
  AutoReconnect,   \* EnableAutoReconnect was called
  MaxReconnect,    \* maxReconnect: attempts of one reconnect, 0 = infinite
  ResponseTimeout, \* responseTimeoutMs > 0
  ReadTimeout,     \* readTimeout > 0: Recv on an idle line fails
  HooksMayFail,    \* plugin hooks may return errors
  MaxTr,           \* bound: transports dialled, the first included
  MaxFaults        \* bound: network failures (of a transport, dial or send)

ASSUME ConnectionAssumption ==
  /\ MaxTr \in Nat \ {0} /\ MaxReconnect \in Nat /\ MaxFaults \in Nat
  /\ Spawns \cap (1..MaxTr) = {}
  /\ Shutdowns \subseteq Closers /\ Cancellable \subseteq Callers
  /\ {AutoReconnect, ResponseTimeout, ReadTimeout, HooksMayFail}
       \subseteq BOOLEAN

VARIABLES
  tr,            \* Client.tr, 0 for nil
  open,          \* transports that were not closed
  dialed,        \* number of the last transport dialled
  connected,     \* Client.connected is a closed channel
  listenErr,     \* Client.listenErr
  errFull,       \* listenErr channels that buffer an error
  errClosed,     \* listenErr channels closed by their listenLoop
  autoReconnect, reconnecting, closed,   \* the fields of Client
  done,          \* Client.done is closed
  attempts,      \* local of the reconnect that holds the flag
  lpc, errChan, on,   \* listenLoop n: stage, its errChan, transport it reads
  rpc,           \* rpc[r]: stage of reconnect in goroutine r
  cpc, sent,     \* caller c: stage, transport its command went out on
  kpc,           \* kpc[k]: stage of closer k
  faults,        \* network failures so far
  suspect,       \* history: transports on which a read failed or a call timed out
  late,          \* history: transports installed after closed was set
  refused,       \* history: a listener was told "already reconnecting"
  panic          \* what ended the process, "none" while it runs

linkVars == <<tr, open, dialed>>
errVars  == <<listenErr, errFull, errClosed>>
flagVars == <<autoReconnect, reconnecting, attempts, closed, done>>
histVars == <<faults, suspect, late, refused>>
shared   == <<linkVars, errVars, flagVars, histVars, connected>>
loopVars == <<lpc, errChan, on>>
callVars == <<cpc, sent>>
vars     == <<shared, loopVars, rpc, callVars, kpc, panic>>

Trs   == 1..MaxTr
Loops == Trs
Reconnectors == Loops \cup Spawns

LoopStages == {"none", "start", "read", "recv", "mark", "hook", "hookErr",
               "decide", "reconnect", "fail", "close", "gone"}
RcStages   == {"none", "enter", "check", "drop", "dial", "signal", "listen",
               "hook", "leave", "leaveErr"}
CallStages == {"idle", "begun", "wait", "ready", "check", "send", "resp",
               "trigger", "mark", "hook", "spawn"}
CloseStages == {"idle", "close", "done", "check", "tr", "drain", "closed"}
Panics == {"none", "nilTransport", "sendOnClosed", "doubleClose"}

LoopGoto(n, from, to) ==
  panic = "none" /\ lpc[n] = from /\ lpc' = [lpc EXCEPT ![n] = to]
RcGoto(r, from, to) ==
  panic = "none" /\ rpc[r] = from /\ rpc' = [rpc EXCEPT ![r] = to]
CallGoto(c, from, to) ==
  panic = "none" /\ cpc[c] = from /\ cpc' = [cpc EXCEPT ![c] = to]
CloseGoto(k, from, to) ==
  panic = "none" /\ kpc[k] = from /\ kpc' = [kpc EXCEPT ![k] = to]

\* A goroutine moves on and nothing else changes.
OnlyLoop  == UNCHANGED <<shared, errChan, on, rpc, callVars, kpc, panic>>
OnlyRc    == UNCHANGED <<shared, loopVars, callVars, kpc, panic>>
OnlyCall  == UNCHANGED <<shared, loopVars, rpc, sent, kpc, panic>>
OnlyClose == UNCHANGED <<shared, loopVars, rpc, callVars, panic>>

\* The network does something wrong, within the bound.
Fault == faults < MaxFaults /\ faults' = faults + 1

\* The state a constructor returns: dialled, listening, connected.
Init ==
  /\ tr = 1 /\ open = {1} /\ dialed = 1 /\ connected = TRUE
  /\ listenErr = 1 /\ errFull = {} /\ errClosed = {}
  /\ autoReconnect = AutoReconnect /\ reconnecting = FALSE /\ attempts = 0
  /\ closed = FALSE /\ done = FALSE
  /\ lpc = [n \in Loops |-> IF n = 1 THEN "start" ELSE "none"]
  /\ errChan = [n \in Loops |-> 1] /\ on = [n \in Loops |-> 0]
  /\ rpc = [r \in Reconnectors |-> "none"]
  /\ cpc = [c \in Callers |-> "idle"] /\ sent = [c \in Callers |-> 0]
  /\ kpc = [k \in Closers |-> "idle"]
  /\ faults = 0 /\ suspect = {} /\ late = 0 /\ refused = FALSE
  /\ panic = "none"

--------------------------------------------------------------------------------
(* listenLoop *)

\* errChan is read when the goroutine first runs; a nil transport ends it.
LoopStart(n) ==
  /\ LoopGoto(n, "start", IF tr = 0 THEN "fail" ELSE "read")
  /\ errChan' = [errChan EXCEPT ![n] = listenErr]
  /\ UNCHANGED <<shared, on, rpc, callVars, kpc, panic>>

\* c.tr is read again for every Recv; nil is a case of NilTransport.
LoopRead(n) ==
  /\ LoopGoto(n, "read", "recv")
  /\ tr # 0
  /\ on' = [on EXCEPT ![n] = tr]
  /\ UNCHANGED <<shared, errChan, rpc, callVars, kpc, panic>>

\* A payload; what is done with it is the subject of Dispatch.
LoopPayload(n) ==
  /\ LoopGoto(n, "recv", "read")
  /\ on[n] \in open
  /\ on' = [on EXCEPT ![n] = 0]
  /\ UNCHANGED <<shared, errChan, rpc, callVars, kpc, panic>>

\* Recv fails: the line, the read deadline, or a transport closed meanwhile.
LoopError(n) ==
  /\ LoopGoto(n, "recv", IF done THEN "close" ELSE "mark")
  /\ \/ Fault
     \/ (ReadTimeout \/ on[n] \notin open) /\ UNCHANGED faults
  /\ suspect' = suspect \cup {on[n]}
  /\ on' = [on EXCEPT ![n] = 0]
  /\ UNCHANGED <<linkVars, errVars, flagVars, connected, late, refused,
                 errChan, rpc, callVars, kpc, panic>>

StillConnected == connected   \* faulty: the channel is not replaced
\* A new channel that is open: not connected.
Disconnected == FALSE

LoopMark(n) ==
  /\ LoopGoto(n, "mark", "hook")
  /\ connected' = Disconnected
  /\ UNCHANGED <<linkVars, errVars, flagVars, histVars, errChan, on, rpc,
                 callVars, kpc, panic>>

\* notifyDisconnected.
LoopHook(n) ==
  /\ \/ LoopGoto(n, "hook", "decide")
     \/ HooksMayFail /\ LoopGoto(n, "hook", "hookErr")
  /\ OnlyLoop

\* A send on errChan blocks while its buffer is full.
LoopSend(n) ==
  /\ LoopGoto(n, "hookErr", "decide") \/ LoopGoto(n, "fail", "close")
  /\ errChan[n] \notin errFull \cup errClosed
  /\ errFull' = errFull \cup {errChan[n]}
  /\ UNCHANGED <<linkVars, listenErr, errClosed, flagVars, histVars, connected,
                 errChan, on, rpc, callVars, kpc, panic>>

LoopReconnect(n) ==
  /\ LoopGoto(n, "decide", "reconnect")
  /\ autoReconnect /\ ~closed
  /\ rpc' = [rpc EXCEPT ![n] = "enter"]
  /\ UNCHANGED <<shared, errChan, on, callVars, kpc, panic>>

\* Faulty: a listener that gives up also closes and clears the transport.
LoopGiveUpClears(n) ==
  /\ LoopGoto(n, "decide", IF closed THEN "close" ELSE "fail")
  /\ ~autoReconnect \/ closed
  /\ tr' = 0 /\ open' = open \ {tr}
  /\ UNCHANGED <<dialed, errVars, flagVars, histVars, connected, errChan, on,
                 rpc, callVars, kpc, panic>>

LoopGiveUp(n) ==
  /\ LoopGoto(n, "decide", IF closed THEN "close" ELSE "fail")
  /\ ~autoReconnect \/ closed
  /\ OnlyLoop

\* The deferred close(errChan).
LoopClose(n) ==
  /\ LoopGoto(n, "close", "gone")
  /\ errChan[n] \notin errClosed
  /\ errClosed' = errClosed \cup {errChan[n]}
  /\ UNCHANGED <<linkVars, listenErr, errFull, flagVars, histVars, connected,
                 errChan, on, rpc, callVars, kpc, panic>>

--------------------------------------------------------------------------------
(* reconnect, in a listenLoop or in a goroutine of its own *)

\* reconnect returns to the listenLoop that called it, if one did.
Back(r, to) ==
  lpc' = IF r \in Loops THEN [lpc EXCEPT ![r] = to] ELSE lpc

Anyone == TRUE                \* faulty: the flag is not tested
MayEnter == ~reconnecting

RcEnter(r) ==
  /\ MayEnter
  /\ RcGoto(r, "enter", "check")
  /\ reconnecting' = TRUE /\ attempts' = 0
  /\ UNCHANGED <<linkVars, errVars, autoReconnect, closed, done, histVars,
                 connected, loopVars, callVars, kpc, panic>>

RcAlready(r) ==
  /\ reconnecting
  /\ RcGoto(r, "enter", "none")
  /\ Back(r, "fail")
  /\ refused' = (refused \/ r \in Loops)
  /\ UNCHANGED <<linkVars, errVars, flagVars, faults, suspect, late, connected,
                 errChan, on, callVars, kpc, panic>>

OneTooMany == MaxReconnect > 0 /\ attempts > MaxReconnect     \* faulty
Exhausted  == MaxReconnect > 0 /\ attempts >= MaxReconnect

WantedEvenClosed == autoReconnect /\ ~Exhausted               \* faulty
Wanted == ~closed /\ autoReconnect /\ ~Exhausted

\* Closed, disabled or out of attempts: give up.
RcStop(r) == ~Wanted /\ RcGoto(r, "check", "leaveErr") /\ OnlyRc

RcAttempt(r) ==
  /\ Wanted
  /\ RcGoto(r, "check", "drop")
  /\ attempts' = IF MaxReconnect = 0 THEN 0 ELSE attempts + 1
  /\ UNCHANGED <<linkVars, errVars, autoReconnect, reconnecting, closed, done,
                 histVars, connected, loopVars, callVars, kpc, panic>>

NothingClosed  == open                     \* faulty: forgotten, not closed
CurrentClosed  == open \ {tr}

\* After the back-off: the old transport is closed and c.tr is nil.
RcDrop(r) ==
  /\ RcGoto(r, "drop", "dial")
  /\ open' = CurrentClosed /\ tr' = 0
  /\ UNCHANGED <<dialed, errVars, flagVars, histVars, connected, loopVars,
                 callVars, kpc, panic>>

RcDial(r) ==
  /\ RcGoto(r, "dial", "signal")
  /\ dialed < MaxTr
  /\ dialed' = dialed + 1
  /\ tr' = dialed + 1
  /\ open' = open \cup {dialed + 1}
  /\ late' = IF closed THEN late + 1 ELSE late
  /\ UNCHANGED <<errVars, flagVars, faults, suspect, refused, connected,
                 loopVars, callVars, kpc, panic>>

GivesUp   == "leaveErr"                    \* faulty: one try only
TriesMore == "check"

RcDialFails(r) ==
  /\ Fault
  /\ RcGoto(r, "dial", TriesMore)
  /\ UNCHANGED <<linkVars, errVars, flagVars, suspect, late, refused, connected,
                 loopVars, callVars, kpc, panic>>

\* Past the bound on transports the PLC stays unreachable.
RcUnreachable(r) == dialed = MaxTr /\ RcGoto(r, "dial", TriesMore) /\ OnlyRc

\* A new, closed connected channel; who waits on an older one is not told.
RcSignal(r) ==
  /\ RcGoto(r, "signal", "listen")
  /\ connected' = TRUE
  /\ UNCHANGED <<linkVars, errVars, flagVars, histVars, loopVars, callVars,
                 kpc, panic>>

RcListen(r) ==
  /\ RcGoto(r, "listen", "hook")
  /\ listenErr' = dialed
  /\ lpc' = [lpc EXCEPT ![dialed] = "start"]
  /\ UNCHANGED <<linkVars, errFull, errClosed, flagVars, histVars, connected,
                 errChan, on, callVars, kpc, panic>>

RetriesHook    == "check"                  \* faulty: one more failed attempt
ReturnsHookErr == "leaveErr"

\* notifyConnected: its error is reconnect's, with the connection left up.
RcHook(r) ==
  /\ \/ RcGoto(r, "hook", "leave")
     \/ HooksMayFail /\ RcGoto(r, "hook", ReturnsHookErr)
  /\ OnlyRc

\* The deferred reset of reconnecting.
RcLeave(r) ==
  /\ \/ RcGoto(r, "leave", "none") /\ Back(r, "close")
     \/ RcGoto(r, "leaveErr", "none") /\ Back(r, "fail")
  /\ reconnecting' = FALSE
  /\ UNCHANGED <<linkVars, errVars, autoReconnect, attempts, closed, done,
                 histVars, connected, errChan, on, callVars, kpc, panic>>

--------------------------------------------------------------------------------
(* A caller: waitForConnection, sendCommand, triggerReconnect *)

\* IsClosed, under closedMutex.
CallBegin(c) == ~closed /\ CallGoto(c, "idle", "begun") /\ OnlyCall

\* Under connectedMutex; the captured channel is closed already, or never will be.
CallCapture(c) ==
  CallGoto(c, "begun", IF connected THEN "ready" ELSE "wait") /\ OnlyCall

CallReady(c) == CallGoto(c, "ready", "check") /\ OnlyCall

OwnContextOnly(c) == c \in Cancellable     \* faulty: done is not selected on
Interrupted(c)    == done \/ c \in Cancellable

\* ctx.Done or c.done while waiting for the connection or for the response.
CallAbort(c) ==
  /\ Interrupted(c)
  /\ \E from \in {"wait", "ready", "resp"} : CallGoto(c, from, "idle")
  /\ sent' = [sent EXCEPT ![c] = 0]
  /\ UNCHANGED <<shared, loopVars, rpc, kpc, panic>>

CallCheck(c) ==
  CallGoto(c, "check", IF tr = 0 THEN "idle" ELSE "send") /\ OnlyCall

\* c.tr is read again; nil is a case of NilTransport.
CallSend(c) ==
  /\ CallGoto(c, "send", "resp")
  /\ tr \in open
  /\ sent' = [sent EXCEPT ![c] = tr]
  /\ UNCHANGED <<shared, loopVars, rpc, kpc, panic>>

\* A closed transport, an expired context or the network refuses the write.
CallSendFails(c) ==
  /\ CallGoto(c, "send", "idle")
  /\ tr # 0
  /\ \/ Fault
     \/ (tr \notin open \/ c \in Cancellable) /\ UNCHANGED faults
  /\ UNCHANGED <<linkVars, errVars, flagVars, suspect, late, refused, connected,
                 loopVars, rpc, sent, kpc, panic>>

\* A response needs a listener on the transport the command went out on.
CallResponse(c) ==
  /\ CallGoto(c, "resp", "idle")
  /\ \E n \in Loops : lpc[n] = "recv" /\ on[n] = sent[c] /\ on[n] \in open
  /\ sent' = [sent EXCEPT ![c] = 0]
  /\ UNCHANGED <<shared, loopVars, rpc, kpc, panic>>

CallTimeout(c) ==
  /\ ResponseTimeout
  /\ CallGoto(c, "resp", "trigger")
  /\ suspect' = suspect \cup {sent[c]}
  /\ sent' = [sent EXCEPT ![c] = 0]
  /\ UNCHANGED <<linkVars, errVars, flagVars, faults, late, refused, connected,
                 loopVars, rpc, kpc, panic>>

\* triggerReconnect looks at closed, autoReconnect and reconnecting once.
CallTrigger(c) ==
  /\ CallGoto(c, "trigger",
       IF ~closed /\ autoReconnect /\ ~reconnecting THEN "mark" ELSE "idle")
  /\ OnlyCall

CallMark(c) ==
  /\ CallGoto(c, "mark", "hook")
  /\ connected' = FALSE
  /\ UNCHANGED <<linkVars, errVars, flagVars, histVars, loopVars, rpc, sent,
                 kpc, panic>>

\* notifyDisconnected; its error is offered to the current listenErr.
CallHook(c) ==
  /\ CallGoto(c, "hook", "spawn")
  /\ \/ UNCHANGED errFull
     \/ /\ HooksMayFail /\ listenErr \notin errClosed
        /\ errFull' = errFull \cup {listenErr}
  /\ UNCHANGED <<linkVars, listenErr, errClosed, flagVars, histVars, connected,
                 loopVars, rpc, sent, kpc, panic>>

\* go c.reconnect(), in a free slot.
CallSpawn(c) ==
  /\ CallGoto(c, "spawn", "idle")
  /\ \E r \in Spawns : rpc[r] = "none" /\ rpc' = [rpc EXCEPT ![r] = "enter"]
  /\ UNCHANGED <<shared, loopVars, sent, kpc, panic>>

--------------------------------------------------------------------------------
(* Close and Shutdown *)

\* Shutdown calls DisableAutoReconnect first.
DisableAutoReconnect(k) ==
  /\ CloseGoto(k, "idle", "close")
  /\ autoReconnect' = (autoReconnect /\ k \notin Shutdowns)
  /\ UNCHANGED <<linkVars, errVars, reconnecting, attempts, closed, done,
                 histVars, connected, loopVars, rpc, callVars, panic>>

\* The second Close returns at once.
CloseMark(k) ==
  /\ CloseGoto(k, "close", IF closed THEN "closed" ELSE "done")
  /\ closed' = TRUE
  /\ UNCHANGED <<linkVars, errVars, autoReconnect, reconnecting, attempts, done,
                 histVars, connected, loopVars, rpc, callVars, panic>>

CloseDone(k) ==
  /\ CloseGoto(k, "done", "check")
  /\ done' = TRUE
  /\ UNCHANGED <<linkVars, errVars, autoReconnect, reconnecting, attempts,
                 closed, histVars, connected, loopVars, rpc, callVars, panic>>

\* Faulty: Close leaves the transport to the listener.
CloseCheckSkips(k) == CloseGoto(k, "check", "drain") /\ OnlyClose

CloseCheck(k) ==
  CloseGoto(k, "check", IF tr = 0 THEN "drain" ELSE "tr") /\ OnlyClose

CloseTransport(k) ==
  /\ CloseGoto(k, "tr", "drain")
  /\ tr # 0
  /\ open' = open \ {tr}
  /\ UNCHANGED <<tr, dialed, errVars, flagVars, histVars, connected, loopVars,
                 rpc, callVars, panic>>

\* One receive from listenErr, or CLOSE_TIMEOUT.
CloseDrain(k) ==
  /\ CloseGoto(k, "drain", "closed")
  /\ errFull' \in {errFull, errFull \ {listenErr}}
  /\ UNCHANGED <<linkVars, listenErr, errClosed, flagVars, histVars, connected,
                 loopVars, rpc, callVars, panic>>

--------------------------------------------------------------------------------
(* What ends the process *)

Panic(what) ==
  panic = "none" /\ panic' = what
  /\ UNCHANGED <<shared, loopVars, rpc, callVars, kpc>>

\* c.tr was tested, or used before, and is nil now.
NilTransport ==
  /\ tr = 0
  /\ \/ \E n \in Loops : lpc[n] = "read"
     \/ \E c \in Callers : cpc[c] = "send"
     \/ \E k \in Closers : kpc[k] = "tr"
  /\ Panic("nilTransport")

SendOnClosed ==
  /\ \/ \E n \in Loops : lpc[n] \in {"hookErr", "fail"}
                         /\ errChan[n] \in errClosed
     \/ \E c \in Callers : cpc[c] = "hook" /\ HooksMayFail
                           /\ listenErr \in errClosed
  /\ Panic("sendOnClosed")

DoubleClose ==
  /\ \E n \in Loops : lpc[n] = "close" /\ errChan[n] \in errClosed
  /\ Panic("doubleClose")

--------------------------------------------------------------------------------
LoopRuns(n) ==
  \/ LoopStart(n) \/ LoopRead(n) \/ LoopMark(n) \/ LoopHook(n) \/ LoopSend(n)
  \/ LoopReconnect(n) \/ LoopGiveUp(n) \/ LoopClose(n)

RcRuns(r) ==
  \/ RcEnter(r) \/ RcAlready(r) \/ RcStop(r) \/ RcAttempt(r) \/ RcDrop(r)
  \/ RcDial(r) \/ RcUnreachable(r) \/ RcSignal(r) \/ RcListen(r) \/ RcHook(r)
  \/ RcLeave(r)

CallRuns(c) ==
  \/ CallCapture(c) \/ CallReady(c) \/ CallCheck(c) \/ CallSend(c)
  \/ CallSendFails(c) \/ CallTrigger(c) \/ CallMark(c) \/ CallHook(c)
  \/ CallSpawn(c)

CloseRuns(k) ==
  \/ CloseMark(k) \/ CloseDone(k) \/ CloseCheck(k) \/ CloseTransport(k)
  \/ CloseDrain(k)

Dies == NilTransport \/ SendOnClosed \/ DoubleClose

Next ==
  \/ \E n \in Loops : LoopRuns(n) \/ LoopPayload(n) \/ LoopError(n)
  \/ \E r \in Reconnectors : RcRuns(r) \/ RcDialFails(r)
  \/ \E c \in Callers : \/ CallRuns(c) \/ CallBegin(c) \/ CallAbort(c)
                        \/ CallResponse(c) \/ CallTimeout(c)
  \/ \E k \in Closers : CloseRuns(k) \/ DisableAutoReconnect(k)
  \/ Dies

Spec == Init /\ [][Next]_vars

\* Runnable goroutines run and hooks return; reads on a closed transport fail
\* and dials return; a select that done makes ready is left.  Nothing makes the
\* PLC answer, a timer fire, a context expire or the user call Close.
Fairness ==
  /\ \A n \in Loops : /\ WF_vars(LoopRuns(n))
                      /\ WF_vars(on[n] \notin open /\ LoopError(n))
  /\ \A r \in Reconnectors : WF_vars(RcRuns(r))
  /\ \A c \in Callers : WF_vars(CallRuns(c)) /\ WF_vars(done /\ CallAbort(c))
  /\ \A k \in Closers : WF_vars(CloseRuns(k))
  /\ WF_vars(Dies)

FairSpec == Spec /\ Fairness

--------------------------------------------------------------------------------
(* Correctness *)

TypeOK ==
  /\ tr \in 0..MaxTr /\ open \subseteq Trs /\ dialed \in Trs
  /\ connected \in BOOLEAN
  /\ listenErr \in Trs /\ errFull \subseteq Trs /\ errClosed \subseteq Trs
  /\ {autoReconnect, reconnecting, closed, done} \subseteq BOOLEAN
  /\ attempts \in 0..MaxReconnect
  /\ lpc \in [Loops -> LoopStages]
  /\ errChan \in [Loops -> Trs] /\ on \in [Loops -> 0..MaxTr]
  /\ rpc \in [Reconnectors -> RcStages]
  /\ cpc \in [Callers -> CallStages] /\ sent \in [Callers -> 0..MaxTr]
  /\ kpc \in [Closers -> CloseStages]
  /\ faults \in 0..MaxFaults /\ suspect \subseteq 0..MaxTr /\ late \in Nat
  /\ refused \in BOOLEAN /\ panic \in Panics

\* The stages of reconnect between taking and resetting the flag.
Holding == RcStages \ {"none", "enter"}

\* However many listeners fail and callers time out at once, one goroutine at
\* a time is past the test of reconnecting, and the flag says when one is.
ReconnectExclusive ==
  /\ \A r, q \in Reconnectors :
       rpc[r] \in Holding /\ rpc[q] \in Holding => r = q
  /\ reconnecting <=> \E r \in Reconnectors : rpc[r] \in Holding

\* No transport but the current one is left open, whoever reconnects or closes:
\* a second socket would keep the local port from being bound again.
NoLeakedTransport == open \subseteq {tr}

\* A reconnect that was past its tests when Close set closed may still install
\* one transport; no reconnect installs another after that.
AtMostOneLateInstall == late <= 1

\* Without caller timeouts, who finds the connection up finds a transport.
ConnectedHasTransport == connected => tr # 0

\* Only a transport that failed a read or left a call without an answer is
\* closed by a reconnect, as long as the client is open.
OnlySuspectsDropped ==
  [][\A t \in open : t \notin open' => t \in suspect \/ closed]_vars

\* Without auto-reconnect no interleaving of callers, the listener and Close
\* dereferences a nil transport or misuses an error channel.
NoPanic == panic = "none"

\* Close releases every caller, wherever it is blocked.
CloseReleasesCallers ==
  \A c \in Callers : done ~> cpc[c] = "idle" \/ panic # "none"

\* A listener that reports a second error blocks on its buffer of one.
Unheard(n) == lpc[n] \in {"hookErr", "fail"} /\ errChan[n] \in errFull

\* After Close every listener ends, unless a late reconnect started another or
\* the error of a hook that failed earlier still fills its error channel.
CloseEndsListeners ==
  done ~> \/ \A n \in Loops : lpc[n] \in {"none", "gone"} \/ Unheard(n)
          \/ late > 0 \/ panic # "none"

\* With unlimited attempts a lost connection comes back, whatever dials fail in
\* between, unless a listener fails while an earlier reconnect holds the flag.
Restored ==
  ~connected ~> connected \/ closed \/ panic # "none" \/ refused
================================================================================
