--------------------------- MODULE ConnectionProofs ----------------------------
(***************************************************************************)
(* Proofs about Connection, for any number of callers, closers, reconnects  *)
(* and transports.  The invariant follows the reconnecting flag: its holder *)
(* is alone between the tests and the reset, so that it finds no transport  *)
(* but its own, and nobody dials after the one dial Close can race with.    *)
(***************************************************************************)
EXTENDS Connection, TLAPS

--------------------------------------------------------------------------------
(* Types *)

\* The stages and fields a step may set.
LEMMA StageTypes ==
  /\ \A s \in {"none", "start", "read", "recv", "mark", "hook", "hookErr",
               "decide", "reconnect", "fail", "close", "gone"} : s \in LoopStages
  /\ \A s \in {"none", "enter", "check", "drop", "dial", "signal", "listen",
               "hook", "leave", "leaveErr"} : s \in RcStages
  /\ \A s \in {"idle", "begun", "wait", "ready", "check", "send", "resp",
               "trigger", "mark", "hook", "spawn"} : s \in CallStages
  /\ \A s \in {"idle", "close", "done", "check", "tr", "drain", "closed"} :
       s \in CloseStages
  BY DEF LoopStages, RcStages, CallStages, CloseStages

LinkType ==
  /\ tr \in 0..MaxTr /\ open \subseteq Trs /\ dialed \in Trs
  /\ connected \in BOOLEAN
ErrType ==
  /\ listenErr \in Trs /\ errFull \subseteq Trs /\ errClosed \subseteq Trs
FlagType ==
  /\ autoReconnect \in BOOLEAN /\ reconnecting \in BOOLEAN
  /\ closed \in BOOLEAN /\ done \in BOOLEAN
  /\ attempts \in 0..MaxReconnect
LoopType ==
  /\ lpc \in [Loops -> LoopStages]
  /\ errChan \in [Loops -> Trs] /\ on \in [Loops -> 0..MaxTr]
RcType   == rpc \in [Reconnectors -> RcStages]
CallType == cpc \in [Callers -> CallStages] /\ sent \in [Callers -> 0..MaxTr]
CloseType == kpc \in [Closers -> CloseStages]
HistType ==
  /\ faults \in 0..MaxFaults /\ suspect \subseteq 0..MaxTr /\ late \in Nat
  /\ refused \in BOOLEAN /\ panic \in Panics

TypeInv == /\ LinkType /\ ErrType /\ FlagType /\ LoopType
           /\ RcType /\ CallType /\ CloseType /\ HistType

\* TypeOK by the parts that an action can disturb.
LEMMA TypeParts == (TypeOK <=> TypeInv) /\ (TypeOK' <=> TypeInv')
BY Zenon
   DEF TypeOK, TypeInv, LinkType, ErrType, FlagType, LoopType, RcType,
       CallType, CloseType, HistType

\* A client just constructed has the types.
LEMMA InitType == Init => TypeOK
<1> SUFFICES ASSUME Init PROVE TypeOK
  OBVIOUS
<1> USE ConnectionAssumption, StageTypes DEF Init
<1>1. 1 \in Trs /\ 1 \in 1..MaxTr /\ 0 \in 0..MaxTr
  BY DEF Trs
<1>2. LinkType /\ ErrType
  BY <1>1 DEF LinkType, ErrType
<1>3. FlagType
  <2>1. autoReconnect \in BOOLEAN
    BY Zenon
  <2>2. reconnecting \in BOOLEAN /\ closed \in BOOLEAN /\ done \in BOOLEAN
    BY Zenon
  <2>3. attempts \in 0..MaxReconnect
    OBVIOUS
  <2>4. QED BY ONLY <2>1, <2>2, <2>3 DEF FlagType
<1>4. LoopType
  BY <1>1 DEF LoopType
<1>5. RcType /\ CallType /\ CloseType
  BY <1>1 DEF RcType, CallType, CloseType
<1>6. HistType
  <2>1. refused \in BOOLEAN /\ panic \in Panics
    BY Zenon DEF Panics
  <2>2. QED BY <2>1 DEF HistType
<1>7. QED
  BY ONLY <1>2, <1>3, <1>4, <1>5, <1>6, TypeParts DEF TypeInv

\* The steps of a listener keep the types.
LEMMA LoopTypes ==
  ASSUME TypeOK, NEW n \in Loops,
         LoopRuns(n) \/ LoopPayload(n) \/ LoopError(n)
  PROVE  TypeOK'
<1> SUFFICES TypeInv'
  BY TypeParts
<1> USE TypeParts, StageTypes, ConnectionAssumption
    DEF LoopGoto, OnlyLoop, shared, linkVars, errVars, flagVars, histVars, callVars, loopVars, TypeInv,
        LinkType, ErrType, FlagType, LoopType, RcType, CallType,
        CloseType, HistType
<1>1. CASE LoopStart(n)
  BY <1>1, SMTT(30) DEF LoopStart
<1>2. CASE LoopRead(n)
  BY <1>2, SMTT(30) DEF LoopRead
<1>3. CASE LoopPayload(n)
  BY <1>3, SMTT(30) DEF LoopPayload
<1>4. CASE LoopError(n)
  BY <1>4, SMTT(30) DEF LoopError, Fault
<1>5. CASE LoopMark(n)
  <2>1. connected' \in BOOLEAN
    BY <1>5, Zenon DEF LoopMark, Disconnected
  <2>2. QED BY <1>5, <2>1, SMTT(30) DEF LoopMark, Disconnected
<1>6. CASE LoopHook(n)
  BY <1>6, SMTT(30) DEF LoopHook
<1>7. CASE LoopSend(n)
  BY <1>7, SMTT(30) DEF LoopSend
<1>8. CASE LoopReconnect(n)
  BY <1>8, SMTT(30) DEF LoopReconnect, Reconnectors
<1>9. CASE LoopGiveUp(n)
  BY <1>9, SMTT(30) DEF LoopGiveUp
<1>10. CASE LoopClose(n)
  BY <1>10, SMTT(30) DEF LoopClose
<1>11. QED
  BY ONLY <1>1, <1>2, <1>3, <1>4, <1>5, <1>6, <1>7, <1>8, <1>9, <1>10,
     LoopRuns(n) \/ LoopPayload(n) \/ LoopError(n) DEF LoopRuns

\* The steps of reconnect keep the types.
LEMMA RcTypes ==
  ASSUME TypeOK, NEW r \in Reconnectors,
         RcRuns(r) \/ RcDialFails(r)
  PROVE  TypeOK'
<1> SUFFICES TypeInv'
  BY TypeParts
<1> USE TypeParts, StageTypes, ConnectionAssumption
    DEF RcGoto, OnlyRc, Back, shared, linkVars, errVars, flagVars, histVars, callVars, loopVars, TypeInv,
        LinkType, ErrType, FlagType, LoopType, RcType, CallType,
        CloseType, HistType
<1>1. CASE RcEnter(r)
  BY <1>1, SMTT(30) DEF RcEnter
<1>2. CASE RcAlready(r)
  BY <1>2, SMTT(30) DEF RcAlready
<1>3. CASE RcStop(r)
  BY <1>3, SMTT(30) DEF RcStop
<1>4. CASE RcAttempt(r)
  BY <1>4, SMTT(30) DEF RcAttempt, Wanted, Exhausted
<1>5. CASE RcDrop(r)
  BY <1>5, SMTT(30) DEF RcDrop, CurrentClosed
<1>6. CASE RcDial(r)
  BY <1>6, SMTT(30) DEF RcDial, Trs
<1>7. CASE RcDialFails(r)
  BY <1>7, SMTT(30) DEF RcDialFails, Fault, TriesMore
<1>8. CASE RcUnreachable(r)
  BY <1>8, SMTT(30) DEF RcUnreachable, TriesMore
<1>9. CASE RcSignal(r)
  BY <1>9, SMTT(30) DEF RcSignal
<1>10. CASE RcListen(r)
  BY <1>10, SMTT(30) DEF RcListen, Loops
<1>11. CASE RcHook(r)
  BY <1>11, SMTT(30) DEF RcHook, ReturnsHookErr
<1>12. CASE RcLeave(r)
  <2>1. reconnecting' \in BOOLEAN
    BY <1>12, Zenon DEF RcLeave
  <2>2. QED BY <1>12, <2>1, SMTT(30) DEF RcLeave
<1>13. QED
  BY ONLY <1>1, <1>2, <1>3, <1>4, <1>5, <1>6, <1>7, <1>8, <1>9, <1>10, <1>11, <1>12,
     RcRuns(r) \/ RcDialFails(r) DEF RcRuns

\* The steps of a caller keep the types.
LEMMA CallTypes ==
  ASSUME TypeOK, NEW c \in Callers,
         CallRuns(c) \/ CallBegin(c) \/ CallAbort(c)
           \/ CallResponse(c) \/ CallTimeout(c)
  PROVE  TypeOK'
<1> SUFFICES TypeInv'
  BY TypeParts
<1> USE TypeParts, StageTypes, ConnectionAssumption
    DEF CallGoto, OnlyCall, shared, linkVars, errVars, flagVars, histVars, callVars, loopVars, TypeInv,
        LinkType, ErrType, FlagType, LoopType, RcType, CallType,
        CloseType, HistType
<1>1. CASE CallBegin(c) \/ CallCapture(c)
  BY <1>1, SMTT(30) DEF CallBegin, CallCapture
<1>2. CASE CallReady(c)
  BY <1>2, SMTT(30) DEF CallReady
<1>3. CASE CallAbort(c)
  BY <1>3, SMTT(30) DEF CallAbort
<1>4. CASE CallCheck(c)
  BY <1>4, SMTT(30) DEF CallCheck
<1>5. CASE CallSend(c)
  BY <1>5, SMTT(30) DEF CallSend
<1>6. CASE CallSendFails(c)
  BY <1>6, SMTT(30) DEF CallSendFails, Fault
<1>7. CASE CallResponse(c)
  BY <1>7, SMTT(30) DEF CallResponse
<1>8. CASE CallTimeout(c)
  BY <1>8, SMTT(30) DEF CallTimeout
<1>9. CASE CallTrigger(c)
  BY <1>9, SMTT(30) DEF CallTrigger
<1>10. CASE CallMark(c)
  <2>1. connected' \in BOOLEAN
    BY <1>10, Zenon DEF CallMark
  <2>2. QED BY <1>10, <2>1, SMTT(30) DEF CallMark
<1>11. CASE CallHook(c)
  BY <1>11, SMTT(30) DEF CallHook
<1>12. CASE CallSpawn(c)
  BY <1>12, SMTT(30) DEF CallSpawn, Reconnectors
<1>13. QED
  BY ONLY <1>1, <1>2, <1>3, <1>4, <1>5, <1>6, <1>7, <1>8, <1>9, <1>10, <1>11, <1>12,
     CallRuns(c) \/ CallBegin(c) \/ CallAbort(c)
           \/ CallResponse(c) \/ CallTimeout(c) DEF CallRuns

\* The steps of Close and Shutdown keep the types.
LEMMA CloseTypes ==
  ASSUME TypeOK, NEW k \in Closers,
         CloseRuns(k) \/ DisableAutoReconnect(k)
  PROVE  TypeOK'
<1> SUFFICES TypeInv'
  BY TypeParts
<1> USE TypeParts, StageTypes, ConnectionAssumption
    DEF CloseGoto, OnlyClose, shared, linkVars, errVars, flagVars, histVars, callVars, loopVars, TypeInv,
        LinkType, ErrType, FlagType, LoopType, RcType, CallType,
        CloseType, HistType
<1>1. CASE DisableAutoReconnect(k)
  BY <1>1, SMTT(30) DEF DisableAutoReconnect
<1>2. CASE CloseMark(k)
  BY <1>2, SMTT(30) DEF CloseMark
<1>3. CASE CloseDone(k)
  BY <1>3, SMTT(30) DEF CloseDone
<1>4. CASE CloseCheck(k)
  BY <1>4, SMTT(30) DEF CloseCheck
<1>5. CASE CloseTransport(k)
  BY <1>5, SMTT(30) DEF CloseTransport
<1>6. CASE CloseDrain(k)
  BY <1>6, SMTT(30) DEF CloseDrain
<1>7. QED
  BY ONLY <1>1, <1>2, <1>3, <1>4, <1>5, <1>6,
     CloseRuns(k) \/ DisableAutoReconnect(k) DEF CloseRuns

\* A panic changes nothing but panic.
LEMMA DiesChanges == Dies => UNCHANGED <<shared, loopVars, rpc, callVars, kpc>>
  BY DEF Dies, NilTransport, SendOnClosed, DoubleClose, Panic

\* Every variable has its type.
THEOREM TypeCorrect == Spec => []TypeOK
<1>1. TypeOK /\ [Next]_vars => TypeOK'
  <2> SUFFICES ASSUME TypeOK, [Next]_vars PROVE TypeOK'
    OBVIOUS
  <2>1. CASE Dies
    <3>1. panic' \in Panics
      BY <2>1 DEF Dies, NilTransport, SendOnClosed, DoubleClose, Panic, Panics
    <3>2. TypeInv'
      BY <2>1, <3>1, TypeParts, DiesChanges, SMTT(30)
         DEF TypeInv, LinkType, ErrType, FlagType, LoopType, RcType, CallType,
             CloseType, HistType, shared, linkVars, errVars, flagVars,
             histVars, loopVars, callVars
    <3>3. QED BY <3>2, TypeParts
  <2>2. CASE UNCHANGED vars
    <3>1. TypeInv'
      BY <2>2, TypeParts, SMTT(30)
         DEF TypeInv, LinkType, ErrType, FlagType, LoopType, RcType, CallType,
             CloseType, HistType, vars, shared, linkVars, errVars, flagVars,
             histVars, loopVars, callVars
    <3>2. QED BY <3>1, TypeParts
  <2>3. QED
    BY <2>1, <2>2, LoopTypes, RcTypes, CallTypes, CloseTypes DEF Next
<1>2. QED BY <1>1, InitType, PTL DEF Spec

--------------------------------------------------------------------------------
(* What the steps of each goroutine change of the state the invariant is about *)

\* A listener touches neither the transport nor the flags, and its own
\* reconnect only to enter it.
LEMMA LoopChanges ==
  ASSUME TypeOK, NEW n \in Loops, LoopRuns(n) \/ LoopPayload(n) \/ LoopError(n)
  PROVE  /\ UNCHANGED <<tr, open, dialed, reconnecting, closed, late>>
         /\ lpc[n] \notin {"none", "reconnect"}
         /\ \E s \in LoopStages :
              /\ lpc' = [lpc EXCEPT ![n] = s]
              /\ \/ UNCHANGED rpc
                 \/ s = "reconnect" /\ rpc' = [rpc EXCEPT ![n] = "enter"]
<1> USE StageTypes DEF LoopGoto, OnlyLoop, shared, linkVars, flagVars, histVars
<1>1. CASE LoopReconnect(n)
  BY <1>1 DEF LoopReconnect
<1>2. CASE LoopStart(n) \/ LoopRead(n) \/ LoopPayload(n) \/ LoopError(n)
  BY <1>2 DEF LoopStart, LoopRead, LoopPayload, LoopError
<1>3. CASE LoopMark(n) \/ LoopHook(n) \/ LoopSend(n)
  BY <1>3 DEF LoopMark, LoopHook, LoopSend
<1>4. CASE LoopGiveUp(n) \/ LoopClose(n)
  BY <1>4 DEF LoopGiveUp, LoopClose
<1>5. QED
  BY ONLY <1>1, <1>2, <1>3, <1>4,
     LoopRuns(n) \/ LoopPayload(n) \/ LoopError(n) DEF LoopRuns

CallNext(c) == \/ CallRuns(c) \/ CallBegin(c) \/ CallAbort(c)
               \/ CallResponse(c) \/ CallTimeout(c)

\* A caller touches neither the transport nor the flags, and starts a
\* reconnect only in a free slot.
LEMMA CallChanges ==
  ASSUME NEW c \in Callers, CallNext(c)
  PROVE  /\ UNCHANGED <<tr, open, dialed, reconnecting, closed, late, lpc>>
         /\ \/ UNCHANGED rpc
            \/ \E r \in Spawns : rpc[r] = "none"
                                 /\ rpc' = [rpc EXCEPT ![r] = "enter"]
<1> USE DEF OnlyCall, shared, linkVars, flagVars, histVars, loopVars
<1>1. CASE CallSpawn(c)
  BY <1>1 DEF CallSpawn
<1>2. CASE CallBegin(c) \/ CallCapture(c) \/ CallReady(c) \/ CallAbort(c) \/ CallCheck(c)
  BY <1>2 DEF CallBegin, CallCapture, CallReady, CallAbort, CallCheck
<1>3. CASE CallSend(c) \/ CallSendFails(c) \/ CallResponse(c) \/ CallTimeout(c)
  BY <1>3 DEF CallSend, CallSendFails, CallResponse, CallTimeout
<1>4. CASE CallTrigger(c) \/ CallMark(c) \/ CallHook(c)
  BY <1>4 DEF CallTrigger, CallMark, CallHook
<1>5. QED
  BY ONLY <1>1, <1>2, <1>3, <1>4, CallNext(c) DEF CallNext, CallRuns

\* Close only closes.
LEMMA CloseChanges ==
  ASSUME NEW k \in Closers, CloseRuns(k) \/ DisableAutoReconnect(k)
  PROVE  /\ UNCHANGED <<tr, dialed, reconnecting, late, lpc, rpc>>
         /\ open' \subseteq open /\ (closed => closed')
BY DEF CloseRuns, DisableAutoReconnect, CloseMark, CloseDone, CloseCheck,
       CloseTransport, CloseDrain, OnlyClose, shared, linkVars, flagVars,
       histVars, loopVars

--------------------------------------------------------------------------------
(* The inductive invariant *)

\* A listener runs reconnect only at its stage for that; listeners exist for
\* the transports dialled so far, and the newest one starts after the signal.
LoopInv ==
  /\ \A n \in Loops : rpc[n] # "none" => lpc[n] = "reconnect"
  /\ \A n \in Loops : n > dialed => lpc[n] = "none"
  /\ \A r \in Reconnectors :
       rpc[r] \in {"signal", "listen"} => lpc[dialed] = "none"

\* Who dials has dropped the transport there was.
DropInv ==
  /\ NoLeakedTransport
  /\ \A r \in Reconnectors : rpc[r] = "dial" => tr = 0

\* After the one late installation nobody is on the way to another.
LateInv ==
  /\ AtMostOneLateInstall
  /\ late # 0 => closed /\ \A r \in Reconnectors : rpc[r] \notin {"drop", "dial"}

LinkInv == LoopInv /\ ReconnectExclusive /\ DropInv /\ LateInv

\* The invariant holds of a client just constructed.
LEMMA InitLink == Init => LinkInv
BY ConnectionAssumption
   DEF Init, LinkInv, LoopInv, ReconnectExclusive, DropInv, LateInv, Holding,
       NoLeakedTransport, AtMostOneLateInstall, Reconnectors, Loops, Trs

\* The goroutines of triggerReconnect are not listeners.
LEMMA Disjoint == Loops \cap Spawns = {}
  BY ConnectionAssumption DEF Loops, Trs

\* A listener keeps the invariant.
LEMMA LoopKeeps ==
  ASSUME TypeOK, LinkInv, NEW n \in Loops,
         LoopRuns(n) \/ LoopPayload(n) \/ LoopError(n)
  PROVE  LinkInv'
<1>1. PICK s \in LoopStages :
        /\ lpc' = [lpc EXCEPT ![n] = s]
        /\ \/ UNCHANGED rpc
           \/ s = "reconnect" /\ rpc' = [rpc EXCEPT ![n] = "enter"]
  BY LoopChanges
<1>2. /\ UNCHANGED <<tr, open, dialed, reconnecting, closed, late>>
      /\ lpc[n] \notin {"none", "reconnect"}
  BY LoopChanges
<1>3. /\ lpc \in [Loops -> LoopStages] /\ rpc \in [Reconnectors -> RcStages]
      /\ n \in Reconnectors
  BY DEF TypeOK, Reconnectors
<1>4. rpc[n] = "none"
  BY <1>2 DEF LinkInv, LoopInv
<1>5. \A r \in Reconnectors : rpc'[r] \in {rpc[r], "enter"}
  BY <1>1, <1>3
<1>6. \A r \in Reconnectors : rpc[r] # "none" => rpc'[r] = rpc[r]
  BY <1>1, <1>3, <1>4
<1>7. LoopInv'
  <2>1. \A m \in Loops : m # n => lpc'[m] = lpc[m] /\ rpc'[m] = rpc[m]
    BY <1>1, <1>3 DEF Reconnectors
  <2>2. rpc'[n] # "none" => lpc'[n] = "reconnect"
    BY <1>1, <1>3, <1>4
  <2>3. dialed \in Loops /\ \A r \in Reconnectors :
          rpc'[r] \in {"signal", "listen"} => rpc[r] \in {"signal", "listen"}
    BY <1>5 DEF TypeOK, Loops
  <2>4. QED BY <1>2, <2>1, <2>2, <2>3 DEF LinkInv, LoopInv
<1>8. ReconnectExclusive'
  BY <1>2, <1>5, <1>6 DEF LinkInv, ReconnectExclusive, Holding
<1>9. DropInv' /\ LateInv'
  BY <1>2, <1>5
     DEF LinkInv, DropInv, LateInv, NoLeakedTransport, AtMostOneLateInstall
<1>10. QED BY <1>7, <1>8, <1>9 DEF LinkInv

\* A caller keeps the invariant.
LEMMA CallKeeps ==
  ASSUME TypeOK, LinkInv, NEW c \in Callers, CallNext(c)
  PROVE  LinkInv'
<1>1. UNCHANGED <<tr, open, dialed, reconnecting, closed, late, lpc>>
  BY CallChanges
<1>2. CASE UNCHANGED rpc
  BY <1>1, <1>2
     DEF LinkInv, LoopInv, ReconnectExclusive, DropInv, LateInv,
         NoLeakedTransport, AtMostOneLateInstall
<1>3. ASSUME NEW r \in Spawns, rpc[r] = "none",
             rpc' = [rpc EXCEPT ![r] = "enter"]
      PROVE  LinkInv'
  <2>1. r \in Reconnectors /\ r \notin Loops
        /\ rpc \in [Reconnectors -> RcStages] /\ Loops \subseteq Reconnectors
    BY Disjoint DEF Reconnectors, TypeOK
  <2>2. /\ \A q \in Reconnectors : rpc'[q] \in {rpc[q], "enter"}
        /\ \A q \in Reconnectors : rpc[q] # "none" => rpc'[q] = rpc[q]
        /\ \A n \in Loops : rpc'[n] = rpc[n]
    BY <1>3, <2>1
  <2>3. LoopInv'
    BY <1>1, <2>2 DEF LinkInv, LoopInv
  <2>4. ReconnectExclusive'
    BY <1>1, <2>2 DEF LinkInv, ReconnectExclusive, Holding
  <2>5. DropInv' /\ LateInv'
    BY <1>1, <2>2
       DEF LinkInv, DropInv, LateInv, NoLeakedTransport, AtMostOneLateInstall
  <2>6. QED BY <2>3, <2>4, <2>5 DEF LinkInv
<1>4. QED BY <1>2, <1>3, CallChanges

\* Close and Shutdown keep the invariant.
LEMMA CloseKeeps ==
  ASSUME LinkInv, NEW k \in Closers, CloseRuns(k) \/ DisableAutoReconnect(k)
  PROVE  LinkInv'
BY CloseChanges
   DEF LinkInv, LoopInv, ReconnectExclusive, DropInv, LateInv,
       NoLeakedTransport, AtMostOneLateInstall

--------------------------------------------------------------------------------
(* The steps of reconnect *)

\* A step of one reconnect leaves closed and the other reconnects alone.
LEMMA RcChanges ==
  ASSUME TypeOK, NEW r \in Reconnectors, RcRuns(r) \/ RcDialFails(r)
  PROVE  /\ UNCHANGED closed
         /\ rpc[r] # "none" /\ \A q \in Reconnectors : q # r => rpc'[q] = rpc[q]
<1> USE DEF TypeOK, RcGoto, OnlyRc, flagVars, shared
<1>1. CASE RcEnter(r) \/ RcAlready(r) \/ RcStop(r) \/ RcAttempt(r)
  BY <1>1 DEF RcEnter, RcAlready, RcStop, RcAttempt
<1>2. CASE RcDrop(r) \/ RcDial(r) \/ RcDialFails(r) \/ RcUnreachable(r)
  BY <1>2 DEF RcDrop, RcDial, RcDialFails, RcUnreachable
<1>3. CASE RcSignal(r) \/ RcListen(r) \/ RcHook(r) \/ RcLeave(r)
  BY <1>3 DEF RcSignal, RcListen, RcHook, RcLeave
<1>4. QED
  BY ONLY <1>1, <1>2, <1>3, RcRuns(r) \/ RcDialFails(r) DEF RcRuns

\* Who is past the tests, alone, stays alone until it resets the flag.
LEMMA RcExclusive ==
  ASSUME TypeOK, LinkInv, NEW r \in Reconnectors, RcRuns(r) \/ RcDialFails(r)
  PROVE  ReconnectExclusive'
<1> USE DEF TypeOK, RcGoto, OnlyRc, flagVars, shared, LinkInv,
            ReconnectExclusive, Holding, RcStages
<1>1. CASE RcEnter(r)
  BY <1>1 DEF RcEnter, MayEnter
<1>2. CASE RcAlready(r)
  BY <1>2 DEF RcAlready
<1>3. CASE RcLeave(r)
  BY <1>3 DEF RcLeave
<1>4. CASE RcStop(r) \/ RcAttempt(r) \/ RcDrop(r)
  BY <1>4 DEF RcStop, RcAttempt, RcDrop
<1>5. CASE RcDial(r) \/ RcDialFails(r) \/ RcUnreachable(r)
  BY <1>5 DEF RcDial, RcDialFails, RcUnreachable, TriesMore
<1>6. CASE RcSignal(r) \/ RcListen(r) \/ RcHook(r)
  BY <1>6 DEF RcSignal, RcListen, RcHook, ReturnsHookErr
<1>7. QED
  BY ONLY <1>1, <1>2, <1>3, <1>4, <1>5, <1>6, RcRuns(r) \/ RcDialFails(r)
     DEF RcRuns

\* A reconnect starts the listener of the last dial, once.
LEMMA RcLoops ==
  ASSUME TypeOK, LinkInv, NEW r \in Reconnectors, RcRuns(r) \/ RcDialFails(r)
  PROVE  LoopInv'
<1>0. /\ dialed \in Loops /\ Loops \subseteq Reconnectors /\ Loops \subseteq Nat
      /\ lpc \in [Loops -> LoopStages] /\ rpc \in [Reconnectors -> RcStages]
  BY DEF TypeOK, Loops, Trs, Reconnectors
<1> USE <1>0 DEF RcGoto, OnlyRc, shared, linkVars, loopVars, LinkInv, LoopInv
<1>1. CASE RcEnter(r) \/ RcStop(r) \/ RcAttempt(r) \/ RcDrop(r)
  BY <1>1 DEF RcEnter, RcStop, RcAttempt, RcDrop
<1>2. CASE RcDial(r)
  <2>1. dialed' = dialed + 1 /\ dialed' \in Loops /\ lpc' = lpc
        /\ rpc' = [rpc EXCEPT ![r] = "signal"] /\ rpc[r] = "dial"
    BY <1>2, ConnectionAssumption DEF RcDial, Loops, Trs, TypeOK
  <2>2. lpc[dialed + 1] = "none"
    BY <2>1
  <2>3. QED BY <2>1, <2>2
<1>3. CASE RcDialFails(r) \/ RcUnreachable(r)
  BY <1>3 DEF RcDialFails, RcUnreachable, TriesMore
<1>4. CASE RcSignal(r) \/ RcHook(r)
  BY <1>4 DEF RcSignal, RcHook, ReturnsHookErr
<1>5. CASE RcListen(r)
  <2>1. /\ rpc' = [rpc EXCEPT ![r] = "hook"] /\ rpc[r] = "listen"
        /\ lpc' = [lpc EXCEPT ![dialed] = "start"] /\ UNCHANGED dialed
        /\ lpc[dialed] = "none"
    BY <1>5 DEF RcListen
  <2>2. \A q \in Reconnectors : rpc[q] \in {"signal", "listen"} => q = r
    BY <2>1 DEF ReconnectExclusive, Holding, RcStages
  <2>3. \A q \in Reconnectors : rpc'[q] \notin {"signal", "listen"}
    BY <2>1, <2>2
  <2>4. \A n \in Loops : rpc'[n] # "none" => lpc'[n] = "reconnect"
    BY <2>1
  <2>5. \A n \in Loops : n > dialed' => lpc'[n] = "none"
    BY <2>1
  <2>6. QED BY <2>3, <2>4, <2>5
<1>6. ASSUME NEW s \in {"fail", "close"},
             Back(r, s), rpc' = [rpc EXCEPT ![r] = "none"], rpc[r] # "none",
             UNCHANGED dialed
      PROVE  LoopInv'
  <2>1. \A n \in Loops : n # r => lpc'[n] = lpc[n] /\ rpc'[n] = rpc[n]
    BY <1>6 DEF Back
  <2>2. r \in Loops => lpc[r] = "reconnect" /\ r <= dialed
    BY <1>6
  <2>3. \A q \in Reconnectors : rpc'[q] \in {"signal", "listen"}
          => rpc[q] \in {"signal", "listen"} /\ dialed # r
    BY <1>6, <2>2
  <2>4. rpc'[r] = "none"
    BY <1>6
  <2>5. QED BY <1>6, <2>1, <2>2, <2>3, <2>4
<1>7. CASE RcAlready(r) \/ RcLeave(r)
  BY <1>6, <1>7 DEF RcAlready, RcLeave
<1>8. QED
  BY ONLY <1>1, <1>2, <1>3, <1>4, <1>5, <1>7, RcRuns(r) \/ RcDialFails(r)
     DEF RcRuns

\* A reconnect dials only after it closed the transport there was.
LEMMA RcDrops ==
  ASSUME TypeOK, LinkInv, NEW r \in Reconnectors, RcRuns(r) \/ RcDialFails(r)
  PROVE  DropInv'
<1> USE DEF TypeOK, RcGoto, OnlyRc, shared, linkVars, LinkInv, DropInv,
            NoLeakedTransport
<1>1. CASE RcDial(r)
  <2>1. /\ rpc[r] = "dial" /\ rpc' = [rpc EXCEPT ![r] = "signal"]
        /\ tr' = dialed + 1 /\ open' = open \cup {dialed + 1}
    BY <1>1 DEF RcDial
  <2>2. open = {}
    BY <2>1 DEF Trs
  <2>3. \A q \in Reconnectors : rpc'[q] # "dial"
    BY <2>1 DEF ReconnectExclusive, Holding, RcStages
  <2>4. QED BY <2>1, <2>2, <2>3
<1>2. CASE RcDrop(r)
  BY <1>2 DEF RcDrop, CurrentClosed
<1>3. CASE RcEnter(r) \/ RcAlready(r) \/ RcStop(r) \/ RcAttempt(r)
  BY <1>3 DEF RcEnter, RcAlready, RcStop, RcAttempt
<1>4. CASE RcDialFails(r) \/ RcUnreachable(r) \/ RcSignal(r)
  BY <1>4 DEF RcDialFails, RcUnreachable, RcSignal, TriesMore
<1>5. CASE RcListen(r) \/ RcHook(r) \/ RcLeave(r)
  BY <1>5 DEF RcListen, RcHook, RcLeave, ReturnsHookErr
<1>6. QED
  BY ONLY <1>1, <1>2, <1>3, <1>4, <1>5, RcRuns(r) \/ RcDialFails(r) DEF RcRuns

\* After a late installation no reconnect passes the test of closed.
LEMMA RcLate ==
  ASSUME TypeOK, LinkInv, NEW r \in Reconnectors, RcRuns(r) \/ RcDialFails(r)
  PROVE  LateInv'
<1> USE DEF TypeOK, RcGoto, OnlyRc, shared, flagVars, histVars, LinkInv, LateInv,
            AtMostOneLateInstall
<1>1. CASE RcDial(r)
  <2>1. rpc[r] = "dial" /\ late = 0 /\ UNCHANGED closed
        /\ rpc' = [rpc EXCEPT ![r] = "signal"]
        /\ late' = IF closed THEN 1 ELSE 0
    BY <1>1 DEF RcDial
  <2>2. \A q \in Reconnectors : rpc'[q] \notin {"drop", "dial"}
    BY <2>1 DEF ReconnectExclusive, Holding, RcStages
  <2>3. QED BY <2>1, <2>2
<1>2. CASE RcAttempt(r)
  BY <1>2 DEF RcAttempt, Wanted
<1>3. CASE RcEnter(r) \/ RcAlready(r) \/ RcStop(r) \/ RcDrop(r)
  BY <1>3 DEF RcEnter, RcAlready, RcStop, RcDrop
<1>4. CASE RcDialFails(r) \/ RcUnreachable(r) \/ RcSignal(r)
  BY <1>4 DEF RcDialFails, RcUnreachable, RcSignal, TriesMore
<1>5. CASE RcListen(r) \/ RcHook(r) \/ RcLeave(r)
  BY <1>5 DEF RcListen, RcHook, RcLeave, ReturnsHookErr
<1>6. QED
  BY ONLY <1>1, <1>2, <1>3, <1>4, <1>5, RcRuns(r) \/ RcDialFails(r) DEF RcRuns

--------------------------------------------------------------------------------
(* The theorems *)

\* The invariant holds throughout.
LEMMA LinkHolds == Spec => []LinkInv
<1>1. TypeOK /\ LinkInv /\ [Next]_vars => LinkInv'
  <2> SUFFICES ASSUME TypeOK, LinkInv, [Next]_vars PROVE LinkInv'
    OBVIOUS
  <2>1. ASSUME NEW r \in Reconnectors, RcRuns(r) \/ RcDialFails(r)
        PROVE  LinkInv'
    BY <2>1, RcExclusive, RcLoops, RcDrops, RcLate DEF LinkInv
  <2>2. CASE Dies \/ UNCHANGED vars
    BY <2>2, DiesChanges
       DEF vars, shared, linkVars, flagVars, histVars, loopVars, LinkInv,
           LoopInv, ReconnectExclusive, DropInv, LateInv, NoLeakedTransport,
           AtMostOneLateInstall
  <2>3. QED
    BY <2>1, <2>2, LoopKeeps, CallKeeps, CloseKeeps DEF Next, CallNext
<1>2. QED BY <1>1, InitLink, TypeCorrect, PTL DEF Spec

\* Of the listeners that failed and the goroutines that timed-out callers
\* started, one at a time is past the test of reconnecting.
THEOREM OneReconnect == Spec => []ReconnectExclusive
<1>1. LinkInv => ReconnectExclusive
  BY DEF LinkInv
<1>2. QED BY <1>1, LinkHolds, PTL

\* The local port is free when a reconnect binds it again: whatever races with
\* Close, no transport but c.tr is open.
THEOREM NoLeak == Spec => []NoLeakedTransport
<1>1. LinkInv => NoLeakedTransport
  BY DEF LinkInv, DropInv
<1>2. QED BY <1>1, LinkHolds, PTL

\* After Close set closed, one transport at most is installed.
THEOREM OneLateInstall == Spec => []AtMostOneLateInstall
<1>1. LinkInv => AtMostOneLateInstall
  BY DEF LinkInv, LateInv
<1>2. QED BY <1>1, LinkHolds, PTL

--------------------------------------------------------------------------------
(* Without auto-reconnect *)

\* The first transport, its listener and its error channel are the only ones,
\* and the channel is closed by the listener's last step.
ManualInv ==
  /\ ~autoReconnect /\ tr = 1 /\ listenErr = 1 /\ panic = "none"
  /\ \A r \in Reconnectors : rpc[r] = "none"
  /\ \A n \in Loops : errChan[n] = 1 /\ lpc[n] # "reconnect"
                      /\ (n # 1 => lpc[n] = "none")
  /\ errClosed # {} => lpc[1] = "gone"
  /\ \A c \in Callers : cpc[c] \notin {"mark", "hook", "spawn"}

\* A client on which EnableAutoReconnect was never called is safe from the nil
\* transport and from misuse of the error channel: callers, the listener and
\* any number of Close and Shutdown calls may interleave as they like.
THEOREM ManualNoPanic ==
  ASSUME AutoReconnect = FALSE
  PROVE  Spec => []NoPanic
<1>0. 1 \in Loops /\ Loops \subseteq Reconnectors
  BY ConnectionAssumption DEF Loops, Trs, Reconnectors
<1>1. Init => ManualInv
  BY <1>0 DEF Init, ManualInv
<1>2. TypeOK /\ ManualInv /\ [Next]_vars => ManualInv'
  <2> SUFFICES ASSUME TypeOK, ManualInv, [Next]_vars PROVE ManualInv'
    OBVIOUS
  <2> USE <1>0 DEF TypeOK, ManualInv, shared, linkVars, errVars, flagVars,
                   histVars, loopVars, callVars
  <2>1. ASSUME NEW n \in Loops, LoopRuns(n) \/ LoopPayload(n) \/ LoopError(n)
        PROVE  ManualInv'
    <3> USE DEF LoopGoto, OnlyLoop
    <3>1. CASE LoopStart(n) \/ LoopRead(n) \/ LoopPayload(n) \/ LoopError(n)
      BY <3>1 DEF LoopStart, LoopRead, LoopPayload, LoopError
    <3>2. CASE LoopMark(n) \/ LoopHook(n) \/ LoopSend(n)
      BY <3>2 DEF LoopMark, LoopHook, LoopSend
    <3>3. CASE LoopReconnect(n) \/ LoopGiveUp(n) \/ LoopClose(n)
      BY <3>3 DEF LoopReconnect, LoopGiveUp, LoopClose
    <3>4. QED BY ONLY <2>1, <3>1, <3>2, <3>3 DEF LoopRuns
  <2>2. ASSUME NEW r \in Reconnectors, RcRuns(r) \/ RcDialFails(r)
        PROVE  ManualInv'
    BY <2>2, RcChanges
  <2>3. ASSUME NEW c \in Callers, CallNext(c) PROVE ManualInv'
    <3> USE DEF CallGoto, OnlyCall
    <3>1. CASE CallBegin(c) \/ CallCapture(c) \/ CallReady(c) \/ CallAbort(c) \/ CallCheck(c)
      BY <3>1 DEF CallBegin, CallCapture, CallReady, CallAbort, CallCheck
    <3>2. CASE CallSend(c) \/ CallSendFails(c) \/ CallResponse(c)
      BY <3>2 DEF CallSend, CallSendFails, CallResponse
    <3>3. CASE CallTimeout(c) \/ CallTrigger(c)
      BY <3>3 DEF CallTimeout, CallTrigger
    <3>4. CASE CallMark(c) \/ CallHook(c) \/ CallSpawn(c)
      BY <3>4 DEF CallMark, CallHook, CallSpawn
    <3>5. QED BY ONLY <2>3, <3>1, <3>2, <3>3, <3>4 DEF CallNext, CallRuns
  <2>4. ASSUME NEW k \in Closers, CloseRuns(k) \/ DisableAutoReconnect(k)
        PROVE  ManualInv'
    BY <2>4 DEF CloseGoto, OnlyClose, CloseRuns, DisableAutoReconnect,
         CloseMark, CloseDone, CloseCheck, CloseTransport, CloseDrain
  <2>5. CASE Dies
    <3>1. ~NilTransport
      BY DEF NilTransport
    <3>2. ~SendOnClosed /\ ~DoubleClose
      BY DEF SendOnClosed, DoubleClose
    <3>3. QED BY <2>5, <3>1, <3>2 DEF Dies
  <2>6. CASE UNCHANGED vars
    BY <2>6 DEF vars
  <2>7. QED BY <2>1, <2>2, <2>3, <2>4, <2>5, <2>6 DEF Next, CallNext
<1>3. ManualInv => NoPanic
  BY DEF ManualInv, NoPanic
<1>4. QED BY <1>1, <1>2, <1>3, TypeCorrect, PTL DEF Spec

--------------------------------------------------------------------------------
(* Without response timeouts *)

\* Only listeners reconnect.
ListenerOnly ==
  /\ \A c \in Callers : cpc[c] \notin {"trigger", "mark", "hook", "spawn"}
  /\ \A r \in Spawns : rpc[r] = "none"

\* The stages of reconnect before the next transport is installed.
Before == {"enter", "check", "drop", "dial"}

\* Only the newest listener is on the way to a new transport, and it marked the
\* client disconnected first.
DownInv ==
  /\ \A n \in Loops : rpc[n] \in Before => n = dialed
  /\ \A n \in Loops :
       n < dialed => lpc[n] \in {"none", "reconnect", "fail", "close", "gone"}
  /\ connected => /\ lpc[dialed] \notin {"hook", "hookErr", "decide"}
                  /\ rpc[dialed] \notin Before
  /\ \A r \in Reconnectors : rpc[r] = "signal" => tr # 0
  /\ ConnectedHasTransport

SoleInv == ListenerOnly /\ DownInv

\* A listener keeps SoleInv: on its way to a reconnect it marks the client
\* disconnected.
LEMMA LoopSole ==
  ASSUME TypeOK, LinkInv, SoleInv, NEW n \in Loops,
         LoopRuns(n) \/ LoopPayload(n) \/ LoopError(n)
  PROVE  SoleInv'
<1>0. /\ lpc \in [Loops -> LoopStages] /\ rpc \in [Reconnectors -> RcStages]
      /\ dialed \in Loops /\ Loops \subseteq Nat /\ Loops \subseteq Reconnectors
      /\ Loops \cap Spawns = {}
  BY Disjoint DEF TypeOK, Reconnectors, Loops, Trs
<1>1. /\ UNCHANGED <<tr, dialed, cpc>> /\ lpc[n] \notin {"none", "reconnect"}
      /\ \A r \in Reconnectors : rpc'[r] \in {rpc[r], "enter"}
      /\ \A r \in Spawns : rpc'[r] = rpc[r]
      /\ \A m \in Loops : m # n => lpc'[m] = lpc[m] /\ rpc'[m] = rpc[m]
  <2>1. UNCHANGED cpc
    BY DEF LoopRuns, LoopStart, LoopRead, LoopPayload, LoopError, LoopMark,
           LoopHook, LoopSend, LoopReconnect, LoopGiveUp, LoopClose, OnlyLoop,
           callVars
  <2>2. UNCHANGED <<tr, dialed>> /\ lpc[n] \notin {"none", "reconnect"}
    BY LoopChanges
  <2>3. PICK s \in LoopStages :
          /\ lpc' = [lpc EXCEPT ![n] = s]
          /\ \/ UNCHANGED rpc
             \/ s = "reconnect" /\ rpc' = [rpc EXCEPT ![n] = "enter"]
    BY LoopChanges
  <2>4. \A m \in Loops : m # n => lpc'[m] = lpc[m]
    BY <1>0, <2>3
  <2>5. \A r \in Reconnectors : r # n => rpc'[r] = rpc[r]
    BY <1>0, <2>3
  <2>6. rpc'[n] \in {rpc[n], "enter"}
    BY <1>0, <2>3
  <2>7. QED BY <1>0, <2>1, <2>2, <2>4, <2>5, <2>6 DEF Reconnectors
<1>2. lpc[n] \notin {"fail", "close", "gone"} => n = dialed
  BY <1>0, <1>1 DEF LinkInv, LoopInv, SoleInv, DownInv
<1>3. ListenerOnly'
  BY <1>1 DEF SoleInv, ListenerOnly
<1> USE <1>0, <1>1, <1>2 DEF SoleInv, DownInv, ConnectedHasTransport, Before,
        LoopGoto, OnlyLoop, shared
<1>4. CASE LoopReconnect(n)
  <2>1. lpc[n] = "decide" /\ lpc'[n] = "reconnect" /\ rpc'[n] = "enter"
        /\ UNCHANGED connected /\ n = dialed
    BY <1>4 DEF LoopReconnect
  <2>2. ~connected
    BY <2>1
  <2>3. QED BY <1>3, <2>1, <2>2
<1>5. CASE LoopMark(n)
  BY <1>3, <1>5 DEF LoopMark, Disconnected
<1>6. CASE LoopStart(n) \/ LoopRead(n) \/ LoopPayload(n) \/ LoopError(n)
  BY <1>3, <1>6 DEF LoopStart, LoopRead, LoopPayload, LoopError
<1>7. CASE LoopHook(n) \/ LoopSend(n)
  BY <1>3, <1>7 DEF LoopHook, LoopSend
<1>8. CASE LoopGiveUp(n) \/ LoopClose(n)
  BY <1>3, <1>8 DEF LoopGiveUp, LoopClose
<1>9. QED
  BY ONLY <1>4, <1>5, <1>6, <1>7, <1>8,
     LoopRuns(n) \/ LoopPayload(n) \/ LoopError(n) DEF LoopRuns

\* A reconnect keeps SoleInv: it belongs to the listener of the last dial.
LEMMA RcSole ==
  ASSUME TypeOK, LinkInv, SoleInv, NEW r \in Reconnectors,
         RcRuns(r) \/ RcDialFails(r)
  PROVE  SoleInv'
<1>0. /\ lpc \in [Loops -> LoopStages] /\ rpc \in [Reconnectors -> RcStages]
      /\ dialed \in Loops /\ Loops \subseteq Nat /\ Loops \subseteq Reconnectors
      /\ r \in Loops /\ lpc[r] = "reconnect" /\ r <= dialed
  <2>1. r \in Loops
    BY RcChanges DEF SoleInv, ListenerOnly, Reconnectors
  <2>2. /\ lpc \in [Loops -> LoopStages] /\ rpc \in [Reconnectors -> RcStages]
        /\ dialed \in Loops /\ Loops \subseteq Nat /\ Loops \subseteq Reconnectors
    BY DEF TypeOK, Reconnectors, Loops, Trs
  <2>3. lpc[r] = "reconnect"
    BY <2>1, RcChanges DEF LinkInv, LoopInv
  <2>4. r <= dialed
    BY <2>1, <2>2, <2>3 DEF LinkInv, LoopInv
  <2>5. QED BY <2>1, <2>2, <2>3, <2>4
<1>1. ListenerOnly'
  <2>1. UNCHANGED cpc
    BY DEF RcRuns, RcEnter, RcAlready, RcStop, RcAttempt, RcDrop, RcDial,
           RcDialFails, RcUnreachable, RcSignal, RcListen, RcHook, RcLeave,
           OnlyRc, callVars
  <2>2. QED
    BY <1>0, <2>1, RcChanges, Disjoint DEF SoleInv, ListenerOnly, Reconnectors
<1>2. \A q \in Reconnectors : q # r => rpc'[q] = rpc[q]
  BY RcChanges
<1> USE <1>0 DEF SoleInv, DownInv, ConnectedHasTransport, Before, RcGoto,
        OnlyRc, shared, linkVars, loopVars
<1>3. CASE RcEnter(r) \/ RcStop(r) \/ RcAttempt(r)
  BY <1>1, <1>3 DEF RcEnter, RcStop, RcAttempt
<1>4. CASE RcDrop(r)
  <2>1. \A q \in Reconnectors : rpc[q] # "signal"
    BY <1>4 DEF RcDrop, LinkInv, ReconnectExclusive, Holding, RcStages
  <2>2. QED BY <1>1, <1>4, <2>1 DEF RcDrop
<1>5. CASE RcDial(r)
  <2>1. /\ rpc[r] = "dial" /\ rpc' = [rpc EXCEPT ![r] = "signal"] /\ lpc' = lpc
        /\ dialed' = dialed + 1 /\ tr' = dialed + 1 /\ UNCHANGED connected
        /\ r = dialed
    BY <1>5 DEF RcDial
  <2>2. ~connected
    BY <2>1
  <2>3. \A n \in Loops : rpc'[n] \notin Before
    BY <2>1
  <2>4. QED BY <1>1, <2>1, <2>2, <2>3
<1>6. CASE RcDialFails(r) \/ RcUnreachable(r)
  BY <1>1, <1>6 DEF RcDialFails, RcUnreachable, TriesMore
<1>7. CASE RcSignal(r)
  BY <1>1, <1>7 DEF RcSignal, LinkInv, LoopInv
<1>8. CASE RcListen(r)
  <2>1. lpc[dialed] = "none" /\ lpc' = [lpc EXCEPT ![dialed] = "start"]
        /\ rpc' = [rpc EXCEPT ![r] = "hook"]
        /\ UNCHANGED <<tr, dialed, connected>> /\ r # dialed
    BY <1>8 DEF RcListen, LinkInv, LoopInv
  <2>2. QED BY <1>1, <2>1
<1>9. CASE RcHook(r)
  BY <1>1, <1>9 DEF RcHook, ReturnsHookErr
<1>10. CASE RcAlready(r) \/ RcLeave(r)
  BY <1>1, <1>10 DEF RcAlready, RcLeave, Back
<1>11. QED
  BY ONLY <1>3, <1>4, <1>5, <1>6, <1>7, <1>8, <1>9, <1>10,
     RcRuns(r) \/ RcDialFails(r) DEF RcRuns

\* A caller without a timeout keeps SoleInv: it triggers nothing.
LEMMA CallSole ==
  ASSUME ResponseTimeout = FALSE, TypeOK, SoleInv, NEW c \in Callers, CallNext(c)
  PROVE  SoleInv'
<1>1. /\ \A d \in Callers : cpc'[d] \notin {"trigger", "mark", "hook", "spawn"}
      /\ UNCHANGED <<tr, dialed, connected, lpc, rpc>>
  <2> USE DEF TypeOK, SoleInv, ListenerOnly, CallGoto, OnlyCall, shared,
              linkVars, loopVars
  <2>1. CASE CallBegin(c) \/ CallCapture(c) \/ CallReady(c) \/ CallAbort(c) \/ CallCheck(c)
    BY <2>1 DEF CallBegin, CallCapture, CallReady, CallAbort, CallCheck
  <2>2. CASE CallSend(c) \/ CallSendFails(c) \/ CallResponse(c)
    BY <2>2 DEF CallSend, CallSendFails, CallResponse
  <2>3. CASE CallTimeout(c) \/ CallTrigger(c) \/ CallMark(c) \/ CallHook(c)
    BY <2>3 DEF CallTimeout, CallTrigger, CallMark, CallHook
  <2>4. CASE CallSpawn(c)
    BY <2>4 DEF CallSpawn
  <2>5. QED BY ONLY <2>1, <2>2, <2>3, <2>4, CallNext(c) DEF CallNext, CallRuns
<1>2. QED
  BY <1>1 DEF SoleInv, ListenerOnly, DownInv, ConnectedHasTransport

\* SoleInv holds throughout when no response timeout lets callers reconnect: only
\* the listener of the newest transport is on its way to replace it.
LEMMA SoleHolds ==
  ASSUME ResponseTimeout = FALSE
  PROVE  Spec => []SoleInv
<1>1. Init => SoleInv
  BY ConnectionAssumption, Disjoint
     DEF Init, SoleInv, ListenerOnly, DownInv, ConnectedHasTransport, Before,
         Reconnectors, Loops, Trs
<1>2. TypeOK /\ LinkInv /\ SoleInv /\ [Next]_vars => SoleInv'
  <2> SUFFICES ASSUME TypeOK, LinkInv, SoleInv, [Next]_vars PROVE SoleInv'
    OBVIOUS
  <2>1. ASSUME NEW k \in Closers, CloseRuns(k) \/ DisableAutoReconnect(k)
        PROVE  SoleInv'
    <3>1. UNCHANGED <<tr, dialed, connected, lpc, rpc, cpc>>
      BY <2>1 DEF CloseRuns, DisableAutoReconnect, CloseMark, CloseDone,
           CloseCheck, CloseTransport, CloseDrain, OnlyClose, shared, linkVars,
           loopVars, callVars
    <3>2. QED BY <3>1 DEF SoleInv, ListenerOnly, DownInv, ConnectedHasTransport
  <2>2. CASE Dies \/ UNCHANGED vars
    BY <2>2, DiesChanges
       DEF vars, shared, linkVars, loopVars, callVars, SoleInv, ListenerOnly,
           DownInv, ConnectedHasTransport
  <2>3. QED
    BY <2>1, <2>2, LoopSole, RcSole, CallSole DEF Next, CallNext
<1>3. QED BY <1>1, <1>2, TypeCorrect, LinkHolds, PTL DEF Spec

\* While callers wait for their responses without a timeout, who finds the
\* connection up finds a transport: the listener that reconnects replaced the
\* connected channel before it dropped the transport, and no older listener
\* still runs.
THEOREM ConnectedMeansTransport ==
  ASSUME ResponseTimeout = FALSE
  PROVE  Spec => []ConnectedHasTransport
<1>1. SoleInv => ConnectedHasTransport
  BY DEF SoleInv, DownInv
<1>2. QED BY <1>1, SoleHolds, PTL

--------------------------------------------------------------------------------
(* What a reconnect drops *)

\* The listener of the newest transport reads that transport, and from the
\* failed read until its reconnect dials again that transport is a suspect; who
\* is past the mark of Close finds the client closed.
SuspectInv ==
  /\ tr \in {0, dialed}
  /\ lpc[dialed] = "recv" => on[dialed] = dialed
  /\ lpc[dialed] \in {"mark", "hook", "hookErr", "decide"}
       \/ rpc[dialed] \in Before => dialed \in suspect
  /\ \A k \in Closers : kpc[k] \in {"done", "check", "tr"} => closed

\* A listener keeps SuspectInv: a failed read makes its transport a suspect.
LEMMA LoopSuspect ==
  ASSUME TypeOK, LinkInv, SoleInv, SuspectInv, NEW n \in Loops,
         LoopRuns(n) \/ LoopPayload(n) \/ LoopError(n)
  PROVE  SuspectInv'
<1>1. /\ lpc \in [Loops -> LoopStages] /\ rpc \in [Reconnectors -> RcStages]
      /\ dialed \in Loops /\ Loops \subseteq Nat /\ Loops \subseteq Reconnectors
      /\ on \in [Loops -> 0..MaxTr]
  BY DEF TypeOK, Reconnectors, Loops, Trs
<1>2. /\ UNCHANGED <<tr, dialed, closed, kpc>>
      /\ lpc[n] \notin {"fail", "close", "gone"} => n = dialed
  <2>1. UNCHANGED kpc
    BY DEF LoopRuns, LoopStart, LoopRead, LoopPayload, LoopError, LoopMark,
           LoopHook, LoopSend, LoopReconnect, LoopGiveUp, LoopClose, OnlyLoop
  <2>2. lpc[n] \notin {"none", "reconnect"} /\ UNCHANGED <<tr, dialed, closed>>
    BY LoopChanges
  <2>3. QED BY <1>1, <2>1, <2>2 DEF LinkInv, LoopInv, SoleInv, DownInv
<1> USE <1>1, <1>2 DEF SuspectInv, LoopGoto, OnlyLoop, shared, histVars
<1>3. CASE LoopStart(n) \/ LoopRead(n)
  BY <1>3 DEF LoopStart, LoopRead
<1>4. CASE LoopPayload(n) \/ LoopError(n)
  BY <1>4 DEF LoopPayload, LoopError
<1>5. CASE LoopMark(n) \/ LoopHook(n) \/ LoopSend(n)
  BY <1>5 DEF LoopMark, LoopHook, LoopSend
<1>6. CASE LoopReconnect(n)
  BY <1>6 DEF LoopReconnect
<1>7. CASE LoopGiveUp(n) \/ LoopClose(n)
  BY <1>7 DEF LoopGiveUp, LoopClose
<1>8. QED
  BY ONLY <1>3, <1>4, <1>5, <1>6, <1>7,
     LoopRuns(n) \/ LoopPayload(n) \/ LoopError(n) DEF LoopRuns

\* A reconnect keeps SuspectInv: nobody listens yet on what it installs.
LEMMA RcSuspect ==
  ASSUME TypeOK, LinkInv, SoleInv, SuspectInv, NEW r \in Reconnectors,
         RcRuns(r) \/ RcDialFails(r)
  PROVE  SuspectInv'
<1>1. /\ lpc \in [Loops -> LoopStages] /\ rpc \in [Reconnectors -> RcStages]
      /\ dialed \in Loops /\ Loops \subseteq Nat /\ Loops \subseteq Reconnectors
      /\ r \in Loops /\ lpc[r] = "reconnect" /\ r <= dialed
      /\ rpc[r] \in Before => r = dialed
  <2>1. r \in Loops
    BY RcChanges DEF SoleInv, ListenerOnly, Reconnectors
  <2>2. /\ lpc \in [Loops -> LoopStages] /\ rpc \in [Reconnectors -> RcStages]
        /\ dialed \in Loops /\ Loops \subseteq Nat /\ Loops \subseteq Reconnectors
    BY DEF TypeOK, Reconnectors, Loops, Trs
  <2>3. lpc[r] = "reconnect"
    BY <2>1, RcChanges DEF LinkInv, LoopInv
  <2>4. r <= dialed
    BY <2>1, <2>2, <2>3 DEF LinkInv, LoopInv
  <2>5. rpc[r] \in Before => r = dialed
    BY <2>1 DEF SoleInv, DownInv
  <2>6. QED BY <2>1, <2>2, <2>3, <2>4, <2>5
<1>2. UNCHANGED <<closed, kpc, suspect, on>>
  BY DEF RcRuns, RcEnter, RcAlready, RcStop, RcAttempt, RcDrop, RcDial,
         RcDialFails, RcUnreachable, RcSignal, RcListen, RcHook, RcLeave,
         OnlyRc, shared, flagVars, histVars, loopVars
<1> USE <1>1, <1>2 DEF SuspectInv, Before, RcGoto, OnlyRc, shared, linkVars,
        loopVars
<1>3. CASE RcEnter(r) \/ RcStop(r) \/ RcAttempt(r) \/ RcDrop(r)
  BY <1>3 DEF RcEnter, RcStop, RcAttempt, RcDrop
<1>4. CASE RcDial(r)
  <2>1. /\ rpc[r] = "dial" /\ rpc' = [rpc EXCEPT ![r] = "signal"] /\ lpc' = lpc
        /\ dialed' = dialed + 1 /\ tr' = dialed + 1 /\ r = dialed
        /\ dialed + 1 \in Loops
    BY <1>4, ConnectionAssumption DEF RcDial, Loops, Trs
  <2>2. lpc[dialed + 1] = "none" /\ rpc[dialed + 1] = "none"
    BY <2>1 DEF LinkInv, LoopInv
  <2>3. QED BY <2>1, <2>2
<1>5. CASE RcDialFails(r) \/ RcUnreachable(r)
  BY <1>5 DEF RcDialFails, RcUnreachable, TriesMore
<1>6. CASE RcSignal(r) \/ RcHook(r)
  BY <1>6 DEF RcSignal, RcHook, ReturnsHookErr
<1>7. CASE RcListen(r)
  <2>1. rpc[dialed] = "none" /\ lpc' = [lpc EXCEPT ![dialed] = "start"]
        /\ rpc' = [rpc EXCEPT ![r] = "hook"] /\ UNCHANGED <<tr, dialed>>
    BY <1>7 DEF RcListen, LinkInv, LoopInv
  <2>2. QED BY <2>1
<1>8. CASE RcAlready(r) \/ RcLeave(r)
  BY <1>8 DEF RcAlready, RcLeave, Back
<1>9. QED
  BY ONLY <1>3, <1>4, <1>5, <1>6, <1>7, <1>8, RcRuns(r) \/ RcDialFails(r)
     DEF RcRuns

\* A caller keeps SuspectInv: it can only add suspects.
LEMMA CallSuspect ==
  ASSUME ResponseTimeout = FALSE, TypeOK, SoleInv, SuspectInv,
         NEW c \in Callers, CallNext(c)
  PROVE  SuspectInv'
<1>1. /\ UNCHANGED <<tr, dialed, closed, lpc, rpc, on, kpc>>
      /\ suspect \subseteq suspect'
  <2> USE DEF SoleInv, ListenerOnly, CallGoto, OnlyCall, shared, linkVars,
              flagVars, histVars, loopVars
  <2>1. CASE CallBegin(c) \/ CallCapture(c) \/ CallReady(c) \/ CallAbort(c) \/ CallCheck(c)
    BY <2>1 DEF CallBegin, CallCapture, CallReady, CallAbort, CallCheck
  <2>2. CASE CallSend(c) \/ CallSendFails(c) \/ CallResponse(c)
    BY <2>2 DEF CallSend, CallSendFails, CallResponse
  <2>3. CASE CallTimeout(c) \/ CallTrigger(c) \/ CallMark(c) \/ CallHook(c)
    BY <2>3 DEF CallTimeout, CallTrigger, CallMark, CallHook
  <2>4. CASE CallSpawn(c)
    BY <2>4 DEF CallSpawn
  <2>5. QED BY ONLY <2>1, <2>2, <2>3, <2>4, CallNext(c) DEF CallNext, CallRuns
<1>2. QED BY <1>1 DEF SuspectInv

\* Close keeps SuspectInv: it sets closed before anything else.
LEMMA CloseSuspect ==
  ASSUME TypeOK, SuspectInv, NEW k \in Closers,
         CloseRuns(k) \/ DisableAutoReconnect(k)
  PROVE  SuspectInv'
<1>1. UNCHANGED <<tr, dialed, lpc, rpc, on, suspect>> /\ kpc \in [Closers -> CloseStages]
  BY DEF CloseRuns, DisableAutoReconnect, CloseMark, CloseDone, CloseCheck,
         CloseTransport, CloseDrain, OnlyClose, shared, linkVars, histVars,
         loopVars, TypeOK
<1>2. \A j \in Closers : kpc'[j] \in {"done", "check", "tr"} => closed'
  <2> USE <1>1 DEF SuspectInv, CloseGoto, OnlyClose, shared, flagVars
  <2>1. CASE CloseMark(k)
    BY <2>1 DEF CloseMark
  <2>2. CASE DisableAutoReconnect(k) \/ CloseDone(k)
    BY <2>2 DEF DisableAutoReconnect, CloseDone
  <2>3. CASE CloseCheck(k) \/ CloseTransport(k) \/ CloseDrain(k)
    BY <2>3 DEF CloseCheck, CloseTransport, CloseDrain
  <2>4. QED
    BY ONLY <2>1, <2>2, <2>3, CloseRuns(k) \/ DisableAutoReconnect(k)
       DEF CloseRuns
<1>3. QED BY <1>1, <1>2 DEF SuspectInv

\* What a step closes, and with which right: only reconnect and Close close
\* transports.
LEMMA StepDrops ==
  ASSUME TypeOK, LinkInv, SoleInv, SuspectInv, [Next]_vars,
         NEW t \in open, t \notin open'
  PROVE  t \in suspect \/ closed
<1>1. t = tr /\ t = dialed
  <2>1. t = tr
    BY DEF LinkInv, DropInv, NoLeakedTransport
  <2>2. t # 0
    BY DEF TypeOK, Trs
  <2>3. QED BY <2>1, <2>2 DEF SuspectInv
<1>2. CASE \E r \in Reconnectors : RcRuns(r) \/ RcDialFails(r)
  <2>1. PICK r \in Reconnectors : RcRuns(r) \/ RcDialFails(r)
    BY <1>2
  <2>2. RcDrop(r)
    BY <2>1 DEF RcRuns, RcEnter, RcAlready, RcStop, RcAttempt, RcDial,
         RcDialFails, RcUnreachable, RcSignal, RcListen, RcHook, RcLeave,
         OnlyRc, shared, linkVars
  <2>3. rpc[r] \in Before /\ r \in Loops
    BY <2>2 DEF RcDrop, RcGoto, Before, SoleInv, ListenerOnly, Reconnectors
  <2>4. rpc[dialed] \in Before
    BY <2>3 DEF SoleInv, DownInv
  <2>5. QED BY <1>1, <2>4 DEF SuspectInv
<1>3. CASE \E k \in Closers : CloseRuns(k) \/ DisableAutoReconnect(k)
  <2>1. PICK k \in Closers : CloseRuns(k) \/ DisableAutoReconnect(k)
    BY <1>3
  <2>2. CloseTransport(k)
    BY <2>1 DEF CloseRuns, DisableAutoReconnect, CloseMark, CloseDone,
         CloseCheck, CloseDrain, OnlyClose, shared, linkVars
  <2>3. QED BY <2>2 DEF CloseTransport, CloseGoto, SuspectInv
<1>4. CASE Dies \/ UNCHANGED vars
  BY <1>4, DiesChanges DEF vars, shared, linkVars
<1>5. QED BY <1>2, <1>3, <1>4, LoopChanges, CallChanges DEF Next, CallNext

\* While callers wait for their responses without a timeout, a reconnect never
\* closes a transport that still works: what an open client drops failed a read.
THEOREM DropsOnlySuspects ==
  ASSUME ResponseTimeout = FALSE
  PROVE  Spec => OnlySuspectsDropped
<1>1. Init => SuspectInv
  BY ConnectionAssumption, Disjoint
     DEF Init, SuspectInv, Before, Reconnectors, Loops, Trs
<1>2. TypeOK /\ LinkInv /\ SoleInv /\ SuspectInv /\ [Next]_vars => SuspectInv'
  <2> SUFFICES ASSUME TypeOK, LinkInv, SoleInv, SuspectInv, [Next]_vars
               PROVE  SuspectInv'
    OBVIOUS
  <2>1. CASE Dies \/ UNCHANGED vars
    BY <2>1, DiesChanges
       DEF vars, shared, linkVars, flagVars, histVars, loopVars, SuspectInv
  <2>2. QED
    BY <2>1, LoopSuspect, RcSuspect, CallSuspect, CloseSuspect
       DEF Next, CallNext
<1>3. TypeOK /\ LinkInv /\ SoleInv /\ SuspectInv /\ [Next]_vars
        => [\A t \in open : t \notin open' => t \in suspect \/ closed]_vars
  BY StepDrops
<1>4. QED
  BY <1>1, <1>2, <1>3, TypeCorrect, LinkHolds, SoleHolds, PTL
     DEF Spec, OnlySuspectsDropped
================================================================================
