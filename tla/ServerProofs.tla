------------------------------ MODULE ServerProofs ------------------------------
(***************************************************************************)
(* Proofs about the life of the simulator, for any peers, closers, buffer    *)
(* and bounds.                                                              *)
(***************************************************************************)
EXTENDS Server, SequenceTheorems, TLAPS

--------------------------------------------------------------------------------
(* Types *)

CloseType ==
  /\ transport \in {"udp", "tcp"} /\ heard \in Hearing
  /\ closed \in BOOLEAN /\ done \in BOOLEAN /\ lnOpen \in BOOLEAN
  /\ kst \in [Closers -> {"idle", "marked", "signalled", "closed", "second"}]
  /\ reporting \subseteq Peers
LoopType ==
  /\ loop \in LoopStages /\ from \in Peers \cup {NoPeer}
  /\ errs \in 0..Buffer /\ errClosed \in BOOLEAN /\ told \in BOOLEAN
  /\ faults \in 0..MaxFaults
ConnType ==
  conn \in [Peers -> ConnStages] /\ panic \in Peers \cup {NoPeer} /\ died \in BOOLEAN
MailType ==
  /\ inbox \in [Peers -> Seq(Messages)]
  /\ answer \in [Peers -> {"none", "hs", "data"}]
PeerType == peer \in [Peers -> PeerStages] /\ sent \in [Peers -> 0..MaxSent]

\* TypeOK by the parts that an action can disturb.
LEMMA TypeParts == TypeOK <=> CloseType /\ LoopType /\ ConnType /\ MailType /\ PeerType
<1>1. /\ {closed, done, lnOpen} \subseteq BOOLEAN
           <=> closed \in BOOLEAN /\ done \in BOOLEAN /\ lnOpen \in BOOLEAN
      /\ {errClosed, told} \subseteq BOOLEAN
           <=> errClosed \in BOOLEAN /\ told \in BOOLEAN
  BY Zenon
<1>2. QED
  BY <1>1, ZenonT(60) DEF TypeOK, CloseType, LoopType, ConnType, MailType, PeerType

\* A step, by who takes it.
LoopStep == LoopNext \/ LoopFails
PeerStep(p) == \/ ClientNext(p) \/ DialUdp(p) \/ DialTcp(p) \/ Ask(p)
               \/ StrangerSends(p) \/ Hangup(p)
CloseStep(k) == CloseMark(k) \/ CloseNext(k)

\* Every step is one of these.
LEMMA StepKinds ==
  [Next]_vars => \/ LoopStep \/ ReadErr \/ UNCHANGED vars
                 \/ \E p \in Peers : ConnNext(p) \/ Dies(p) \/ PeerStep(p)
                 \/ Up /\ \E k \in Closers : CloseStep(k)
BY DEF Next, LoopStep, PeerStep, CloseStep

\* What the loops leave alone.
LEMMA LoopFrame ==
  LoopStep => UNCHANGED <<transport, heard, closeVars, peerVars, panic, died>>
BY DEF LoopStep, LoopNext, LoopFails, LoopIs, UdpTop, UdpRead, UdpReply, Accept,
       LoopJudge, LoopReport

\* What the handler of a connection leaves alone.
LEMMA ConnFrame ==
  ASSUME NEW p \in Peers, ConnNext(p)
  PROVE  UNCHANGED <<transport, heard, closeVars, loopVars, errClosed, told,
                     peerVars, faults, panic, died>>
BY DEF ConnNext, ConnGoto, HandleFirst, Greet, HandleNext, Reply, ConnReadFails,
       ConnWriteFails, ConnJudge, ConnReport

\* The end of the process, whatever it is due to.
LEMMA DiesFrame ==
  ASSUME NEW p \in Peers, Dies(p)
  PROVE  /\ Ends
         /\ panic' = panic \/ (panic' = p /\ errClosed /\ conn[p] = "report")
         /\ died' = died \/ died' = TRUE
BY DEF Dies, UdpDies, HandleDies, ConnPanics

\* What a peer leaves alone.
LEMMA PeerFrame ==
  ASSUME NEW p \in Peers, PeerStep(p)
  PROVE  UNCHANGED <<transport, heard, closeVars, loopVars, errVars, faults, panic, died>>
BY DEF PeerStep, ClientNext, PeerGoto, DialUdp, DialTcp, SendHandshake, Ask,
       StrangerSends, Receive, PeerFails, Hangup

\* What Close leaves alone.
LEMMA CloseFrame ==
  ASSUME NEW k \in Closers, CloseStep(k)
  PROVE  UNCHANGED <<transport, heard, loopVars, errVars, inbox, answer, peerVars,
                     faults, panic, died>>
BY DEF CloseStep, CloseNext, CloserGoto, CloseMark, CloseDone, CloseSocket

\* Close keeps its types.
LEMMA CloseTypes == ASSUME CloseType, [Next]_vars PROVE CloseType'
<1> USE DEF CloseType, closeVars
<1>1. CASE UNCHANGED <<transport, heard, closeVars>>
  BY <1>1
<1>2. CASE ReadErr
  <2>1. heard' \in Hearing /\ UNCHANGED <<transport, closeVars>>
    BY <1>2 DEF ReadErr, Hearing
  <2>2. QED BY <2>1
<1>3. ASSUME NEW k \in Closers, CloseStep(k) PROVE CloseType'
  <2>1. kst' \in [Closers -> {"idle", "marked", "signalled", "closed", "second"}]
    BY <1>3 DEF CloseStep, CloseNext, CloserGoto, CloseMark, CloseDone, CloseSocket
  <2>2. closed' \in BOOLEAN /\ done' \in BOOLEAN /\ lnOpen' \in BOOLEAN
    BY <1>3, Zenon DEF CloseStep, CloseNext, CloseMark, CloseDone, CloseSocket
  <2>3. reporting' \subseteq Peers
    BY <1>3 DEF CloseStep, CloseNext, CloseMark, CloseDone, CloseSocket
  <2>4. QED BY <1>3, <2>1, <2>2, <2>3, CloseFrame
<1>4. ASSUME NEW p \in Peers, Dies(p) PROVE CloseType'
  BY <1>4, DiesFrame DEF Ends
<1>5. QED
  BY <1>1, <1>2, <1>3, <1>4, StepKinds, LoopFrame, ConnFrame, PeerFrame DEF vars

\* The error channel and the loops keep their types.
LEMMA LoopTypes == ASSUME LoopType, [Next]_vars PROVE LoopType'
<1> USE DEF LoopType, LoopStages, loopVars, errVars
<1>1. CASE UNCHANGED <<loopVars, errVars, faults>>
  BY <1>1
<1>2. CASE ReadErr
  BY <1>2, ServerAssumption DEF ReadErr
<1>3. CASE LoopStep
  <2> USE DEF LoopIs, EndLoop
  <2>1. CASE UdpTop
    BY <1>3, <2>1 DEF UdpTop
  <2>2. ASSUME NEW p \in Peers, UdpRead(p) PROVE LoopType'
    BY <2>2 DEF UdpRead
  <2>3. CASE UdpReply
    BY <2>3 DEF UdpReply
  <2>4. ASSUME NEW p \in Peers, Accept(p) PROVE LoopType'
    BY <2>4 DEF Accept
  <2>5. CASE LoopJudge
    BY <2>5 DEF LoopJudge
  <2>6. CASE LoopReport
    BY <2>6, ServerAssumption DEF LoopReport, Room
  <2>7. CASE LoopFails
    BY <2>7, ServerAssumption DEF LoopFails
  <2>8. QED BY <1>3, <2>1, <2>2, <2>3, <2>4, <2>5, <2>6, <2>7 DEF LoopStep, LoopNext
<1>4. ASSUME NEW p \in Peers, ConnNext(p) PROVE LoopType'
  <2>1. CASE errs' = errs
    BY <1>4, <2>1, ConnFrame
  <2>2. CASE ConnReport(p)
    BY <1>4, <2>2, ConnFrame, ServerAssumption DEF ConnReport, Room
  <2>3. QED
    BY <1>4, <2>1, <2>2
       DEF ConnNext, HandleFirst, Greet, HandleNext, Reply, ConnReadFails,
           ConnWriteFails, ConnJudge
<1>5. ASSUME NEW p \in Peers, Dies(p) PROVE LoopType'
  BY <1>5, DiesFrame DEF Ends
<1>6. QED BY <1>1, <1>2, <1>3, <1>4, <1>5, StepKinds, PeerFrame, CloseFrame DEF vars

\* The connections keep their types.
LEMMA ConnTypes == ASSUME ConnType, [Next]_vars PROVE ConnType'
<1> USE DEF ConnType, ConnStages
<1>1. CASE UNCHANGED <<conn, panic, died>>
  BY <1>1
<1>2. CASE LoopStep
  BY <1>2 DEF LoopStep, LoopNext, LoopFails, LoopIs, UdpTop, UdpRead, UdpReply,
              Accept, LoopJudge, LoopReport
<1>3. ASSUME NEW p \in Peers, ConnNext(p) PROVE ConnType'
  BY <1>3 DEF ConnNext, ConnGoto, HandleFirst, Greet, HandleNext, Reply,
              ConnReadFails, ConnWriteFails, ConnJudge, ConnReport
<1>4. ASSUME NEW p \in Peers, PeerStep(p) PROVE ConnType'
  BY <1>4 DEF PeerStep, ClientNext, PeerGoto, Post, DialUdp, DialTcp, SendHandshake,
              Ask, StrangerSends, Receive, PeerFails, Hangup
<1>5. ASSUME NEW k \in Closers, CloseStep(k) PROVE ConnType'
  BY <1>5 DEF CloseStep, CloseNext, CloserGoto, CloseMark, CloseDone, CloseSocket
<1>6. ASSUME NEW p \in Peers, Dies(p) PROVE ConnType'
  BY <1>6, DiesFrame DEF Ends
<1>7. QED BY <1>1, <1>2, <1>3, <1>4, <1>5, <1>6, StepKinds DEF ReadErr, vars

\* What is on its way keeps its types.
LEMMA MailTypes == ASSUME MailType, [Next]_vars PROVE MailType'
<1> USE DEF MailType, Deliver
<1>1. CASE UNCHANGED <<inbox, answer>>
  BY <1>1
<1>2. \A p \in Peers : inbox[p] # <<>> => Tail(inbox[p]) \in Seq(Messages)
  BY HeadTailProperties
<1>3. <<>> \in Seq(Messages)
  BY EmptySeq
<1>4. CASE LoopStep
  BY <1>2, <1>4
     DEF LoopStep, LoopNext, LoopFails, UdpTop, UdpRead, Take, UdpReply, Accept, LoopJudge,
         LoopReport
<1>5. ASSUME NEW p \in Peers, ConnNext(p) PROVE MailType'
  BY <1>2, <1>3, <1>5
     DEF ConnNext, HandleFirst, Greet, HandleNext, Reply, ConnReadFails, Take, Discard,
         ConnWriteFails, ConnJudge, ConnReport
<1>6. ASSUME NEW p \in Peers, PeerStep(p) PROVE MailType'
  <2>1. ASSUME NEW m \in Messages, Post(p, m) PROVE MailType'
    <3>1. Append(inbox[p], m) \in Seq(Messages)
      BY AppendProperties
    <3>2. QED BY <2>1, <3>1 DEF Post
  <2>2. CASE SendHandshake(p) \/ Ask(p) \/ StrangerSends(p)
    BY <2>1, <2>2 DEF SendHandshake, Ask, StrangerSends, Messages, Datagrams, Frames,
                      Commands
  <2>3. CASE DialUdp(p) \/ DialTcp(p) \/ Receive(p) \/ Hangup(p)
    BY <2>3 DEF DialUdp, DialTcp, Receive, Hangup
  <2>4. QED BY <1>6, <2>2, <2>3 DEF PeerStep, ClientNext, PeerFails
<1>7. ASSUME NEW p \in Peers, Dies(p) PROVE MailType'
  BY <1>3, <1>7, DiesFrame DEF Ends
<1>8. QED BY <1>1, <1>4, <1>5, <1>6, <1>7, StepKinds, CloseFrame DEF ReadErr, vars

\* The peers keep their types.
LEMMA PeerTypes == ASSUME PeerType, [Next]_vars PROVE PeerType'
<1> USE DEF PeerType, PeerStages, peerVars
<1>1. CASE UNCHANGED peerVars
  BY <1>1
<1>2. ASSUME NEW p \in Peers, PeerStep(p) PROVE PeerType'
  <2>1. peer' \in [Peers -> PeerStages]
    BY <1>2 DEF PeerStep, ClientNext, PeerGoto, DialUdp, DialTcp, SendHandshake, Ask,
                StrangerSends, Receive, PeerFails, Hangup, Live
  <2>2. sent' \in [Peers -> 0..MaxSent]
    BY <1>2, ServerAssumption
       DEF PeerStep, ClientNext, Post, DialUdp, DialTcp, SendHandshake, Ask,
           StrangerSends, Receive, PeerFails, Hangup
  <2>3. QED BY <2>1, <2>2
<1>3. ASSUME NEW p \in Peers, Dies(p) PROVE UNCHANGED peerVars
  BY <1>3, DiesFrame DEF Ends
<1>4. QED
  BY <1>1, <1>2, <1>3, StepKinds, LoopFrame, ConnFrame, CloseFrame DEF ReadErr, vars

\* Every variable keeps its type (server.go:34-48).
THEOREM TypeCorrect == Spec => []TypeOK
<1>1. Init => TypeOK
  <2>1. <<>> \in Seq(Messages)
    BY EmptySeq
  <2>2. SUFFICES ASSUME Init PROVE CloseType /\ LoopType /\ ConnType /\ MailType /\ PeerType
    BY TypeParts
  <2>3. CloseType
    BY <2>2 DEF Init, CloseType
  <2>4. LoopType
    <3>1. loop \in {"top", "read"}
      BY <2>2 DEF Init
    <3>2. errs \in 0..Buffer /\ faults \in 0..MaxFaults
      BY <2>2, ServerAssumption DEF Init
    <3>3. QED BY <2>2, <3>1, <3>2 DEF Init, LoopType, LoopStages
  <2>5. ConnType /\ MailType /\ PeerType
    <3>1. ConnType
      BY <2>2 DEF Init, ConnType, ConnStages
    <3>2. MailType
      BY <2>1, <2>2 DEF Init, MailType
    <3>3. PeerType
      BY <2>2, ServerAssumption DEF Init, PeerType, PeerStages
    <3>4. QED BY <3>1, <3>2, <3>3
  <2>6. QED BY <2>3, <2>4, <2>5
<1>2. TypeOK /\ [Next]_vars => TypeOK'
  <2>1. ASSUME TypeOK, [Next]_vars PROVE TypeOK'
    <3>1. CloseType /\ LoopType /\ ConnType /\ MailType /\ PeerType
      BY <2>1, TypeParts
    <3>2. CloseType' /\ LoopType' /\ ConnType' /\ MailType' /\ PeerType'
      BY <2>1, <3>1, CloseTypes, LoopTypes, ConnTypes, MailTypes, PeerTypes
    <3>3. QED BY <3>2, TypeParts, PTL
  <2>2. QED BY <2>1
<1>3. QED BY <1>1, <1>2, PTL DEF Spec

--------------------------------------------------------------------------------
(* The error channel *)

\* Close marks first and signals then; the channel is closed after either, or after
\* an error; whoever is still to report when closed is set is remembered.
ErrInv ==
  /\ done => closed
  /\ \A k \in Closers : kst[k] # "idle" => closed
  /\ errClosed => closed \/ told
  /\ closed => {p \in Peers : conn[p] = "report"} \subseteq reporting
  /\ panic # NoPeer => told \/ panic \in reporting

\* The loops close the channel after Close or after an error.
LEMMA LoopErrs == ASSUME ConnType, ErrInv, LoopStep PROVE ErrInv'
<1>1. UNCHANGED <<closed, done, kst, reporting, panic>>
  BY LoopFrame DEF closeVars
<1>2. told => told'
  BY Zenon DEF LoopStep, LoopNext, LoopFails, UdpTop, UdpRead, UdpReply, Accept,
               LoopJudge, LoopReport, errVars
<1>3. errClosed' => errClosed \/ done \/ closed \/ told'
  BY Zenon DEF LoopStep, LoopNext, LoopFails, UdpTop, UdpRead, UdpReply, Accept,
               LoopJudge, LoopReport, EndLoop, errVars
<1>4. \A p \in Peers : conn'[p] = "report" => conn[p] = "report"
  BY DEF LoopStep, LoopNext, LoopFails, UdpTop, UdpRead, UdpReply, Accept,
         LoopJudge, LoopReport, ConnType
<1>5. errClosed' => closed' \/ told'
  BY <1>1, <1>2, <1>3, Zenon DEF ErrInv
<1>6. panic' # NoPeer => told' \/ panic' \in reporting'
  BY <1>1, <1>2, Zenon DEF ErrInv
<1>7. closed' => {p \in Peers : conn'[p] = "report"} \subseteq reporting'
  BY <1>1, <1>4 DEF ErrInv
<1>8. QED BY <1>1, <1>5, <1>6, <1>7, Zenon DEF ErrInv

\* A handler decides to report only before Close has marked the server.
LEMMA ConnErrs == ASSUME ConnType, ErrInv, NEW p \in Peers, ConnNext(p) PROVE ErrInv'
<1>1. UNCHANGED <<closed, done, kst, reporting, errClosed, told, panic>>
  BY ConnFrame DEF closeVars
<1>2. \A q \in Peers : conn'[q] = "report" => conn[q] = "report" \/ ~closed
  BY DEF ConnNext, ConnGoto, HandleFirst, Greet, HandleNext, Reply, ConnReadFails,
         ConnWriteFails, ConnJudge, ConnReport, ConnType
<1>3. closed' => {q \in Peers : conn'[q] = "report"} \subseteq reporting'
  BY <1>1, <1>2 DEF ErrInv
<1>4. QED BY <1>1, <1>3, Zenon DEF ErrInv

\* A handler that sends on the closed channel was to report before.
LEMMA EndErrs == ASSUME ErrInv, NEW p \in Peers, Dies(p) PROVE ErrInv'
<1>1. UNCHANGED <<closed, done, kst, reporting, errClosed, told>>
  BY DiesFrame DEF Ends, errVars
<1>2. \A q \in Peers : conn'[q] # "report"
  BY DiesFrame DEF Ends
<1>3. panic' # NoPeer => told' \/ panic' \in reporting'
  <2>1. CASE panic' = panic
    BY <1>1, <2>1, Zenon DEF ErrInv
  <2>2. CASE panic' = p /\ errClosed /\ conn[p] = "report"
    BY <1>1, <2>2 DEF ErrInv
  <2>3. QED BY <2>1, <2>2, DiesFrame
<1>4. closed' => {q \in Peers : conn'[q] = "report"} \subseteq reporting'
  BY <1>2
<1>5. QED BY <1>1, <1>3, <1>4, Zenon DEF ErrInv

\* Close remembers who is still to report when it marks the server.
LEMMA CloseErrs ==
  ASSUME ConnType, ErrInv, panic = NoPeer, NEW k \in Closers, CloseStep(k)
  PROVE  ErrInv'
<1>1. UNCHANGED <<errClosed, told, panic>>
  BY CloseFrame DEF errVars
<1>2. /\ closed => closed'
      /\ done' => closed'
      /\ \A j \in Closers : kst'[j] # "idle" => closed'
  BY ZenonT(60) DEF CloseStep, CloseNext, CloserGoto, CloseMark, CloseDone, CloseSocket, ErrInv
<1>3. closed' => {p \in Peers : conn'[p] = "report"} \subseteq reporting'
  BY DEF CloseStep, CloseNext, CloseMark, CloseDone, CloseSocket, ErrInv
<1>4. QED BY <1>1, <1>2, <1>3, Zenon DEF ErrInv

\* The channel's invariant.
LEMMA ErrInvariant == Spec => [](ConnType /\ ErrInv)
<1>1. Init => ConnType /\ ErrInv
  BY DEF Init, ConnType, ConnStages, ErrInv
<1>2. ConnType /\ ErrInv /\ [Next]_vars => (ConnType /\ ErrInv)'
  <2>1. ASSUME ConnType, ErrInv, [Next]_vars PROVE ErrInv'
    <3>1. CASE UNCHANGED <<closeVars, errVars, conn, panic>>
      <4>1. UNCHANGED <<closed, done, kst, reporting, errClosed, told, conn, panic>>
        BY <3>1 DEF closeVars, errVars
      <4>2. QED BY <2>1, <4>1, Zenon DEF ErrInv
    <3>2. CASE ReadErr
      <4>1. UNCHANGED <<closed, done, kst, reporting, errClosed, told, conn, panic>>
        BY <3>2 DEF ReadErr, closeVars
      <4>2. QED BY <2>1, <4>1, Zenon DEF ErrInv
    <3>3. ASSUME NEW p \in Peers, PeerStep(p) PROVE ErrInv'
      <4>1. UNCHANGED <<closed, done, kst, reporting, errClosed, told, panic>>
        BY <3>3, PeerFrame DEF closeVars, errVars
      <4>2. \A q \in Peers : conn'[q] = "report" => conn[q] = "report"
        BY <2>1, <3>3
           DEF ConnType, PeerStep, ClientNext, Post, DialUdp, DialTcp, SendHandshake,
               Ask, StrangerSends, Receive, PeerFails, Hangup
      <4>3. closed' => {q \in Peers : conn'[q] = "report"} \subseteq reporting'
        BY <2>1, <4>1, <4>2 DEF ErrInv
      <4>4. QED BY <2>1, <4>1, <4>3, Zenon DEF ErrInv
    <3>4. QED
      BY <2>1, <3>1, <3>2, <3>3, StepKinds, LoopErrs, ConnErrs, EndErrs, CloseErrs DEF Up, vars
  <2>2. QED BY <2>1, ConnTypes
<1>3. QED BY <1>1, <1>2, PTL DEF Spec

\* The error channel (server.go:112, 213-249, 310-367) is closed only after Close
\* or after an error was put in it; and only a connection that failed before Close,
\* or after the loop had ended on an error, ever sends on it when it is closed.
THEOREM ErrChannel == Spec => []ErrChannelKept
<1>1. ConnType /\ ErrInv => ErrChannelKept
  BY Zenon DEF ErrInv, ErrChannelKept
<1>2. QED BY <1>1, ErrInvariant, PTL

--------------------------------------------------------------------------------
(* What Close stops *)

\* The socket is closed when a Close is done; without TCP there are no connections.
ShutInv ==
  /\ \A k \in Closers : kst[k] = "closed" => ~lnOpen
  /\ transport = "udp" => \A p \in Peers : conn[p] = "none"

\* The invariant of what Close stops.
LEMMA ShutInvariant == Spec => [](ConnType /\ CloseType /\ ShutInv)
<1>1. Init => ConnType /\ CloseType /\ ShutInv
  <2>1. SUFFICES ASSUME Init PROVE ConnType /\ CloseType /\ ShutInv
    OBVIOUS
  <2>2. ConnType /\ ShutInv
    BY <2>1 DEF Init, ConnType, ConnStages, ShutInv
  <2>3. CloseType
    BY <2>1 DEF Init, CloseType
  <2>4. QED BY <2>2, <2>3
<1>2. ASSUME ConnType, CloseType, ShutInv, [Next]_vars PROVE ShutInv'
  <2>1. CASE LoopStep
    <3>1. UNCHANGED <<transport, lnOpen, kst>>
      BY <2>1, LoopFrame DEF closeVars
    <3>2. \A p \in Peers : transport = "udp" => conn'[p] = conn[p]
      BY <2>1 DEF LoopStep, LoopNext, LoopFails, UdpTop, UdpRead, UdpReply, Accept,
                  LoopJudge, LoopReport
    <3>3. QED BY <1>2, <3>1, <3>2 DEF ShutInv
  <2>2. ASSUME NEW p \in Peers, ConnNext(p) PROVE ShutInv'
    <3>1. UNCHANGED <<transport, lnOpen, kst>>
      BY <2>2, ConnFrame DEF closeVars
    <3>2. conn[p] # "none"
      BY <2>2 DEF ConnNext, ConnGoto, HandleFirst, Greet, HandleNext, Reply,
                  ConnReadFails, ConnWriteFails, ConnJudge, ConnReport
    <3>3. QED BY <1>2, <3>1, <3>2 DEF ShutInv
  <2>3. ASSUME NEW p \in Peers, PeerStep(p) PROVE ShutInv'
    <3>1. UNCHANGED <<transport, lnOpen, kst>>
      BY <2>3, PeerFrame DEF closeVars
    <3>2. transport = "udp" => conn' = conn
      BY <2>3 DEF PeerStep, ClientNext, Post, DialUdp, DialTcp, SendHandshake, Ask,
                  StrangerSends, Receive, PeerFails, Hangup
    <3>3. QED BY <1>2, <3>1, <3>2 DEF ShutInv
  <2>4. ASSUME NEW k \in Closers, CloseStep(k) PROVE ShutInv'
    <3>1. transport' = transport
      BY <2>4, CloseFrame
    <3>2. \A j \in Closers : kst'[j] = "closed" => ~lnOpen'
      BY <1>2, <2>4 DEF CloseStep, CloseNext, CloserGoto, CloseMark, CloseDone,
                        CloseSocket, CloseType, ShutInv
    <3>3. \A p \in Peers : conn[p] = "none" => conn'[p] = "none"
      BY <2>4 DEF CloseStep, CloseNext, CloseMark, CloseDone, CloseSocket
    <3>4. QED BY <1>2, <3>1, <3>2, <3>3 DEF ShutInv
  <2>5. CASE ReadErr \/ UNCHANGED vars
    BY <1>2, <2>5 DEF ReadErr, vars, closeVars, ShutInv
  <2>6. ASSUME NEW p \in Peers, Dies(p) PROVE ShutInv'
    BY <1>2, <2>6, DiesFrame DEF Ends, ShutInv
  <2>7. QED BY <1>2, <2>1, <2>2, <2>3, <2>4, <2>5, <2>6, StepKinds
<1>3. ConnType /\ CloseType /\ ShutInv /\ [Next]_vars => (ConnType /\ CloseType /\ ShutInv)'
  BY <1>2, ConnTypes, CloseTypes
<1>4. QED BY <1>1, <1>3, PTL DEF Spec

\* Close (server.go:117-140): once the Close that did the work has returned, a UDP
\* server answers nobody and a TCP server takes no connection.
THEOREM CloseStops == Spec => ClosedIsClosed
<1> DEFINE Stops ==
      (\E k \in Closers : kst[k] = "closed") =>
        \A p \in Peers :
          /\ transport = "udp" /\ answer'[p] # answer[p] => answer'[p] = "none"
          /\ conn'[p] = "handshake" => conn[p] = "handshake"
<1>1. ConnType /\ MailType /\ ShutInv /\ [Next]_vars => [Stops]_vars
  <2>1. SUFFICES ASSUME ConnType, MailType, ShutInv, [Next]_vars, ~lnOpen, NEW p \in Peers
                 PROVE  /\ transport = "udp" /\ answer'[p] # answer[p]
                             => answer'[p] = "none"
                        /\ conn'[p] = "handshake" => conn[p] = "handshake"
    BY DEF ShutInv
  <2>2. CASE LoopStep
    BY <2>1, <2>2 DEF LoopStep, LoopNext, LoopFails, UdpTop, UdpRead, UdpReply,
                      Accept, LoopJudge, LoopReport
  <2>3. ASSUME NEW q \in Peers, ConnNext(q)
        PROVE  /\ conn[q] # "none"
               /\ conn'[p] = "handshake" => conn[p] = "handshake"
    BY <2>1, <2>3 DEF ConnNext, ConnGoto, HandleFirst, Greet, HandleNext, Reply,
                      ConnReadFails, ConnWriteFails, ConnJudge, ConnReport, ConnType
  <2>4. ASSUME NEW q \in Peers, PeerStep(q)
        PROVE  /\ answer'[p] = answer[p] \/ answer'[p] = "none"
               /\ conn'[p] = "handshake" => conn[p] = "handshake"
    BY <2>1, <2>4 DEF PeerStep, ClientNext, Post, DialUdp, DialTcp, SendHandshake,
                      Ask, StrangerSends, Receive, PeerFails, Hangup, ConnType,
                      MailType
  <2>5. ASSUME NEW k \in Closers, CloseStep(k)
        PROVE  /\ answer' = answer
               /\ conn'[p] = "handshake" => conn[p] = "handshake"
    BY <2>1, <2>5, CloseFrame DEF CloseStep, CloseNext, CloseMark, CloseDone, CloseSocket
  <2>6. CASE ReadErr \/ UNCHANGED vars
    BY <2>6 DEF ReadErr, vars
  <2>7. ASSUME NEW q \in Peers, Dies(q)
        PROVE  answer' = answer /\ conn'[p] # "handshake"
    BY <2>7, DiesFrame DEF Ends
  <2>8. QED
    BY <2>1, <2>2, <2>3, <2>4, <2>5, <2>6, <2>7, StepKinds DEF ShutInv
<1>2. TypeOK => MailType
  BY TypeParts
<1>3. QED BY <1>1, <1>2, ShutInvariant, TypeCorrect, PTL DEF Spec, ClosedIsClosed
================================================================================
