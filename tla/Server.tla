--------------------------------- MODULE Server ---------------------------------
(***************************************************************************)
(* The life of the simulator (server.go): its UDP loop or TCP accept loop    *)
(* with a goroutine per connection, the error channel they share, Close, and *)
(* the peers: clients of this package (transport.go) and strangers, who send *)
(* what they like.  Of a request it matters here only whether the simulator  *)
(* can take it apart: what it does to the memory is the subject of           *)
(* Operations.                                                               *)
(***************************************************************************)
EXTENDS Integers, Sequences

CONSTANTS
  Peers,
  Strangers,  \* the peers that are not tcpTransports
  Closers,    \* goroutines that call Close
  NoPeer,
  Buffer,     \* ERROR_CHANNEL_BUFFER
  MaxSent,    \* bound: messages of a peer
  MaxFaults   \* bound: reads, accepts and writes that fail by themselves

ASSUME ServerAssumption ==
  /\ Strangers \subseteq Peers /\ NoPeer \notin Peers
  /\ {Buffer, MaxSent, MaxFaults} \subseteq Nat /\ Buffer > 0

VARIABLES
  transport,        \* "udp" or "tcp"
  heard,            \* how often the program reads Err()
  closed, done, lnOpen, kst,   \* Close: flag, channel, socket, closers' stages
  loop, from,       \* udpLoop or tcpAcceptLoop: stage, sender of the request
  errs, errClosed,  \* errChan: errors in it, closed
  conn,             \* the connection of a peer, and its handler's stage
  inbox, answer,    \* messages to the server, the last one to the peer
  peer, sent,       \* a peer's stage, and how much it sent
  faults,
  panic,            \* peer whose handler sent on the closed errChan
  died,             \* a fatal command has ended the process
  told, reporting   \* history: the loop sent an error; handlers past their test
                    \* of closed when it was set

closeVars == <<closed, done, lnOpen, kst, reporting>>
loopVars  == <<loop, from>>
errVars   == <<errs, errClosed, told>>
peerVars  == <<peer, sent>>
vars == <<transport, heard, closeVars, loopVars, errVars, conn, inbox, answer,
          peerVars, faults, panic, died>>

\* A "fatal" command is one that decodeRequest or handler slices out of range: less
\* than 12 bytes, fewer items than its count says (over UDP: than the buffer holds),
\* bounds that wrap.  A "bad" frame is one that readTCPMessage refuses.
Datagrams  == {"data", "fatal", "empty"}
Frames     == {"hs", "data", "fatal", "bad"}
Commands   == {"data", "fatal"}
Messages   == Datagrams \cup Frames
Hearing    == {"always", "once", "never"}
LoopStages == {"top", "read", "reply", "failed", "report", "gone"}
ConnStages == {"none", "queued", "handshake", "greet", "read", "reply", "failed",
               "report", "gone"}
PeerStages == {"off", "dialled", "greeting", "up", "asked", "shut"}
Clients    == Peers \ Strangers

Init ==
  /\ transport \in {"udp", "tcp"} /\ heard \in Hearing
  /\ closed = FALSE /\ done = FALSE /\ lnOpen = TRUE
  /\ kst = [k \in Closers |-> "idle"] /\ reporting = {}
  /\ loop = (IF transport = "udp" THEN "top" ELSE "read") /\ from = NoPeer
  /\ errs = 0 /\ errClosed = FALSE /\ told = FALSE
  /\ conn = [p \in Peers |-> "none"]
  /\ inbox = [p \in Peers |-> <<>>] /\ answer = [p \in Peers |-> "none"]
  /\ peer = [p \in Peers |-> "off"] /\ sent = [p \in Peers |-> 0]
  /\ faults = 0 /\ panic = NoPeer /\ died = FALSE

\* The process has not panicked.  When it does, the system closes its sockets.
Up == panic = NoPeer /\ ~died
Ends ==
  /\ lnOpen' = FALSE /\ loop' = "gone" /\ from' = NoPeer
  /\ conn' = [p \in Peers |-> IF conn[p] = "none" THEN "none" ELSE "gone"]
  /\ inbox' = [p \in Peers |-> <<>>]
  /\ UNCHANGED <<transport, heard, closed, done, kst, reporting, errVars, answer,
                 peerVars, faults>>

--------------------------------------------------------------------------------
(* The loops *)

RoomOneMore == errs <= Buffer                     \* faulty
Room == errs < Buffer

LoopIs(stage) == loop = stage /\ UNCHANGED <<transport, heard, closeVars,
                                              peerVars, panic, died>>
\* A return, with the deferred close of errChan.
EndLoop == loop' = "gone" /\ errClosed' = TRUE /\ from' = NoPeer

\* What is written to a peer that is gone, or that does not read, is lost.
Deliver(p, m) ==
  answer' = IF p \in Strangers \/ peer[p] = "shut" THEN answer
            ELSE [answer EXCEPT ![p] = m]

UdpTop ==
  /\ LoopIs("top")
  /\ IF done THEN EndLoop ELSE loop' = "read" /\ UNCHANGED <<from, errClosed>>
  /\ UNCHANGED <<errs, told, conn, inbox, answer, faults>>

\* What came after the error is never read.
Discard(p) == inbox' = [inbox EXCEPT ![p] = <<>>]
Take(p) == inbox[p] # <<>> /\ inbox' = [inbox EXCEPT ![p] = Tail(@)]
NextIsFatal(p) == inbox[p] # <<>> /\ Head(inbox[p]) = "fatal"

\* Empty datagrams are skipped.
UdpRead(p) ==
  /\ LoopIs("read") /\ transport = "udp" /\ lnOpen /\ Take(p) /\ ~NextIsFatal(p)
  /\ IF Head(inbox[p]) = "empty" THEN loop' = "top" /\ UNCHANGED from
                                 ELSE loop' = "reply" /\ from' = p
  /\ UNCHANGED <<errVars, conn, answer, faults>>

\* decodeRequest or handler panics in the goroutine of the loop.
UdpDies(p) ==
  /\ loop = "read" /\ transport = "udp" /\ lnOpen /\ NextIsFatal(p)
  /\ died' = TRUE /\ UNCHANGED panic /\ Ends

UdpReply ==
  /\ LoopIs("reply") /\ lnOpen
  /\ Deliver(from, "data")
  /\ loop' = "top" /\ from' = NoPeer
  /\ UNCHANGED <<errVars, conn, inbox, faults>>

Accept(p) ==
  /\ LoopIs("read") /\ transport = "tcp" /\ lnOpen /\ conn[p] = "queued"
  /\ conn' = [conn EXCEPT ![p] = "handshake"]
  /\ UNCHANGED <<loopVars, errVars, inbox, answer, faults>>

\* A read, accept or write fails: the socket is closed, or for a reason of its
\* own.
LoopFails ==
  /\ \E stage \in {"read", "reply"} : LoopIs(stage)
  /\ IF lnOpen THEN faults < MaxFaults /\ faults' = faults + 1
               ELSE UNCHANGED faults
  /\ loop' = "failed"
  /\ UNCHANGED <<from, errVars, conn, inbox, answer>>

LoopJudge ==
  /\ LoopIs("failed")
  /\ IF closed THEN EndLoop ELSE loop' = "report" /\ UNCHANGED <<from, errClosed>>
  /\ UNCHANGED <<errs, told, conn, inbox, answer, faults>>

LoopReport ==
  /\ LoopIs("report") /\ Room /\ errs' = errs + 1 /\ told' = TRUE
  /\ EndLoop
  /\ UNCHANGED <<conn, inbox, answer, faults>>

--------------------------------------------------------------------------------
(* handleTCPConn *)

ConnGoto(p, from_, to) ==
  /\ conn[p] = from_ /\ conn' = [conn EXCEPT ![p] = to]
  /\ UNCHANGED <<transport, heard, closeVars, loopVars, errClosed, told, peerVars,
                 panic, died>>

\* The handshake; anything else that is well-formed ends the connection silently.
HandleFirst(p) ==
  /\ Take(p)
  /\ ConnGoto(p, "handshake", CASE Head(inbox[p]) = "hs"  -> "greet"
                                [] Head(inbox[p]) = "bad" -> "failed"
                                [] OTHER                  -> "gone")
  /\ UNCHANGED <<errs, answer, faults>>

GreetSkipped(p) ==                       \* faulty: no answer to the handshake
  /\ ConnGoto(p, "greet", "read")
  /\ UNCHANGED <<errs, answer, inbox, faults>>

Greet(p) ==
  /\ ConnGoto(p, "greet", "read") /\ Deliver(p, "hs")
  /\ UNCHANGED <<errs, inbox, faults>>

\* Frames that carry no command are skipped.
HandleNext(p) ==
  /\ Take(p) /\ ~NextIsFatal(p)
  /\ ConnGoto(p, "read", CASE Head(inbox[p]) = "data" -> "reply"
                           [] Head(inbox[p]) = "bad"  -> "failed"
                           [] OTHER                   -> "read")
  /\ UNCHANGED <<errs, answer, faults>>

\* decodeRequest or handler panics in the goroutine of a connection, also of one
\* that is served after Close.
HandleDies(p) ==
  /\ conn[p] = "read" /\ NextIsFatal(p)
  /\ died' = TRUE /\ UNCHANGED panic /\ Ends

Reply(p) ==
  /\ ConnGoto(p, "reply", "read") /\ Deliver(p, "data")
  /\ UNCHANGED <<errs, inbox, faults>>

ConnReadFailsIgnored(p) ==               \* faulty: the handler reads on
  /\ inbox[p] = <<>> /\ peer[p] = "shut"
  /\ \E stage \in {"handshake", "read"} : ConnGoto(p, stage, stage)
  /\ UNCHANGED <<errs, inbox, answer, faults>>

\* The end of what the peer sent is an error like any other.
ConnReadFails(p) ==
  /\ inbox[p] = <<>> /\ peer[p] = "shut"
  /\ \E stage \in {"handshake", "read"} : ConnGoto(p, stage, "failed")
  /\ UNCHANGED <<errs, inbox, answer, faults>>

ConnWriteFails(p) ==
  /\ peer[p] = "shut" /\ \E stage \in {"greet", "reply"} : ConnGoto(p, stage, "failed")
  /\ UNCHANGED <<errs, inbox, answer, faults>>

ConnJudgeAlways(p) ==                    \* faulty: reports after Close, too
  /\ ConnGoto(p, "failed", "report")
  /\ UNCHANGED <<errs, inbox, answer, faults>>

ConnJudge(p) ==
  /\ ConnGoto(p, "failed", IF closed THEN "gone" ELSE "report") /\ Discard(p)
  /\ UNCHANGED <<errs, answer, faults>>

ConnReport(p) ==
  /\ Room /\ ~errClosed /\ errs' = errs + 1
  /\ ConnGoto(p, "report", "gone") /\ Discard(p)
  /\ UNCHANGED <<answer, faults>>

\* A send on a closed channel, also one that was blocked before: the process ends.
ConnPanics(p) ==
  /\ conn[p] = "report" /\ errClosed
  /\ panic' = p /\ UNCHANGED died /\ Ends

--------------------------------------------------------------------------------
(* Close, and the reader of Err() *)

CloserGoto(k, a, b) ==
  /\ kst[k] = a /\ kst' = [kst EXCEPT ![k] = b]
  /\ UNCHANGED <<transport, heard, loopVars, errVars, inbox, answer, peerVars,
                 faults, panic, died>>

CloseMark(k) ==
  /\ CloserGoto(k, "idle", IF closed THEN "second" ELSE "marked")
  /\ closed' = TRUE
  /\ reporting' = IF closed THEN reporting ELSE {p \in Peers : conn[p] = "report"}
  /\ UNCHANGED <<done, lnOpen, conn>>

CloseDone(k) ==
  /\ CloserGoto(k, "marked", "signalled") /\ done' = TRUE
  /\ UNCHANGED <<closed, lnOpen, reporting, conn>>

CloseSocketForgotten(k) ==               \* faulty: Close stops at the channel
  /\ CloserGoto(k, "signalled", "closed")
  /\ UNCHANGED <<closed, done, lnOpen, reporting, conn>>

\* Connections nobody accepted are reset; those accepted stay open.
CloseSocket(k) ==
  /\ CloserGoto(k, "signalled", "closed") /\ lnOpen' = FALSE
  /\ conn' = [p \in Peers |-> IF conn[p] = "queued" THEN "gone" ELSE conn[p]]
  /\ UNCHANGED <<closed, done, reporting>>

\* The reader that reads once is that of the example server.
ReadErr ==
  /\ heard # "never" /\ errs > 0 /\ errs' = errs - 1
  /\ heard' = (IF heard = "once" THEN "never" ELSE heard)
  /\ UNCHANGED <<transport, closeVars, loopVars, errClosed, told, conn,
                 inbox, answer, peerVars, faults, panic, died>>

--------------------------------------------------------------------------------
(* Peers: newTCPTransport, newUDPTransport, a request at a time, Close *)

PeerGoto(p, a, b) ==
  /\ peer[p] = a /\ peer' = [peer EXCEPT ![p] = b]
  /\ UNCHANGED <<transport, heard, closeVars, loopVars, errVars, faults, panic, died>>

DialUdp(p) ==
  /\ transport = "udp" /\ PeerGoto(p, "off", "up")
  /\ UNCHANGED <<conn, inbox, answer, sent>>

DialTcp(p) ==
  /\ transport = "tcp" /\ PeerGoto(p, "off", IF lnOpen THEN "dialled" ELSE "shut")
  /\ conn' = IF lnOpen THEN [conn EXCEPT ![p] = "queued"] ELSE conn
  /\ UNCHANGED <<inbox, answer, sent>>

Post(p, m) ==
  /\ sent[p] < MaxSent /\ sent' = [sent EXCEPT ![p] = @ + 1]
  /\ inbox' = IF conn[p] \in {"failed", "report", "gone"} \/ (~lnOpen /\ transport = "udp") THEN inbox
              ELSE [inbox EXCEPT ![p] = Append(@, m)]
  /\ UNCHANGED <<conn, answer>>

SendHandshake(p) == p \in Clients /\ PeerGoto(p, "dialled", "greeting") /\ Post(p, "hs")
\* Some requests of this package are fatal, too (Operations!PanicsOnlyWhen).
Ask(p) ==
  /\ p \in Clients /\ PeerGoto(p, "up", "asked")
  /\ \E m \in Commands : Post(p, m)

StrangerSends(p) ==
  /\ p \in Strangers
  /\ \E stage \in {"dialled", "up"} : PeerGoto(p, stage, stage)
  /\ \E m \in (IF transport = "udp" THEN Datagrams ELSE Frames) : Post(p, m)

\* The client reads the answer it waits for.
Receive(p) ==
  /\ p \in Clients
  /\ \/ answer[p] = "hs" /\ PeerGoto(p, "greeting", "up")
     \/ answer[p] = "data" /\ PeerGoto(p, "asked", "up")
  /\ answer' = [answer EXCEPT ![p] = "none"]
  /\ UNCHANGED <<conn, inbox, sent>>

\* The peer hangs up, or finds its connection closed.
Live == {"dialled", "greeting", "up", "asked"}
Hangup(p) ==
  /\ \E stage \in Live : PeerGoto(p, stage, "shut")
  /\ answer' = [answer EXCEPT ![p] = "none"]
  /\ UNCHANGED <<conn, inbox, sent>>
PeerFails(p) == conn[p] = "gone" /\ Hangup(p)

--------------------------------------------------------------------------------
LoopNext ==
  \/ UdpTop \/ UdpReply \/ LoopJudge \/ LoopReport
  \/ \E p \in Peers : UdpRead(p) \/ Accept(p)
ConnNext(p) ==
  \/ HandleFirst(p) \/ Greet(p) \/ HandleNext(p) \/ Reply(p) \/ ConnReadFails(p)
  \/ ConnWriteFails(p) \/ ConnJudge(p) \/ ConnReport(p)
Dies(p) == UdpDies(p) \/ HandleDies(p) \/ ConnPanics(p)
CloseNext(k) == CloseDone(k) \/ CloseSocket(k)
ClientNext(p) == SendHandshake(p) \/ Receive(p) \/ PeerFails(p)

\* The peers live on when the process has ended.
Next ==
  \/ /\ Up
     /\ \/ LoopNext \/ LoopFails \/ ReadErr
        \/ \E p \in Peers : ConnNext(p) \/ Dies(p)
        \/ \E k \in Closers : CloseMark(k) \/ CloseNext(k)
  \/ \E p \in Peers : \/ ClientNext(p) \/ DialUdp(p) \/ DialTcp(p) \/ Ask(p)
                      \/ StrangerSends(p) \/ Hangup(p)

Spec == Init /\ [][Next]_vars

\* Goroutines of the server, a Close under way, a reader of Err() and a client
\* that waits go on; nobody need dial, ask, hang up or close, and no fault need
\* happen.  That a closed socket fails a pending read is the operating system's.
FairSpec ==
  /\ Spec
  /\ WF_vars(Up /\ (LoopNext \/ (~lnOpen /\ LoopFails)))
  /\ WF_vars(Up /\ ReadErr)
  /\ \A p \in Peers : /\ WF_vars(Up /\ (ConnNext(p) \/ Dies(p)))
                      /\ WF_vars(ClientNext(p))
  /\ \A k \in Closers : WF_vars(Up /\ CloseNext(k))

--------------------------------------------------------------------------------
(* Correctness *)

TypeOK ==
  /\ transport \in {"udp", "tcp"} /\ heard \in Hearing
  /\ {closed, done, lnOpen} \subseteq BOOLEAN
  /\ kst \in [Closers -> {"idle", "marked", "signalled", "closed", "second"}]
  /\ reporting \subseteq Peers
  /\ loop \in LoopStages /\ from \in Peers \cup {NoPeer}
  /\ errs \in 0..Buffer /\ {errClosed, told} \subseteq BOOLEAN
  /\ conn \in [Peers -> ConnStages] /\ inbox \in [Peers -> Seq(Messages)]
  /\ answer \in [Peers -> {"none", "hs", "data"}]
  /\ peer \in [Peers -> PeerStages] /\ sent \in [Peers -> 0..MaxSent]
  /\ faults \in 0..MaxFaults /\ panic \in Peers \cup {NoPeer} /\ died \in BOOLEAN

\* The error channel is closed, which is how a user learns that the server has
\* ended, only after Close or after the loop's error was put in it; and a handler
\* sends on the closed channel only if the loop ended by an error, or the handler
\* had looked at closed before Close set it: no connection that fails after Close
\* ends the process.  (A fatal command does, before Close and on an accepted
\* connection after it.)
ErrChannelKept ==
  /\ errClosed => closed \/ told
  /\ panic # NoPeer => told \/ panic \in reporting

\* Once the Close that did the work has returned, a UDP server answers nobody and
\* a TCP server takes no new connection.
ClosedIsClosed ==
  [][(\E k \in Closers : kst[k] = "closed") =>
       \A p \in Peers :
         /\ transport = "udp" /\ answer'[p] # answer[p] => answer'[p] = "none"
         /\ conn'[p] = "handshake" => conn[p] = "handshake"]_vars

\* Close ends the loop, and the end of a peer ends its handler, unless the error
\* channel is full and unread.
Unheard == heard = "never" /\ errs = Buffer
Deaf(p) == conn[p] = "queued" /\ (loop = "gone" \/ Unheard)
GoroutinesEnd ==
  /\ closed ~> loop = "gone" \/ Unheard
  /\ \A p \in Peers :
       peer[p] = "shut" ~> conn[p] \in {"none", "gone"} \/ Unheard \/ Deaf(p)

\* A client that waits for the answer to its handshake or request gets it, or
\* finds the connection closed, also when a command of its own or of anybody else
\* ends the process; unless the accept loop has ended on an error and left the
\* listener open, or the transport is UDP, which tells a client nothing, and the
\* loop has ended: by Close, an error, or a fatal command.
ClientsAnswered ==
  \A p \in Clients :
    peer[p] \in {"greeting", "asked"} ~>
      \/ peer[p] \in {"up", "shut"} \/ Deaf(p)
      \/ transport = "udp" /\ (loop = "gone" \/ Unheard)
================================================================================
