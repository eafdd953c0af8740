------------------------------- MODULE Dispatch --------------------------------
(***************************************************************************)
(* Request/response matching of the FINS client (client.go): service id    *)
(* allocation (incrementSid), sendCommand, and the half of listenLoop that  *)
(* hands a response to the caller waiting for its service id, together     *)
(* with the datagrams in flight and the PLC that answers them.              *)
(*                                                                          *)
(* Operations are numbered in the order in which incrementSid issues them; *)
(* the number stands for the command's bytes.  A response channel (buffer   *)
(* of one) is named by the operation whose incrementSid created it.         *)
(* Replacing the transport is message loss here: sid and resp survive it.   *)
(***************************************************************************)
EXTENDS Integers

CONSTANTS
  Callers,         \* goroutines that call operations of one client
  NSid,            \* MAX_SERVICE_ID_COUNT: 256 in the code
  MaxIssue,        \* bound: operations issued in one behaviour
  Unreliable,      \* datagrams may be lost, duplicated, or refused by Send
  ResponseTimeout, \* responseTimeoutMs > 0
  Cancellable      \* callers whose context may expire

ASSUME DispatchAssumption ==
  /\ NSid \in Nat \ {0}
  /\ MaxIssue \in Nat \ {0}
  /\ Unreliable \in BOOLEAN
  /\ ResponseTimeout \in BOOLEAN
  /\ Cancellable \subseteq Callers

VARIABLES
  sid,        \* Client.sid, the service id issued last
  issued,     \* history: number of operations issued so far
  hdr,        \* hdr[k]: serviceID in the header of operation k
  resp,       \* resp[s]: channel in Client.resp[s], 0 for nil
  chan,       \* chan[k]: operation whose answer channel k buffers, 0 if empty
  requests,   \* operations whose command datagram is in flight
  responses,  \* operations whose response datagram is in flight
  executed,   \* operations the PLC has executed
  pc,         \* pc[c]: where caller c is in sendCommand
  call,       \* call[c]: its operation (the local variable header)
  ch,         \* ch[c]: its captured respChan
  last,       \* last[c]: the last answer returned to c
  done        \* Client.done is closed

net  == <<requests, responses, executed>>
vars == <<sid, issued, hdr, resp, chan, requests, responses, executed,
          pc, call, ch, last, done>>

Issues   == 1..MaxIssue
Sids     == 0..(NSid - 1)
Stages   == {"idle", "issue", "send", "fetch", "wait"}
Answers  == [call : 0..MaxIssue, from : 0..MaxIssue]
NoAnswer == [call |-> 0, from |-> 0]

\* Faulty: the id wraps one short of MAX_SERVICE_ID_COUNT.
NextSidShort(s) == IF s = NSid - 2 THEN 0 ELSE s + 1

\* Faulty: a counter wider than a byte.
NextSidUnwrapped(s) == s + 1

\* c.sid++ on a byte.
NextSid(s) == IF s = NSid - 1 THEN 0 ELSE s + 1

Goto(c, from, to) ==
  /\ pc[c] = from
  /\ pc' = [pc EXCEPT ![c] = to]

Init ==
  /\ sid = 0
  /\ issued = 0
  /\ hdr = [k \in Issues |-> 0]
  /\ resp = [s \in Sids |-> 0]
  /\ chan = [k \in Issues |-> 0]
  /\ requests = {} /\ responses = {} /\ executed = {}
  /\ pc = [c \in Callers |-> "idle"]
  /\ call = [c \in Callers |-> 0]
  /\ ch = [c \in Callers |-> 0]
  /\ last = [c \in Callers |-> NoAnswer]
  /\ done = FALSE

--------------------------------------------------------------------------------
(* The caller: an operation entered with the client open. *)

Begin(c) ==
  /\ ~done
  /\ Goto(c, "idle", "issue")
  /\ UNCHANGED <<sid, issued, hdr, resp, chan, net, call, ch, last, done>>

\* nextHeader: under sidMutex the id is taken and a new channel installed.
IncrementSid(c) ==
  LET k == issued + 1
      s == NextSid(sid)
  IN  /\ issued < MaxIssue
      /\ Goto(c, "issue", "send")
      /\ issued' = k
      /\ sid' = s
      /\ hdr' = [hdr EXCEPT ![k] = s]
      /\ resp' = [resp EXCEPT ![s] = k]
      /\ call' = [call EXCEPT ![c] = k]
      /\ UNCHANGED <<chan, net, ch, last, done>>

\* The context expired, or the transport is nil: nothing is issued.
NotIssued(c) ==
  /\ Unreliable \/ c \in Cancellable
  /\ Goto(c, "issue", "idle")
  /\ UNCHANGED <<sid, issued, hdr, resp, chan, net, call, ch, last, done>>

Send(c) ==
  /\ Goto(c, "send", "fetch")
  /\ requests' = requests \cup {call[c]}
  /\ UNCHANGED <<sid, issued, hdr, resp, chan, responses, executed,
                 call, ch, last, done>>

\* tr.Send returns an error: closed transport, refused write, expired ctx.
SendFails(c) ==
  /\ Unreliable \/ done \/ c \in Cancellable
  /\ Goto(c, "send", "idle")
  /\ UNCHANGED <<sid, issued, hdr, resp, chan, net, call, ch, last, done>>

\* Faulty: the channel of the id issued last, not of the header's.
FetchLatestChannel(c) ==
  /\ Goto(c, "fetch", "wait")
  /\ ch' = [ch EXCEPT ![c] = resp[sid]]
  /\ UNCHANGED <<sid, issued, hdr, resp, chan, net, call, last, done>>

\* The channel is read back from resp only after the send.
FetchChannel(c) ==
  /\ Goto(c, "fetch", "wait")
  /\ ch' = [ch EXCEPT ![c] = resp[hdr[call[c]]]]
  /\ UNCHANGED <<sid, issued, hdr, resp, chan, net, call, last, done>>

ReturnResponse(c) ==
  /\ Goto(c, "wait", "idle")
  /\ chan[ch[c]] # 0
  /\ last' = [last EXCEPT ![c] = [call |-> call[c], from |-> chan[ch[c]]]]
  /\ chan' = [chan EXCEPT ![ch[c]] = 0]
  /\ UNCHANGED <<sid, issued, hdr, resp, net, call, ch, done>>

\* Response timeout, ctx.Done or c.done; the channel stays in resp.
ReturnError(c) ==
  /\ ResponseTimeout \/ c \in Cancellable \/ done
  /\ Goto(c, "wait", "idle")
  /\ UNCHANGED <<sid, issued, hdr, resp, chan, net, call, ch, last, done>>

CloseDone ==
  /\ ~done
  /\ done' = TRUE
  /\ UNCHANGED <<sid, issued, hdr, resp, chan, net, pc, call, ch, last>>

--------------------------------------------------------------------------------
(* The PLC, the network and the listening goroutine. *)

\* The PLC executes a command and answers with the service id it carries.
Answer(k) ==
  /\ k \in requests
  /\ \/ requests' = requests \ {k}
     \/ Unreliable /\ requests' = requests
  /\ executed' = executed \cup {k}
  /\ responses' = responses \cup {k}
  /\ UNCHANGED <<sid, issued, hdr, resp, chan, pc, call, ch, last, done>>

Lose(k) ==
  /\ Unreliable
  /\ \/ k \in requests  /\ requests' = requests \ {k} /\ UNCHANGED responses
     \/ k \in responses /\ responses' = responses \ {k} /\ UNCHANGED requests
  /\ UNCHANGED <<sid, issued, hdr, resp, chan, executed,
                 pc, call, ch, last, done>>

\* Faulty: an unbuffered channel; the send succeeds only on a waiting caller.
DeliverUnbuffered(k) ==
  LET q == resp[hdr[k]]
      receiver == \E c \in Callers : pc[c] = "wait" /\ ch[c] = q
  IN  chan' = IF q # 0 /\ chan[q] = 0 /\ receiver
              THEN [chan EXCEPT ![q] = k] ELSE chan

\* Faulty: every response goes to the operation issued last.
DeliverToLatest(k) ==
  LET q == resp[sid]
  IN  chan' = IF q # 0 /\ chan[q] = 0 THEN [chan EXCEPT ![q] = k] ELSE chan

\* A non-blocking send on the channel now in the slot of the response's id.
Deliver(k) ==
  LET q == resp[hdr[k]]
  IN  chan' = IF q # 0 /\ chan[q] = 0 THEN [chan EXCEPT ![q] = k] ELSE chan

Receive(k) ==
  /\ k \in responses
  /\ \/ responses' = responses \ {k}
     \/ Unreliable /\ responses' = responses
  /\ Deliver(k)
  /\ UNCHANGED <<sid, issued, hdr, resp, requests, executed,
                 pc, call, ch, last, done>>

--------------------------------------------------------------------------------
CallerStep(c) ==
  \/ IncrementSid(c) \/ Send(c) \/ FetchChannel(c) \/ ReturnResponse(c)

Next ==
  \/ \E c \in Callers : \/ Begin(c) \/ IncrementSid(c) \/ NotIssued(c)
                        \/ Send(c) \/ SendFails(c) \/ FetchChannel(c)
                        \/ ReturnResponse(c) \/ ReturnError(c)
  \/ \E k \in Issues : Answer(k) \/ Lose(k) \/ Receive(k)
  \/ CloseDone

Spec == Init /\ [][Next]_vars

\* A runnable goroutine runs, the PLC answers and the listener reads.
Fairness ==
  /\ \A c \in Callers : WF_vars(CallerStep(c))
  /\ \A k \in Issues : WF_vars(Answer(k)) /\ WF_vars(Receive(k))

FairSpec == Spec /\ Fairness

--------------------------------------------------------------------------------
(* Correctness *)

TypeOK ==
  /\ sid \in Sids
  /\ issued \in 0..MaxIssue
  /\ hdr \in [Issues -> Sids]
  /\ resp \in [Sids -> 0..MaxIssue]
  /\ chan \in [Issues -> 0..MaxIssue]
  /\ requests \subseteq Issues
  /\ responses \subseteq Issues
  /\ executed \subseteq Issues
  /\ pc \in [Callers -> Stages]
  /\ call \in [Callers -> 0..MaxIssue]
  /\ ch \in [Callers -> 0..MaxIssue]
  /\ last \in [Callers -> Answers]
  /\ done \in BOOLEAN

\* sendCommand returns the answer to another operation only if the one-byte
\* service id has gone once round between the two: late, duplicated and
\* reordered responses, timeouts and cancellations never cross closer calls.
MisdeliveryNeedsWrap ==
  \A c \in Callers :
    LET a == last[c] IN
    a.from # a.call => a.from - a.call >= NSid \/ a.call - a.from >= NSid

\* The channel sendCommand reads back from resp after the send is the one its
\* own incrementSid installed, although resp is written by every other caller
\* in between, until NSid further operations were issued.
OwnChannelUnlessWrapped ==
  \A c \in Callers :
    pc[c] = "wait" /\ issued < call[c] + NSid => ch[c] = call[c]

\* Another caller is inside an operation with the service id of operation k.
IdShared(c, k) ==
  \E d \in Callers \ {c} :
    pc[d] \in {"send", "fetch", "wait"} /\ hdr[call[d]] = hdr[k]

\* On a network that loses nothing, a command gets an answer (its own, or by
\* MisdeliveryNeedsWrap one at least a round of ids late) unless the client is
\* closed or another caller holds the same id meanwhile: the buffered channel
\* installed before the send keeps a response that comes before its receiver.
NoLostResponse ==
  \A c \in Callers \ Cancellable, k \in Issues :
    (pc[c] = "send" /\ call[c] = k /\ resp[hdr[k]] = k)
      ~> last[c].call = k \/ done \/ IdShared(c, k)

\* The caller's side of Rpc: an operation is pending from its incrementSid on.
Pending == [c \in Callers |->
              IF pc[c] \in {"send", "fetch", "wait"} THEN call[c] ELSE 0]

Abstract == INSTANCE Rpc WITH Window <- NSid, pending <- Pending, result <- last

\* Dispatch implements Rpc: every return is the answer to an executed command,
\* to the caller's own one unless the service id wrapped, or an error.
ImplementsRpc == Abstract!RpcSpec
================================================================================
