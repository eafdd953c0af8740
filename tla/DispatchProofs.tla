---------------------------- MODULE DispatchProofs -----------------------------
(***************************************************************************)
(* Proofs about Dispatch, for any number of callers, ids and operations.   *)
(* The invariant follows a service id from incrementSid through the         *)
(* datagrams, the slot and the channels to the answer that is returned.     *)
(***************************************************************************)
EXTENDS Dispatch, TLAPS

Issued == 1..issued
Active == {"send", "fetch", "wait"}

\* The ids of the last NSid operations count back from sid.
WindowInv ==
  \A k \in Issued :
    LET d == issued - k IN
    d < NSid => hdr[k] = IF sid >= d THEN sid - d ELSE sid - d + NSid

\* Two operations with one id are at least a round of ids apart.
DistinctInv ==
  \A i, j \in Issued :
    hdr[i] = hdr[j] => i = j \/ i - j >= NSid \/ j - i >= NSid

\* A slot holds the channel of the last operation issued with its id.
SlotInv ==
  /\ \A s \in Sids : resp[s] # 0 => resp[s] \in Issued /\ hdr[resp[s]] = s
  /\ \A k \in Issued : resp[hdr[k]] >= k

NetInv ==
  /\ requests \subseteq Issued
  /\ responses \subseteq executed
  /\ executed \subseteq Issued

\* A channel buffers the answer of an executed operation with its id.
ChanInv ==
  \A q \in Issues : chan[q] # 0 =>
    /\ q \in Issued
    /\ chan[q] \in executed
    /\ hdr[chan[q]] = hdr[q]

\* A caller waits on a channel of its id that is not older than its own.
CallInv ==
  \A c \in Callers :
    /\ pc[c] \in Active => call[c] \in Issued
    /\ pc[c] = "wait" => /\ ch[c] \in Issued
                         /\ ch[c] >= call[c]
                         /\ hdr[ch[c]] = hdr[call[c]]

LastInv ==
  \A c \in Callers : last[c] # NoAnswer =>
    /\ last[c].call \in Issued
    /\ last[c].from \in executed
    /\ hdr[last[c].from] = hdr[last[c].call]

Inv ==
  /\ TypeOK /\ WindowInv /\ DistinctInv /\ SlotInv
  /\ NetInv /\ ChanInv /\ CallInv /\ LastInv

--------------------------------------------------------------------------------
\* The id after an id is an id.
LEMMA NextSidType == ASSUME NEW s \in Sids PROVE NextSid(s) \in Sids
  BY DispatchAssumption DEF NextSid, Sids

\* The invariant holds at first: nothing is issued.
LEMMA InitInv == Init => Inv
<1> SUFFICES ASSUME Init PROVE Inv
  OBVIOUS
<1> USE DispatchAssumption DEF Init
<1>1. TypeOK
  <2>1. NoAnswer \in Answers
    BY DEF NoAnswer, Answers
  <2>2. /\ 0 \in Sids /\ 0 \in 0..MaxIssue /\ "idle" \in Stages
        /\ {} \subseteq Issues /\ FALSE \in BOOLEAN
    BY DEF Sids, Stages
  <2>3. QED BY <2>1, <2>2, Zenon DEF TypeOK
<1>2. Issued = {} /\ Issues \subseteq Nat
  BY DEF Issued, Issues
<1>3. WindowInv /\ DistinctInv
  BY <1>2 DEF WindowInv, DistinctInv
<1>4. SlotInv /\ NetInv
  BY <1>2 DEF SlotInv, NetInv, Sids
<1>5. ChanInv /\ CallInv /\ LastInv
  BY <1>2 DEF ChanInv, CallInv, LastInv, Active
<1>6. QED BY <1>1, <1>3, <1>4, <1>5 DEF Inv

\* Steps that issue nothing and only add to what was executed.
LEMMA FrameInv ==
  ASSUME Inv, UNCHANGED <<sid, issued, hdr, resp>>
  PROVE  WindowInv' /\ DistinctInv' /\ SlotInv'
<1>1. UNCHANGED Issued
  BY DEF Issued
<1>2. QED
  BY <1>1 DEF Inv, WindowInv, DistinctInv, SlotInv

\* The one step that moves sid, issues an operation and installs a channel.
LEMMA IncrementSidInv ==
  ASSUME Inv, NEW c \in Callers, IncrementSid(c) PROVE Inv'
<1> DEFINE k == issued + 1
           s == NextSid(sid)
<1> USE DispatchAssumption
<1>1. /\ k \in Issues /\ s \in Sids /\ issued' = k /\ sid' = s
      /\ hdr' = [hdr EXCEPT ![k] = s] /\ resp' = [resp EXCEPT ![s] = k]
      /\ call' = [call EXCEPT ![c] = k] /\ pc[c] = "issue"
      /\ pc' = [pc EXCEPT ![c] = "send"] /\ issued \in Nat /\ sid \in Sids
      /\ UNCHANGED <<chan, requests, responses, executed, ch, last, done>>
  BY NextSidType DEF IncrementSid, Inv, TypeOK, Issues, Goto, net
<1>2. TypeOK'
  <2>1. TypeOK /\ k \in 0..MaxIssue /\ "send" \in Stages
    BY <1>1 DEF Inv, Issues, Stages
  <2>2. hdr' \in [Issues -> Sids] /\ resp' \in [Sids -> 0..MaxIssue]
    BY <1>1, <2>1 DEF TypeOK
  <2>3. pc' \in [Callers -> Stages] /\ call' \in [Callers -> 0..MaxIssue]
    BY <1>1, <2>1 DEF TypeOK
  <2> HIDE DEF k, s
  <2>4. QED BY <1>1, <2>1, <2>2, <2>3 DEF TypeOK
<1>3. /\ Issued' = Issued \cup {k} /\ k \notin Issued
      /\ Issued \subseteq Issues
  BY <1>1 DEF Issued, Issues, Inv, TypeOK
<1>4. \A i \in Issued : hdr'[i] = hdr[i] /\ hdr[i] \in Sids /\ i < k
  BY <1>1, <1>3 DEF Inv, TypeOK, Issued
<1>5. hdr'[k] = s
  BY <1>1 DEF Inv, TypeOK
<1>6. WindowInv'
  <2> SUFFICES ASSUME NEW i \in Issued', k - i < NSid
               PROVE hdr'[i] = IF s >= k - i THEN s - (k - i)
                               ELSE s - (k - i) + NSid
    BY <1>1 DEF WindowInv
  <2>1. CASE i = k
    BY <1>1, <1>5, <2>1 DEF Sids
  <2>2. CASE i \in Issued
    <3>1. hdr[i] = IF sid >= issued - i THEN sid - (issued - i)
                   ELSE sid - (issued - i) + NSid
      BY <1>1, <2>2 DEF Inv, WindowInv, Issued
    <3>2. hdr'[i] = hdr[i] /\ i \in Nat /\ i <= issued
      BY <1>1, <1>4, <2>2 DEF Issued
    <3>3. QED BY <1>1, <3>1, <3>2 DEF NextSid, Sids
  <2>3. QED BY <1>3, <2>1, <2>2
<1>7. DistinctInv'
  <2>1. ASSUME NEW i \in Issued, hdr[i] = s PROVE k - i >= NSid
    <3> SUFFICES ASSUME k - i < NSid PROVE FALSE
      BY <1>1 DEF Issued
    <3>1. hdr[i] = IF sid >= issued - i THEN sid - (issued - i)
                   ELSE sid - (issued - i) + NSid
      BY <1>1 DEF Inv, WindowInv, Issued
    <3>2. i \in Nat /\ i <= issued
      BY <1>1 DEF Issued
    <3>3. QED BY <1>1, <2>1, <3>1, <3>2 DEF NextSid, Sids
  <2>2. QED BY <1>1, <1>3, <1>4, <1>5, <2>1 DEF Inv, DistinctInv, Issued
<1>8. SlotInv'
  <2>1. ASSUME NEW t \in Sids, resp'[t] # 0
        PROVE resp'[t] \in Issued' /\ hdr'[resp'[t]] = t
    BY <1>1, <1>3, <1>4, <1>5, <2>1 DEF Inv, TypeOK, SlotInv
  <2>2. ASSUME NEW i \in Issued' PROVE resp'[hdr'[i]] >= i
    BY <1>1, <1>3, <1>4, <1>5, <2>2 DEF Inv, TypeOK, SlotInv, Issued
  <2>3. QED BY <2>1, <2>2 DEF SlotInv
<1>9. NetInv'
  BY <1>1, <1>3 DEF Inv, NetInv
<1>10. ChanInv'
  BY <1>1, <1>3, <1>4 DEF Inv, ChanInv, NetInv
<1>11. CallInv'
  BY <1>1, <1>3, <1>4, <1>5 DEF Inv, TypeOK, CallInv, Active
<1>12. LastInv'
  BY <1>1, <1>3, <1>4 DEF Inv, LastInv, NetInv
<1>13. QED
  BY <1>2, <1>6, <1>7, <1>8, <1>9, <1>10, <1>11, <1>12 DEF Inv

\* A step of a caller between its operation's issue and its return.
LEMMA CallerInv ==
  ASSUME Inv, NEW c \in Callers,
         \/ Begin(c) \/ NotIssued(c) \/ Send(c) \/ SendFails(c)
         \/ FetchChannel(c) \/ ReturnResponse(c) \/ ReturnError(c)
  PROVE  Inv'
<1> USE DispatchAssumption
<1>1. TypeOK /\ CallInv /\ SlotInv /\ NetInv /\ ChanInv /\ LastInv
  BY DEF Inv
<1>2. UNCHANGED <<sid, issued, hdr, resp>>
  BY DEF Begin, NotIssued, Send, SendFails, FetchChannel, ReturnResponse,
         ReturnError
<1>3. WindowInv' /\ DistinctInv' /\ SlotInv'
  BY <1>2, FrameInv
<1>4. Issued' = Issued /\ Issued \subseteq Issues
  BY <1>1, <1>2 DEF Issued, TypeOK, Issues
<1>5. CASE Begin(c) \/ NotIssued(c) \/ SendFails(c) \/ ReturnError(c)
  <2>1. /\ UNCHANGED <<sid, issued, hdr, resp, chan, requests, responses,
                        executed, call, ch, last>>
        /\ pc' \in [Callers -> Stages]
        /\ \A d \in Callers : pc'[d] \in Active => pc'[d] = pc[d]
        /\ done' \in BOOLEAN
    BY <1>1, <1>5 DEF Begin, NotIssued, SendFails, ReturnError, Goto, TypeOK,
                      Stages, Active, net
  <2>2. TypeOK'
    BY <1>1, <2>1 DEF TypeOK
  <2>3. NetInv' /\ ChanInv' /\ LastInv'
    BY <1>1, <1>4, <2>1 DEF NetInv, ChanInv, LastInv
  <2>4. CallInv'
    BY <1>1, <1>4, <2>1 DEF CallInv, Active
  <2>5. QED BY <1>3, <2>2, <2>3, <2>4 DEF Inv
<1>6. CASE Send(c)
  <2>1. call[c] \in Issued
    <3>1. QED BY <1>1, <1>6 DEF Send, Goto, CallInv, Active
  <2>2. TypeOK'
    BY <1>1, <1>4, <1>6, <2>1 DEF Send, Goto, TypeOK, Stages
  <2>3. NetInv' /\ ChanInv' /\ LastInv'
    BY <1>1, <1>4, <1>6, <2>1 DEF Send, NetInv, ChanInv, LastInv
  <2>4. CallInv'
    BY <1>1, <1>4, <1>6, <2>1 DEF Send, Goto, CallInv, Active, TypeOK
  <2>5. QED BY <1>3, <2>2, <2>3, <2>4 DEF Inv
<1>7. CASE FetchChannel(c)
  <2>1. call[c] \in Issued
    BY <1>1, <1>7 DEF FetchChannel, Goto, CallInv, Active
  <2>2. hdr[call[c]] \in Sids
    BY <1>1, <1>4, <2>1 DEF TypeOK
  <2> DEFINE q == resp[hdr[call[c]]]
  <2>3. q \in Issued /\ q >= call[c] /\ hdr[q] = hdr[call[c]]
    <3>1. q >= call[c] /\ q # 0
      BY <1>1, <2>1, <2>2 DEF SlotInv, TypeOK, Issued
    <3>2. QED BY <1>1, <2>2, <3>1 DEF SlotInv
  <2>4. TypeOK'
    BY <1>1, <1>7, <2>2 DEF FetchChannel, Goto, TypeOK, Stages, net
  <2>5. NetInv' /\ ChanInv' /\ LastInv'
    BY <1>1, <1>4, <1>7 DEF FetchChannel, NetInv, ChanInv, LastInv, net
  <2>6. CallInv'
    BY <1>1, <1>4, <1>7, <2>1, <2>3
       DEF FetchChannel, Goto, CallInv, Active, TypeOK
  <2>7. QED BY <1>3, <2>4, <2>5, <2>6 DEF Inv
<1>8. CASE ReturnResponse(c)
  <2>1. /\ call[c] \in Issued /\ ch[c] \in Issued
        /\ hdr[ch[c]] = hdr[call[c]]
    BY <1>1, <1>8 DEF ReturnResponse, Goto, CallInv, Active
  <2> DEFINE j == chan[ch[c]]
  <2>2. j \in executed /\ hdr[j] = hdr[call[c]] /\ j \in 0..MaxIssue
    BY <1>1, <1>4, <1>8, <2>1 DEF ReturnResponse, ChanInv, TypeOK
  <2>3. [call |-> call[c], from |-> j] \in Answers
    BY <1>1, <2>2 DEF Answers, TypeOK
  <2>4. TypeOK'
    <3>1. last' \in [Callers -> Answers]
      BY <1>1, <1>8, <2>3 DEF ReturnResponse, TypeOK
    <3>2. pc' \in [Callers -> Stages]
      BY <1>1, <1>8 DEF ReturnResponse, Goto, TypeOK, Stages
    <3>3. chan \in [Issues -> 0..MaxIssue] /\ 0 \in 0..MaxIssue
      BY <1>1 DEF TypeOK
    <3>4. chan' = [chan EXCEPT ![ch[c]] = 0]
      BY <1>8 DEF ReturnResponse
    <3>5. chan' \in [Issues -> 0..MaxIssue]
      BY ONLY <3>3, <3>4
    <3>6. UNCHANGED <<requests, responses, executed, call, ch, done>>
      BY <1>8 DEF ReturnResponse, net
    <3>7. QED BY <1>1, <1>2, <3>1, <3>2, <3>5, <3>6 DEF TypeOK
  <2>5. NetInv' /\ ChanInv'
    BY <1>1, <1>4, <1>8, <2>1
       DEF ReturnResponse, NetInv, ChanInv, net, TypeOK
  <2>6. LastInv'
    BY <1>1, <1>4, <1>8, <2>1, <2>2
       DEF ReturnResponse, LastInv, net, TypeOK
  <2>7. CallInv'
    BY <1>1, <1>4, <1>8 DEF ReturnResponse, Goto, CallInv, Active, TypeOK
  <2>8. QED BY <1>3, <2>4, <2>5, <2>6, <2>7 DEF Inv
<1>9. QED BY <1>5, <1>6, <1>7, <1>8

\* A step of the PLC, the network, the listening goroutine or Close.
LEMMA NetworkInv ==
  ASSUME Inv,
         \/ \E k \in Issues : Answer(k) \/ Lose(k) \/ Receive(k)
         \/ CloseDone
  PROVE  Inv'
<1> USE DispatchAssumption
<1>1. TypeOK /\ CallInv /\ SlotInv /\ NetInv /\ ChanInv /\ LastInv
  BY DEF Inv
<1>2. UNCHANGED <<sid, issued, hdr, resp, pc, call, ch, last>>
  BY DEF Answer, Lose, Receive, CloseDone, net
<1>3. WindowInv' /\ DistinctInv' /\ SlotInv' /\ CallInv'
  BY <1>1, <1>2, FrameInv DEF CallInv, Issued
<1>4. Issued' = Issued /\ Issued \subseteq Issues
  BY <1>1, <1>2 DEF Issued, TypeOK, Issues
<1>5. ASSUME NEW k \in Issues, Answer(k) PROVE Inv'
  <2>1. TypeOK'
    BY <1>1, <1>2, <1>5 DEF Answer, TypeOK
  <2>2. NetInv' /\ ChanInv' /\ LastInv'
    BY <1>1, <1>2, <1>4, <1>5 DEF Answer, NetInv, ChanInv, LastInv
  <2>3. QED BY <1>3, <2>1, <2>2 DEF Inv
<1>6. ASSUME NEW k \in Issues, Lose(k) PROVE Inv'
  <2>1. TypeOK'
    BY <1>1, <1>2, <1>6 DEF Lose, TypeOK
  <2>2. NetInv' /\ ChanInv' /\ LastInv'
    BY <1>1, <1>2, <1>4, <1>6 DEF Lose, NetInv, ChanInv, LastInv
  <2>3. QED BY <1>3, <2>1, <2>2 DEF Inv
<1>7. ASSUME NEW k \in Issues, Receive(k) PROVE Inv'
  <2> DEFINE q == resp[hdr[k]]
  <2>1. k \in executed /\ k \in Issued /\ hdr[k] \in Sids
    BY <1>1, <1>7 DEF Receive, NetInv, TypeOK
  <2>2. q # 0 => q \in Issued /\ hdr[q] = hdr[k]
    BY <1>1, <2>1 DEF SlotInv
  <2>3. TypeOK'
    <3>1. chan' \in [Issues -> 0..MaxIssue]
      BY <1>1, <1>7 DEF Receive, Deliver, TypeOK, Issues
    <3>2. responses' \subseteq Issues
      BY <1>1, <1>7 DEF Receive, TypeOK
    <3>3. UNCHANGED <<requests, executed, done>>
      BY <1>7 DEF Receive
    <3>4. QED BY <1>1, <1>2, <3>1, <3>2, <3>3 DEF TypeOK
  <2>4. NetInv' /\ LastInv'
    BY <1>1, <1>2, <1>4, <1>7 DEF Receive, NetInv, LastInv
  <2>5. ChanInv'
    BY <1>1, <1>2, <1>4, <1>7, <2>1, <2>2
       DEF Receive, Deliver, ChanInv, TypeOK
  <2>6. QED BY <1>3, <2>3, <2>4, <2>5 DEF Inv
<1>8. CASE CloseDone
  <2>1. TypeOK'
    BY <1>1, <1>2, <1>8 DEF CloseDone, TypeOK, net
  <2>2. NetInv' /\ ChanInv' /\ LastInv'
    BY <1>1, <1>2, <1>4, <1>8 DEF CloseDone, NetInv, ChanInv, LastInv, net
  <2>3. QED BY <1>3, <2>1, <2>2 DEF Inv
<1>9. QED BY <1>5, <1>6, <1>7, <1>8

\* The invariant holds throughout.
LEMMA InvHolds == Spec => []Inv
<1>1. Inv /\ [Next]_vars => Inv'
  <2> SUFFICES ASSUME Inv, [Next]_vars PROVE Inv'
    OBVIOUS
  <2>1. CASE UNCHANGED vars
    BY <2>1 DEF vars, Inv, TypeOK, WindowInv, DistinctInv, SlotInv, NetInv,
                ChanInv, CallInv, LastInv, Issued
  <2>2. CASE Next
    BY <2>2, IncrementSidInv, CallerInv, NetworkInv DEF Next
  <2>3. QED BY <2>1, <2>2
<1>2. QED BY <1>1, InitInv, PTL DEF Spec

--------------------------------------------------------------------------------
\* The variables keep their types (sid a byte, one buffered answer a channel).
THEOREM TypeCorrect == Spec => []TypeOK
<1>1. Inv => TypeOK
  BY DEF Inv
<1>2. QED BY <1>1, InvHolds, PTL

\* sendCommand never returns the answer of an operation less than NSid away.
THEOREM NoMisdelivery == Spec => []MisdeliveryNeedsWrap
<1>1. Inv => MisdeliveryNeedsWrap
  <2> SUFFICES ASSUME Inv, NEW c \in Callers, last[c].from # last[c].call
               PROVE  \/ last[c].from - last[c].call >= NSid
                      \/ last[c].call - last[c].from >= NSid
    BY DEF MisdeliveryNeedsWrap
  <2>1. last[c] # NoAnswer
    BY DEF NoAnswer
  <2>2. /\ last[c].call \in Issued /\ last[c].from \in Issued
        /\ hdr[last[c].from] = hdr[last[c].call]
    BY <2>1 DEF Inv, LastInv, NetInv
  <2>3. QED BY <2>2 DEF Inv, DistinctInv
<1>2. QED BY <1>1, InvHolds, PTL

\* The channel a caller waits on is its own until its id is issued again.
THEOREM OwnChannel == Spec => []OwnChannelUnlessWrapped
<1>1. Inv => OwnChannelUnlessWrapped
  <2> SUFFICES ASSUME Inv, NEW c \in Callers, pc[c] = "wait",
                      issued < call[c] + NSid
               PROVE  ch[c] = call[c]
    BY DEF OwnChannelUnlessWrapped
  <2>1. /\ call[c] \in Issued /\ ch[c] \in Issued /\ ch[c] >= call[c]
        /\ hdr[ch[c]] = hdr[call[c]]
    BY DEF Inv, CallInv, Active
  <2>2. \/ ch[c] = call[c] \/ ch[c] - call[c] >= NSid
        \/ call[c] - ch[c] >= NSid
    BY <2>1 DEF Inv, DistinctInv
  <2>3. QED BY <2>1, <2>2, DispatchAssumption DEF Issued, Inv, TypeOK
<1>2. QED BY <1>1, InvHolds, PTL

--------------------------------------------------------------------------------
\* Dispatch implements Rpc with a window of NSid operations: responses that are
\* lost, late, duplicated or meant for someone else show only as errors.
THEOREM DispatchImplementsRpc == Spec => ImplementsRpc
<1> USE DispatchAssumption
<1>1. Init => Abstract!RpcInit
  BY DEF Init, Abstract!RpcInit, Pending, NoAnswer, Abstract!NoAnswer
<1>2. Inv /\ [Next]_vars => [Abstract!RpcNext]_(Abstract!rpcVars)
  <2> SUFFICES ASSUME Inv, [Next]_vars
               PROVE  [Abstract!RpcNext]_(Abstract!rpcVars)
    OBVIOUS
  <2> USE DEF Abstract!rpcVars, Active
  <2>1. TypeOK /\ CallInv /\ NetInv /\ ChanInv
    BY DEF Inv
  <2>2. ASSUME NEW c \in Callers,
               Begin(c) \/ NotIssued(c) \/ Send(c) \/ FetchChannel(c)
        PROVE  UNCHANGED Abstract!rpcVars
    <3>1. UNCHANGED <<issued, executed, last, call>>
      BY <2>2 DEF Begin, NotIssued, Send, FetchChannel, net
    <3>2. /\ pc \in [Callers -> Stages]
          /\ \A d \in Callers : pc'[d] \in Active <=> pc[d] \in Active
      BY <2>1, <2>2 DEF TypeOK, Begin, NotIssued, Send, FetchChannel, Goto
    <3>3. UNCHANGED Pending
      BY <3>1, <3>2 DEF Pending
    <3>4. QED BY <3>1, <3>3
  <2>3. ASSUME NEW c \in Callers, IncrementSid(c) PROVE Abstract!Start(c)
    <3>1. Pending[c] = 0
      BY <2>3 DEF IncrementSid, Goto, Pending
    <3>2. Pending' = [Pending EXCEPT ![c] = issued + 1]
      BY <2>1, <2>3 DEF IncrementSid, Goto, Pending, TypeOK
    <3>3. QED
      BY <2>3, <3>1, <3>2 DEF IncrementSid, Abstract!Start, net
  <2>4. ASSUME NEW c \in Callers, SendFails(c) \/ ReturnError(c)
        PROVE  Abstract!Fail(c)
    <3>1. pc[c] \in Active /\ call[c] \in Issued
      BY <2>1, <2>4 DEF SendFails, ReturnError, Goto, CallInv
    <3>2. Pending[c] # 0
      BY <3>1 DEF Pending, Issued
    <3>3. Pending' = [Pending EXCEPT ![c] = 0]
      BY <2>1, <2>4 DEF SendFails, ReturnError, Goto, Pending, TypeOK
    <3>4. QED
      BY <2>4, <3>2, <3>3 DEF SendFails, ReturnError, Abstract!Fail, net
  <2>5. ASSUME NEW c \in Callers, ReturnResponse(c)
        PROVE  \E j \in Issues : Abstract!Return(c, j)
    <3> DEFINE j == chan[ch[c]]
    <3>1. /\ call[c] \in Issued /\ ch[c] \in Issued /\ pc[c] = "wait"
          /\ hdr[ch[c]] = hdr[call[c]] /\ Issued \subseteq Issues
      BY <2>1, <2>5 DEF ReturnResponse, Goto, CallInv, TypeOK, Issued, Issues
    <3>2. j \in executed /\ j \in Issued /\ hdr[j] = hdr[call[c]]
      BY <2>1, <2>5, <3>1 DEF ReturnResponse, ChanInv, NetInv
    <3>3. j = call[c] \/ Abstract!Apart(j, call[c])
      BY <3>1, <3>2 DEF Inv, DistinctInv, Abstract!Apart
    <3>4. Pending[c] = call[c] /\ call[c] # 0
      BY <3>1 DEF Pending, Issued
    <3>5. Pending' = [Pending EXCEPT ![c] = 0]
      BY <2>1, <2>5 DEF ReturnResponse, Goto, Pending, TypeOK
    <3>6. Abstract!Return(c, j)
      BY <2>5, <3>2, <3>3, <3>4, <3>5
         DEF ReturnResponse, Abstract!Return, net
    <3>7. QED BY <3>1, <3>2, <3>6
  <2>6. ASSUME NEW k \in Issues, Answer(k) PROVE Abstract!Execute(k)
    <3>1. k \in Issued
      BY <2>1, <2>6 DEF Answer, NetInv
    <3>2. QED BY <2>6, <3>1 DEF Answer, Abstract!Execute, Pending, Issued
  <2>7. ASSUME NEW k \in Issues, Lose(k) \/ Receive(k)
        PROVE  UNCHANGED Abstract!rpcVars
    BY <2>7 DEF Lose, Receive, Pending
  <2>8. CASE CloseDone
    BY <2>8 DEF CloseDone, Pending, net
  <2>9. CASE UNCHANGED vars
    BY <2>9 DEF vars, Pending
  <2>10. QED
    BY <2>2, <2>3, <2>4, <2>5, <2>6, <2>7, <2>8, <2>9
       DEF Next, Abstract!RpcNext, Abstract!Issues, Issues
<1>3. QED
  BY <1>1, <1>2, InvHolds, PTL DEF Spec, ImplementsRpc, Abstract!RpcSpec
================================================================================
