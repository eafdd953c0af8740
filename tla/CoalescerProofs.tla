---------------------------- MODULE CoalescerProofs ----------------------------
(***************************************************************************)
(* Proofs about Coalescer, for any number of requests, memory areas and      *)
(* addresses.  The invariant keeps the coalescer's books: the requests it    *)
(* kept, those left in the batch, the one that starts the next batch and the *)
(* queue are disjoint and hold every request that waits without a result.    *)
(***************************************************************************)
EXTENDS Coalescer, TLAPS

--------------------------------------------------------------------------------
(* Sequences: what they contain, and that nothing is in them twice *)

Distinct(s) == \A i, j \in 1..Len(s) : s[i] = s[j] => i = j

\* The empty sequence holds nothing.
LEMMA EmptySeqFacts == In(<<>>) = {} /\ Distinct(<<>>) /\ \A S : <<>> \in Seq(S)
  BY DEF In, Distinct

\* A sequence of one element, such as the batch that begins.
LEMMA SingletonFacts ==
  ASSUME NEW S, NEW e \in S
  PROVE  /\ <<e>> \in Seq(S) /\ <<e>> # <<>> /\ Len(<<e>>) = 1 /\ <<e>>[1] = e
         /\ In(<<e>>) = {e} /\ Distinct(<<e>>)
  BY DEF In, Distinct

\* What Append (a request that is queued or joins) keeps and adds.
LEMMA AppendFacts ==
  ASSUME NEW S, NEW s \in Seq(S), NEW e \in S
  PROVE  /\ Append(s, e) \in Seq(S) /\ Append(s, e) # <<>>
         /\ Len(Append(s, e)) = Len(s) + 1
         /\ s # <<>> => Append(s, e)[1] = s[1]
         /\ In(Append(s, e)) = In(s) \cup {e}
         /\ Distinct(s) /\ e \notin In(s) => Distinct(Append(s, e))
<1>1. /\ Append(s, e) \in Seq(S) /\ Len(Append(s, e)) = Len(s) + 1
      /\ \A i \in 1..Len(s) : Append(s, e)[i] = s[i]
      /\ Append(s, e)[Len(s) + 1] = e /\ Len(s) \in Nat
  OBVIOUS
<1>2. 1..(Len(s) + 1) = (1..Len(s)) \cup {Len(s) + 1}
  BY <1>1
<1>3. Append(s, e) # <<>>
  BY <1>1
<1>4. s # <<>> => Append(s, e)[1] = s[1]
  OBVIOUS
<1>5. In(Append(s, e)) = In(s) \cup {e}
  BY <1>1, <1>2 DEF In
<1>6. Distinct(s) /\ e \notin In(s) => Distinct(Append(s, e))
  BY <1>1, <1>2 DEF In, Distinct
<1>7. QED
  BY <1>1, <1>3, <1>4, <1>5, <1>6

\* What is left of a channel, or of a batch, when its head is taken.
LEMMA TailFacts ==
  ASSUME NEW S, NEW s \in Seq(S), s # <<>>
  PROVE  /\ Head(s) \in S /\ Tail(s) \in Seq(S) /\ Len(Tail(s)) = Len(s) - 1
         /\ In(s) = {Head(s)} \cup In(Tail(s))
         /\ Distinct(s) => Distinct(Tail(s)) /\ Head(s) \notin In(Tail(s))
<1>1. /\ Len(s) \in Nat /\ Len(s) >= 1 /\ Head(s) = s[1] /\ Head(s) \in S
      /\ Tail(s) \in Seq(S) /\ Len(Tail(s)) = Len(s) - 1
      /\ \A i \in 1..(Len(s) - 1) : Tail(s)[i] = s[i + 1]
  OBVIOUS
<1>2. In(s) = {Head(s)} \cup In(Tail(s))
  <2>1. ASSUME NEW x \in In(s) PROVE x \in {Head(s)} \cup In(Tail(s))
    <3>1. PICK i \in 1..Len(s) : x = s[i]
      BY <2>1 DEF In
    <3>2. i = 1 \/ (i - 1 \in 1..(Len(s) - 1) /\ Tail(s)[i - 1] = s[i])
      BY <1>1
    <3>3. QED BY <1>1, <3>1, <3>2 DEF In
  <2>2. ASSUME NEW x \in {Head(s)} \cup In(Tail(s)) PROVE x \in In(s)
    <3>1. CASE x = Head(s)
      BY <1>1, <3>1 DEF In
    <3>2. CASE x \in In(Tail(s))
      <4>1. PICK i \in 1..(Len(s) - 1) : x = Tail(s)[i]
        BY <1>1, <3>2 DEF In
      <4>2. i + 1 \in 1..Len(s) /\ x = s[i + 1]
        BY <1>1, <4>1
      <4>3. QED BY <4>2 DEF In
    <3>3. QED BY <2>2, <3>1, <3>2
  <2>3. QED BY <2>1, <2>2
<1>3. ASSUME Distinct(s) PROVE Distinct(Tail(s)) /\ Head(s) \notin In(Tail(s))
  <2>1. ASSUME NEW i \in 1..Len(Tail(s)), NEW j \in 1..Len(Tail(s)),
               Tail(s)[i] = Tail(s)[j]
        PROVE  i = j
    <3>1. i + 1 \in 1..Len(s) /\ j + 1 \in 1..Len(s) /\ s[i + 1] = s[j + 1]
      BY <1>1, <2>1
    <3>2. i + 1 = j + 1
      BY <1>3, <3>1 DEF Distinct
    <3>3. QED BY <3>2, <1>1
  <2>2. ASSUME NEW i \in 1..Len(Tail(s)), Tail(s)[i] = Head(s) PROVE FALSE
    <3>1. i + 1 \in 1..Len(s) /\ 1 \in 1..Len(s) /\ s[i + 1] = s[1]
      BY <1>1, <2>2
    <3>2. i + 1 = 1
      BY <1>3, <3>1 DEF Distinct
    <3>3. QED BY <3>2, <1>1
  <2>3. QED BY <2>1, <2>2 DEF In, Distinct
<1>4. QED
  BY <1>1, <1>2, <1>3

\* Two sequences in a row have no repetition iff neither has and they are
\* disjoint.
LEMMA ConcatFacts ==
  ASSUME NEW S, NEW s \in Seq(S), NEW t \in Seq(S)
  PROVE  /\ s \o t \in Seq(S)
         /\ In(s \o t) = In(s) \cup In(t)
         /\ Distinct(s \o t) <=> /\ Distinct(s) /\ Distinct(t)
                                 /\ In(s) \cap In(t) = {}
<1> DEFINE u == s \o t
<1>1. /\ Len(s) \in Nat /\ Len(t) \in Nat
      /\ u \in Seq(S) /\ Len(u) = Len(s) + Len(t)
      /\ \A i \in 1..(Len(s) + Len(t)) :
           u[i] = IF i <= Len(s) THEN s[i] ELSE t[i - Len(s)]
  OBVIOUS
<1> HIDE DEF u
<1>2. /\ \A i \in 1..Len(s) : i \in 1..Len(u) /\ u[i] = s[i]
      /\ \A i \in 1..Len(t) :
           i + Len(s) \in 1..Len(u) /\ u[i + Len(s)] = t[i]
      /\ \A i \in 1..Len(u) : \/ i \in 1..Len(s)
                              \/ i - Len(s) \in 1..Len(t)
  BY <1>1, SMTT(30)
<1>3. In(u) = In(s) \cup In(t)
  <2>1. ASSUME NEW x \in In(u) PROVE x \in In(s) \cup In(t)
    <3>1. PICK i \in 1..Len(u) : x = u[i]
      BY <2>1 DEF In
    <3>2. \/ i \in 1..Len(s) /\ x = s[i]
          \/ i - Len(s) \in 1..Len(t) /\ x = t[i - Len(s)]
      BY <1>1, <3>1
    <3>3. QED BY <3>2 DEF In
  <2>2. ASSUME NEW x \in In(s) \cup In(t) PROVE x \in In(u)
    BY <1>2, <2>2 DEF In
  <2>3. QED BY <2>1, <2>2
<1>4. Distinct(u) => Distinct(s) /\ Distinct(t) /\ In(s) \cap In(t) = {}
  <2> SUFFICES ASSUME Distinct(u)
               PROVE  Distinct(s) /\ Distinct(t) /\ In(s) \cap In(t) = {}
    OBVIOUS
  <2>1. Distinct(s)
    BY <1>2 DEF Distinct
  <2>2. ASSUME NEW i \in 1..Len(t), NEW j \in 1..Len(t), t[i] = t[j]
        PROVE  i = j
    <3>1. i + Len(s) = j + Len(s)
      BY <1>2, <2>2 DEF Distinct
    <3>2. QED BY <3>1, <1>1
  <2>3. ASSUME NEW i \in 1..Len(s), NEW j \in 1..Len(t), s[i] = t[j]
        PROVE  FALSE
    <3>1. i = j + Len(s)
      BY <1>2, <2>3 DEF Distinct
    <3>2. QED BY <3>1, <1>1
  <2>4. QED BY <2>1, <2>2, <2>3 DEF Distinct, In
<1>5. Distinct(s) /\ Distinct(t) /\ In(s) \cap In(t) = {} => Distinct(u)
  <2> SUFFICES ASSUME Distinct(s), Distinct(t), In(s) \cap In(t) = {},
                      NEW i \in 1..Len(u), NEW j \in 1..Len(u), u[i] = u[j]
               PROVE  i = j
    BY DEF Distinct
  <2>1. CASE i <= Len(s) /\ j <= Len(s)
    BY <1>1, <2>1 DEF Distinct
  <2>2. CASE i > Len(s) /\ j > Len(s)
    <3>1. /\ i - Len(s) \in 1..Len(t) /\ j - Len(s) \in 1..Len(t)
          /\ t[i - Len(s)] = t[j - Len(s)]
      BY <1>1, <2>2
    <3>2. i - Len(s) = j - Len(s)
      BY <3>1 DEF Distinct
    <3>3. QED BY <1>1, <3>2
  <2>3. ASSUME NEW k \in 1..Len(s), NEW l \in 1..Len(t), s[k] = t[l]
        PROVE  FALSE
    BY <2>3 DEF In
  <2>4. CASE (i <= Len(s) /\ j > Len(s)) \/ (i > Len(s) /\ j <= Len(s))
    <3>1. \/ /\ i \in 1..Len(s) /\ j - Len(s) \in 1..Len(t)
             /\ s[i] = t[j - Len(s)]
          \/ /\ j \in 1..Len(s) /\ i - Len(s) \in 1..Len(t)
             /\ s[j] = t[i - Len(s)]
      BY <1>1, <2>4
    <3>2. QED BY <2>3, <3>1
  <2>5. QED BY <1>1, <2>1, <2>2, <2>3, <2>4
<1>6. QED
  BY <1>1, <1>3, <1>4, <1>5 DEF u

--------------------------------------------------------------------------------
(* The inductive invariant *)

CallType ==
  /\ pc \in [Requests -> {"idle", "direct", "send", "wait", "returned"}]
  /\ read \in [Requests -> Reads \cup {Nothing}]
  /\ since \in [Requests -> 0..MaxWrites]
  /\ answer \in [Requests -> Answers]
RespType  == resp \in [Requests -> Answers]
QueueType == queue \in Seq(Requests) /\ Len(queue) <= QueueCap
BatchType ==
  /\ stage \in {"run", "batch", "flush", "read", "gone"}
  /\ batch \in Seq(Requests) /\ active \in Seq(Requests)
  /\ next \in Seq(Requests) /\ Len(next) <= 1
  /\ minAddr \in Addresses /\ maxEnd \in Addresses
EnvType ==
  /\ version \in 0..MaxWrites /\ expired \subseteq Requests
  /\ stopped \in BOOLEAN

\* TypeOK by the parts that an action can disturb.
LEMMA TypeParts ==
  /\ TypeOK <=> CallType /\ RespType /\ QueueType /\ BatchType /\ EnvType
  /\ TypeOK' <=> CallType' /\ RespType' /\ QueueType' /\ BatchType' /\ EnvType'
  BY Zenon DEF TypeOK, CallType, RespType, QueueType, BatchType, EnvType

\* What the locals of the goroutine hold at each of its stages.
StageInv ==
  /\ stage \in {"run", "gone", "read"} => batch = <<>>
  /\ stage \in {"run", "gone", "batch"} => active = <<>> /\ next = <<>>
  /\ stage = "batch" => batch # <<>>
  /\ stage = "read" => active # <<>>

\* The four places are disjoint, and none holds a request twice.
BooksInv ==
  /\ Distinct(active) /\ Distinct(batch) /\ Distinct(next) /\ Distinct(queue)
  /\ In(active) \cap In(batch) = {}
  /\ (In(active) \cup In(batch)) \cap In(next) = {}
  /\ (In(active) \cup In(batch) \cup In(next)) \cap In(queue) = {}

Owing == In(active) \cup In(batch) \cup In(next) \cup In(queue)

\* Who is on the books sent a request that is batched and has no result yet.
OwingInv ==
  /\ \A r \in Owing : resp[r] = NoAnswer /\ pc[r] \in {"wait", "returned"}
  /\ \A r \in Requests : resp[r] # NoAnswer => pc[r] \in {"wait", "returned"}

AskedInv ==
  /\ \A r \in Requests : pc[r] # "idle" => read[r] \in Reads
  /\ \A r \in Requests :
       pc[r] = "send" \/ r \in Owing => read[r].count \in 1..MaxSpan

\* A result is an error or the request's own words, no older than its call.
OwnResult(r) ==
  /\ since[r] <= version
  /\ \/ resp[r] \in {NoAnswer, Failed}
     \/ \E v \in 0..version : /\ resp[r] = Words(read[r], v)
                              /\ pc[r] = "wait" => since[r] <= v
ResultInv == \A r \in Requests : OwnResult(r)

\* The batch lies in one area, between minAddr and maxEnd.
Members == In(active) \cup In(batch)

AreaInv ==
  \A r \in Members :
    /\ minAddr <= read[r].address
    /\ End(read[r]) <= maxEnd
    /\ \A q \in Members : read[q].area = read[r].area

Inv == TypeOK /\ StageInv /\ BooksInv /\ OwingInv /\ AskedInv /\ ResultInv
       /\ AreaInv

--------------------------------------------------------------------------------
(* Arithmetic of addresses *)

\* uint16 arithmetic on a request: its end is an address, and less its start
\* it is the count, also when it wraps.
LEMMA AddressFacts ==
  ASSUME NEW q \in Reads
  PROVE  /\ q.address \in Addresses /\ q.count \in 0..(Space - 1)
         /\ q.area \in Areas
         /\ q = [area |-> q.area, address |-> q.address, count |-> q.count]
         /\ End(q) \in Addresses
         /\ q.address + q.count < Space => End(q) = q.address + q.count
         /\ q.count > 0 => Minus(End(q), q.address) = q.count
<1>1. q \in [area : Areas, address : 0..(Space - 1), count : 0..(Space - 1)]
  BY CoalescerAssumption
<1>2. /\ q.address \in 0..(Space - 1) /\ q.count \in 0..(Space - 1)
      /\ q.area \in Areas
      /\ q = [area |-> q.area, address |-> q.address, count |-> q.count]
  BY <1>1
<1>3. QED
  BY <1>2, CoalescerAssumption DEF Addresses, End, Plus, Minus

\* The elements of a sequence come from its set.
LEMMA RangeFacts ==
  ASSUME NEW S, NEW s \in Seq(S)
  PROVE  In(s) \subseteq S /\ (s # <<>> => s[1] \in In(s))
  BY DEF In

\* The slice of a request that was read is its own words, or an error.
LEMMA SliceFacts ==
  ASSUME TypeOK, StageInv, AskedInv, AreaInv, stage = "read",
         NEW r \in In(active)
  PROVE  /\ r \in Requests /\ read[r] \in Reads
         /\ Slice(read[r]) \in {Failed, Words(read[r], version)}
         /\ (\A q \in In(active) : read[q].address + read[q].count < Space)
              => Slice(read[r]) # Failed
<1> DEFINE q == read[r]
<1>1. active \in Seq(Requests) /\ active # <<>>
  BY DEF TypeOK, StageInv
<1>2. r \in Requests /\ active[1] \in In(active) /\ active[1] \in Requests
  BY <1>1, RangeFacts
<1>3. /\ q \in Reads /\ q.count \in 1..MaxSpan
      /\ read[active[1]].area = q.area
      /\ minAddr <= q.address /\ End(q) <= maxEnd
  <2>1. r \in Owing
    BY DEF Owing
  <2>2. pc[r] # "idle" => q \in Reads
    BY <1>2 DEF AskedInv
  <2>3. q.count \in 1..MaxSpan
    BY <1>2, <2>1 DEF AskedInv
  <2>4. q \in Reads
    BY <1>2, <2>3, CoalescerAssumption DEF TypeOK, Nothing
  <2>5. QED BY <1>2, <2>3, <2>4 DEF AreaInv, Members
<1>4. minAddr \in Addresses /\ maxEnd \in Addresses
  BY DEF TypeOK
<1> HIDE DEF q
<1>5. /\ q.address \in Addresses /\ q.count \in 0..(Space - 1)
      /\ q = [area |-> q.area, address |-> q.address, count |-> q.count]
      /\ End(q) \in Addresses
      /\ q.address + q.count < Space => End(q) = q.address + q.count
  BY <1>3, AddressFacts
<1>6. Minus(q.address, minAddr) = q.address - minAddr
  BY <1>3, <1>4, <1>5, CoalescerAssumption DEF Addresses, Minus
<1>7. Plus(minAddr, q.address - minAddr) = q.address
  BY <1>3, <1>4, <1>5, CoalescerAssumption DEF Addresses, Plus
<1>8. Slice(q) \in {Failed, Words(q, version)}
  BY <1>3, <1>5, <1>6, <1>7 DEF Slice
<1>9. ASSUME q.address + q.count < Space PROVE Slice(q) # Failed
  <2>1. q.address - minAddr + q.count <= Span
    BY <1>3, <1>4, <1>5, <1>9, CoalescerAssumption
       DEF Addresses, Span, Minus
  <2>2. ~(Minus(q.address, minAddr) + q.count > Span)
    BY <1>4, <1>5, <1>6, <2>1, CoalescerAssumption
       DEF Addresses, Span, Minus
  <2>3. Slice(q) = Words(q, version)
    BY <1>3, <1>5, <1>6, <1>7, <2>2 DEF Slice
  <2>4. QED BY <2>3 DEF Words, Failed
<1>10. QED
  BY <1>2, <1>3, <1>8, <1>9 DEF q

--------------------------------------------------------------------------------
(* The initial states *)

\* The invariant holds at first: there is nothing on the books.
LEMMA InitInv == Init => Inv
<1> SUFFICES ASSUME Init PROVE Inv
  OBVIOUS
<1> USE DEF Init
<1>1. TypeOK
  <2>1. CallType /\ RespType
    BY CoalescerAssumption DEF CallType, RespType, Answers, NoAnswer, Nothing
  <2>2. QueueType /\ BatchType
    <3>1. <<>> \in Seq(Requests) /\ Len(<<>>) = 0
      BY EmptySeqFacts
    <3>2. 0 \in Addresses /\ 0 <= QueueCap
      BY CoalescerAssumption DEF Addresses
    <3>3. QED BY <3>1, <3>2 DEF QueueType, BatchType
  <2>3. EnvType
    <3>1. version \in 0..MaxWrites /\ expired \subseteq Requests
      BY CoalescerAssumption
    <3>2. stopped \in BOOLEAN
      BY Zenon
    <3>3. QED BY <3>1, <3>2 DEF EnvType
  <2>4. QED BY <2>1, <2>2, <2>3, TypeParts
<1>2. StageInv /\ BooksInv
  BY EmptySeqFacts DEF StageInv, BooksInv
<1>3. OwingInv /\ AskedInv /\ AreaInv
  BY EmptySeqFacts DEF OwingInv, AskedInv, AreaInv, Members, Owing
<1>4. ASSUME NEW r \in Requests PROVE OwnResult(r)
  <2>1. version = 0 /\ since[r] = 0 /\ resp[r] = NoAnswer
    OBVIOUS
  <2>2. QED BY <2>1 DEF OwnResult
<1>5. QED BY <1>1, <1>2, <1>3, <1>4 DEF Inv, ResultInv

--------------------------------------------------------------------------------
(* Steps: the books *)

\* Callers and the environment leave the goroutine's locals alone.
LEMMA OthersKeepBatch ==
  ASSUME Environment \/ \E r \in Requests : Caller(r)
  PROVE  UNCHANGED batchVars
  BY DEF Environment, Caller, Call, Direct, Enqueue, Abandon, Receive,
         Stop, Write, Expire

\* The locals are as their stage says after every step.
LEMMA StageStep == ASSUME TypeOK, StageInv, Next PROVE StageInv'
<1> USE DEF StageInv, TypeOK
<1>1. CASE Environment \/ \E r \in Requests : Caller(r)
  BY <1>1, OthersKeepBatch DEF batchVars
<1>2. ASSUME NEW r \in Requests,
             \/ Take(r) \/ SkipExpired(r) \/ Join(r) \/ Split(r) \/ Filter(r)
      PROVE  StageInv'
  <2>1. CASE Take(r)
    BY <2>1, SingletonFacts DEF Take, StartBatch
  <2>2. CASE SkipExpired(r)
    BY <2>2 DEF SkipExpired, batchVars
  <2>3. CASE Join(r)
    BY <2>3, AppendFacts DEF Join
  <2>4. CASE Split(r)
    BY <2>4 DEF Split, Flush
  <2>5. CASE Filter(r)
    BY <2>5 DEF Filter
  <2>6. QED BY <1>2, <2>1, <2>2, <2>3, <2>4, <2>5
<1>3. ASSUME Continue PROVE StageInv'
  BY <1>3 DEF Continue, Idle, StartBatch
<1>4. CASE StopRun
  BY <1>4 DEF StopRun, Idle
<1>5. CASE Timer
  BY <1>5 DEF Timer, Flush
<1>6. CASE Filtered
  BY <1>6, <1>3 DEF Filtered
<1>7. CASE ReadBatch \/ ReadBatchFails
  BY <1>7, <1>3 DEF ReadBatch, ReadBatchFails
<1>8. QED
  BY <1>1, <1>2, <1>4, <1>5, <1>6, <1>7 DEF Next, Worker

\* The parts of the books are typed.
LEMMA Parts ==
  ASSUME TypeOK
  PROVE  /\ batch \in Seq(Requests) /\ active \in Seq(Requests)
         /\ next \in Seq(Requests) /\ queue \in Seq(Requests)
         /\ next # <<>> => next[1] \in Requests /\ In(next) = {next[1]}
         /\ Owing \subseteq Requests
<1>1. /\ batch \in Seq(Requests) /\ active \in Seq(Requests)
      /\ next \in Seq(Requests) /\ queue \in Seq(Requests) /\ Len(next) <= 1
  BY DEF TypeOK
<1>2. next # <<>> => next[1] \in Requests /\ In(next) = {next[1]}
  BY <1>1 DEF In
<1>3. QED BY <1>1, <1>2, RangeFacts DEF Owing

\* Taking a request from the channel: it is there no more.
LEMMA NextRequestFacts ==
  ASSUME TypeOK, BooksInv, NEW r, NextRequest(r)
  PROVE  /\ r \in Requests /\ queue' \in Seq(Requests)
         /\ Len(queue') <= QueueCap
         /\ In(queue) = {r} \cup In(queue')
         /\ Distinct(queue') /\ r \notin In(queue')
<1>1. queue \in Seq(Requests) /\ queue # <<>> /\ Len(queue) <= QueueCap
      /\ r = Head(queue) /\ queue' = Tail(queue) /\ Distinct(queue)
  BY DEF TypeOK, BooksInv, NextRequest
<1>2. Len(queue) \in Nat
  BY <1>1
<1>3. QED BY <1>1, <1>2, TailFacts, CoalescerAssumption

\* After a flush the books hold the next request and the queue.
LEMMA ContinueFacts ==
  ASSUME TypeOK, BooksInv, Continue, UNCHANGED queue
  PROVE  /\ BooksInv' /\ Owing' = In(next) \cup In(queue)
         /\ In(active') = {} /\ In(batch') = In(next)
<1>1. /\ active' = <<>> /\ next' = <<>>
      /\ batch' = IF next = <<>> THEN <<>> ELSE <<next[1]>>
  BY DEF Continue, Idle, StartBatch
<1>2. In(batch') = In(next) /\ Distinct(batch')
  BY <1>1, Parts, EmptySeqFacts, SingletonFacts
<1>3. QED
  BY <1>1, <1>2, EmptySeqFacts DEF BooksInv, Owing

\* How the books change: by a request that is sent, skipped, or answered.
LEMMA Books ==
  ASSUME TypeOK, StageInv, BooksInv, OwingInv
  PROVE  /\ \A r \in Requests :
              /\ Enqueue(r) => BooksInv' /\ Owing' = Owing \cup {r}
              /\ Take(r) \/ Join(r) \/ Split(r) => BooksInv' /\ Owing' = Owing
              /\ SkipExpired(r) =>
                   BooksInv' /\ r \in Owing /\ Owing' = Owing \ {r}
              /\ Filter(r) =>
                   BooksInv' /\ r \in Owing /\ Owing' = Owing \ ({r} \cap expired)
         /\ Timer => BooksInv' /\ Owing' = Owing
         /\ StopRun => BooksInv' /\ Owing' \subseteq Owing
         /\ Filtered => BooksInv' /\ Owing' = Owing
         /\ ReadBatch \/ ReadBatchFails =>
              BooksInv' /\ Owing' = Owing \ In(active)
<1> USE Parts, EmptySeqFacts
<1>1. ASSUME NEW r \in Requests, Enqueue(r)
      PROVE  BooksInv' /\ Owing' = Owing \cup {r}
  <2>1. r \notin Owing /\ queue' = Append(queue, r) /\ UNCHANGED batchVars
    BY <1>1 DEF Enqueue, Goto, OwingInv
  <2>2. In(queue') = In(queue) \cup {r} /\ (r \notin In(queue) => Distinct(queue'))
    BY <2>1, AppendFacts DEF BooksInv
  <2>3. UNCHANGED <<active, batch, next>>
    BY <2>1 DEF batchVars
  <2>4. QED BY <2>1, <2>2, <2>3 DEF BooksInv, Owing
<1>2. ASSUME NEW r \in Requests, Take(r)
      PROVE  BooksInv' /\ Owing' = Owing
  <2>1. /\ batch = <<>> /\ active = <<>> /\ next = <<>>
        /\ batch' = <<r>> /\ active' = <<>> /\ next' = <<>> /\ NextRequest(r)
    BY <1>2 DEF Take, StartBatch, StageInv
  <2>2. QED
    BY <2>1, NextRequestFacts, SingletonFacts DEF BooksInv, Owing
<1>3. ASSUME NEW r \in Requests, Join(r)
      PROVE  BooksInv' /\ Owing' = Owing
  <2>1. batch' = Append(batch, r) /\ UNCHANGED <<active, next>> /\ NextRequest(r)
    BY <1>3 DEF Join
  <2>2. In(batch') = In(batch) \cup {r}
        /\ (r \notin In(batch) => Distinct(batch'))
    BY <2>1, AppendFacts DEF BooksInv
  <2>3. QED
    BY <2>1, <2>2, NextRequestFacts DEF BooksInv, Owing
<1>4. ASSUME NEW r \in Requests, Split(r)
      PROVE  BooksInv' /\ Owing' = Owing
  <2>1. /\ next = <<>> /\ next' = <<r>> /\ UNCHANGED <<active, batch>>
        /\ NextRequest(r)
    BY <1>4 DEF Split, Flush, StageInv
  <2>2. QED
    BY <2>1, NextRequestFacts, SingletonFacts DEF BooksInv, Owing
<1>5. ASSUME NEW r \in Requests, SkipExpired(r)
      PROVE  BooksInv' /\ r \in Owing /\ Owing' = Owing \ {r}
  <2>1. UNCHANGED <<active, batch, next>> /\ NextRequest(r)
    BY <1>5 DEF SkipExpired, batchVars
  <2>2. QED
    BY <2>1, NextRequestFacts DEF BooksInv, Owing
<1>6. ASSUME NEW r \in Requests, Filter(r)
      PROVE  BooksInv' /\ r \in Owing /\ Owing' = Owing \ ({r} \cap expired)
  <2>1. /\ batch # <<>> /\ r = Head(batch) /\ batch' = Tail(batch)
        /\ active' = IF r \in expired THEN active ELSE Append(active, r)
        /\ UNCHANGED <<next, queue>>
    BY <1>6 DEF Filter, Kept
  <2>2. /\ In(batch) = {r} \cup In(batch') /\ Distinct(batch')
        /\ r \notin In(batch')
    BY <2>1, TailFacts DEF BooksInv
  <2>3. Distinct(active) /\ r \notin In(active)
    BY <2>2 DEF BooksInv
  <2>4. CASE r \in expired
    BY <2>1, <2>2, <2>4 DEF BooksInv, Owing
  <2>5. CASE r \notin expired
    <3>1. In(active') = In(active) \cup {r} /\ Distinct(active')
      BY <2>1, <2>3, <2>5, AppendFacts
    <3>2. QED BY <2>1, <2>2, <2>5, <3>1 DEF BooksInv, Owing
  <2>6. QED BY <2>4, <2>5
<1>7. ASSUME Timer PROVE BooksInv' /\ Owing' = Owing
  <2>1. UNCHANGED <<active, batch, next, queue>>
    BY <1>7 DEF Timer, Flush, StageInv
  <2>2. QED BY <2>1 DEF BooksInv, Owing
<1>8. ASSUME StopRun PROVE BooksInv' /\ Owing' \subseteq Owing
  <2>1. /\ UNCHANGED queue
        /\ \/ UNCHANGED <<active, batch, next>>
           \/ active' = <<>> /\ batch' = <<>> /\ next' = <<>>
    BY <1>8 DEF StopRun, Idle
  <2>2. QED BY <2>1 DEF BooksInv, Owing
<1>9. ASSUME Filtered PROVE BooksInv' /\ Owing' = Owing
  <2>1. batch = <<>> /\ UNCHANGED queue
    BY <1>9 DEF Filtered
  <2>2. CASE active = <<>>
    BY <1>9, <2>1, <2>2, ContinueFacts DEF Filtered, Owing
  <2>3. CASE active # <<>>
    BY <1>9, <2>1, <2>3 DEF Filtered, BooksInv, Owing
  <2>4. QED BY <2>2, <2>3
<1>10. ASSUME ReadBatch \/ ReadBatchFails
       PROVE  BooksInv' /\ Owing' = Owing \ In(active)
  <2>1. batch = <<>> /\ UNCHANGED queue /\ Continue
    BY <1>10 DEF ReadBatch, ReadBatchFails, StageInv
  <2>2. QED
    BY <2>1, ContinueFacts DEF BooksInv, Owing
<1>11. QED
  BY ONLY <1>1, <1>2, <1>3, <1>4, <1>5, <1>6, <1>7, <1>8, <1>9, <1>10

\* Owing is a function of the books.
LEMMA SameBooks ==
  ASSUME UNCHANGED batchVars, UNCHANGED queue
  PROVE  /\ Owing' = Owing /\ (BooksInv => BooksInv')
         /\ (In(active) \cup In(batch))' = In(active) \cup In(batch)
  BY DEF batchVars, Owing, BooksInv

\* No step puts a request on the books twice.
LEMMA BooksStep ==
  ASSUME TypeOK, StageInv, BooksInv, OwingInv, Next
  PROVE  BooksInv'
<1>1. ASSUME NEW r \in Requests, Caller(r) PROVE BooksInv'
  <2>1. CASE Enqueue(r)
    BY <2>1, Books
  <2>2. CASE ~Enqueue(r)
    <3>1. UNCHANGED batchVars /\ UNCHANGED queue
      BY <1>1, <2>2 DEF Caller, Call, Direct, Abandon, Receive
    <3>2. QED BY <3>1, SameBooks
  <2>3. QED BY <2>1, <2>2
<1>2. CASE Environment
  <2>1. UNCHANGED batchVars /\ UNCHANGED queue
    BY <1>2 DEF Environment, Stop, Write, Expire
  <2>2. QED BY <2>1, SameBooks
<1>3. CASE Worker
  BY <1>3, Books DEF Worker
<1>4. QED BY <1>1, <1>2, <1>3 DEF Next

\* Send fills just the channels of its domain, which were empty.
LEMMA SendFacts ==
  ASSUME TypeOK, NEW S \in SUBSET Requests, NEW f, DOMAIN f = S, Send(f)
  PROVE  /\ \A r \in S : resp[r] = NoAnswer /\ resp'[r] = f[r]
         /\ \A r \in Requests \ S : resp'[r] = resp[r]
  BY DEF Send, TypeOK

\* Only the goroutine sends results, and only to who is on the books.
LEMMA Sent ==
  ASSUME TypeOK, StageInv, BooksInv, OwingInv, Worker,
         NEW r \in Requests, resp'[r] # resp[r]
  PROVE  r \in Owing
<1>1. ASSUME NEW S \in SUBSET Owing, NEW f, DOMAIN f = S, Send(f)
      PROVE  r \in Owing
  BY <1>1, Parts, SendFacts
<1>2. ASSUME NEW q \in Requests, SkipExpired(q) \/ Filter(q) PROVE r \in Owing
  <2>1. q \in Owing
    BY <1>2, Books
  <2>2. \/ Send([x \in {q} |-> Failed])
        \/ Send([x \in {q} \cap expired |-> Failed])
    BY <1>2 DEF SkipExpired, Filter
  <2>3. QED BY <1>1, <2>1, <2>2
<1>3. CASE ReadBatch \/ ReadBatchFails
  <2>1. \/ Send([x \in In(active) |-> Slice(read[x])])
        \/ Send([x \in In(active) |-> Failed])
    BY <1>3 DEF ReadBatch, ReadBatchFails
  <2>2. QED BY <1>1, <2>1 DEF Owing
<1>4. QED
  BY <1>2, <1>3 DEF Worker, Take, Join, Split, StopRun, Timer, Filtered

\* A request leaves the books in the step that sends its result.
LEMMA OwingStep ==
  ASSUME TypeOK, StageInv, BooksInv, OwingInv, Next
  PROVE  OwingInv'
<1> USE DEF OwingInv, TypeOK
<1>1. ASSUME NEW r \in Requests, Caller(r) PROVE OwingInv'
  <2>1. CASE Enqueue(r)
    <3>1. Owing' = Owing \cup {r}
      BY <2>1, Books
    <3>2. QED BY <2>1, <3>1, Parts DEF Enqueue, Goto
  <2>2. CASE ~Enqueue(r)
    <3>1. Owing' = Owing
      BY <1>1, <2>2, SameBooks DEF Caller, Call, Direct, Abandon, Receive
    <3>2. CASE Call(r)
      BY <3>1, <3>2, Parts DEF Call, Goto
    <3>3. CASE Direct(r)
      BY <3>1, <3>3, Parts DEF Direct, Return, Goto
    <3>4. CASE Abandon(r)
      BY <3>1, <3>4, Parts DEF Abandon, Return, Goto
    <3>5. CASE Receive(r)
      BY <3>1, <3>5, Parts DEF Receive, Return, Goto
    <3>6. QED BY <1>1, <2>2, <3>2, <3>3, <3>4, <3>5 DEF Caller
  <2>3. QED BY <2>1, <2>2
<1>2. CASE Environment
  <2>1. Owing' = Owing /\ UNCHANGED <<pc, resp>>
    BY <1>2, SameBooks DEF Environment, Stop, Write, Expire, callVars
  <2>2. QED BY <2>1
<1>3. ASSUME Owing' \subseteq Owing, UNCHANGED <<pc, resp>> PROVE OwingInv'
  BY <1>3
<1>4. ASSUME NEW S \in SUBSET Owing, NEW f, DOMAIN f = S, Send(f),
             Owing' = Owing \ S, UNCHANGED pc
      PROVE  OwingInv'
  BY <1>4, Parts, SendFacts
<1>5. ASSUME NEW r \in Requests,
             \/ Take(r) \/ SkipExpired(r) \/ Join(r) \/ Split(r) \/ Filter(r)
      PROVE  OwingInv'
  <2>1. CASE Take(r) \/ Join(r) \/ Split(r)
    <3>1. Owing' = Owing
      BY <2>1, Books
    <3>2. UNCHANGED <<pc, resp>>
      BY <2>1 DEF Take, Join, Split, callVars
    <3>3. QED BY <1>3, <3>1, <3>2
  <2>2. CASE SkipExpired(r)
    <3>1. r \in Owing /\ Owing' = Owing \ {r}
      BY <2>2, Books
    <3>2. Send([x \in {r} |-> Failed]) /\ UNCHANGED pc
      BY <2>2 DEF SkipExpired, callVars
    <3>3. QED BY <1>4, <3>1, <3>2
  <2>3. CASE Filter(r)
    <3>1. r \in Owing /\ Owing' = Owing \ ({r} \cap expired)
      BY <2>3, Books
    <3>2. Send([x \in {r} \cap expired |-> Failed]) /\ UNCHANGED pc
      BY <2>3 DEF Filter, callVars
    <3>3. QED BY <1>4, <3>1, <3>2
  <2>4. QED BY <1>5, <2>1, <2>2, <2>3
<1>6. CASE StopRun \/ Timer \/ Filtered
  <2>1. Owing' \subseteq Owing
    BY <1>6, Books
  <2>2. UNCHANGED <<pc, resp>>
    BY <1>6 DEF StopRun, Timer, Filtered, callVars
  <2>3. QED BY <1>3, <2>1, <2>2
<1>7. CASE ReadBatch \/ ReadBatchFails
  <2>1. Owing' = Owing \ In(active) /\ In(active) \subseteq Owing
    BY <1>7, Books DEF Owing
  <2>2. UNCHANGED pc
    BY <1>7 DEF ReadBatch, ReadBatchFails, callVars
  <2>3. \/ Send([r \in In(active) |-> Slice(read[r])])
        \/ Send([r \in In(active) |-> Failed])
    BY <1>7 DEF ReadBatch, ReadBatchFails
  <2>4. QED BY <1>4, <2>1, <2>2, <2>3
<1>8. QED
  BY <1>1, <1>2, <1>5, <1>6, <1>7 DEF Next, Worker

--------------------------------------------------------------------------------
(* Steps: calls and results *)

\* Only Call changes what a call asks for, and only callers change their stage.
LEMMA ReadsKept ==
  ASSUME TypeOK, Next
  PROVE  \/ UNCHANGED <<pc, read, since, answer>>
         \/ \E r \in Requests :
              \/ Call(r)
              \/ (Direct(r) \/ Enqueue(r) \/ Abandon(r) \/ Receive(r))
                 /\ UNCHANGED read
  BY DEF Next, Worker, Environment, Caller, Direct, Enqueue, Abandon, Receive,
         Return, Take, SkipExpired, Join, Split, Filter, StopRun, Timer,
         Filtered, ReadBatch, ReadBatchFails, Stop, Write, Expire, callVars

\* Enqueue alone adds to the books.
LEMMA OwingGrows ==
  ASSUME TypeOK, StageInv, BooksInv, OwingInv, Next, NEW r \in Requests,
         r \in Owing', r \notin Owing
  PROVE  Enqueue(r)
<1>1. ASSUME NEW q \in Requests, Caller(q) PROVE Enqueue(r)
  <2>1. CASE Enqueue(q)
    BY <2>1, Books
  <2>2. CASE ~Enqueue(q)
    BY <1>1, <2>2, SameBooks DEF Caller, Call, Direct, Abandon, Receive
  <2>3. QED BY <2>1, <2>2
<1>2. CASE Environment
  BY <1>2, SameBooks DEF Environment, Stop, Write, Expire
<1>3. CASE Worker
  BY <1>3, Books DEF Worker
<1>4. QED BY <1>1, <1>2, <1>3 DEF Next

\* A request is fixed before it is on the books.
LEMMA AskedStep ==
  ASSUME TypeOK, StageInv, BooksInv, OwingInv, AskedInv, Next
  PROVE  AskedInv'
<1> USE DEF AskedInv, TypeOK
<1>1. CASE UNCHANGED <<pc, read, since, answer>>
  <2>1. ASSUME NEW r \in Requests, r \in Owing', r \notin Owing PROVE FALSE
    BY <1>1, <2>1, OwingGrows DEF Enqueue, Goto
  <2>2. QED BY <1>1, <2>1
<1>2. ASSUME NEW c \in Requests, Call(c) PROVE AskedInv'
  <2>1. Owing' = Owing /\ c \notin Owing /\ pc[c] = "idle"
    BY <1>2, SameBooks DEF Call, Goto, OwingInv
  <2>2. PICK q \in Reads :
          /\ pc' = [pc EXCEPT ![c] = IF Bypassed(q) THEN "direct" ELSE "send"]
          /\ read' = [read EXCEPT ![c] = q]
    BY <1>2 DEF Call, Goto
  <2>3. ~Bypassed(q) => q.count \in 1..MaxSpan
    BY AddressFacts, CoalescerAssumption DEF Bypassed
  <2>4. QED BY <2>1, <2>2, <2>3
<1>3. ASSUME NEW c \in Requests, UNCHANGED read,
             Direct(c) \/ Enqueue(c) \/ Abandon(c) \/ Receive(c)
      PROVE  AskedInv'
  <2>1. /\ pc[c] # "idle"
        /\ \E s \in {"wait", "returned"} : pc' = [pc EXCEPT ![c] = s]
    BY <1>3 DEF Direct, Enqueue, Abandon, Receive, Return, Goto
  <2>2. ASSUME NEW r \in Requests, r \in Owing', r \notin Owing
        PROVE  pc[r] = "send"
    BY <2>2, OwingGrows DEF Enqueue, Goto
  <2>3. QED BY <1>3, <2>1, <2>2
<1>4. QED BY <1>1, <1>2, <1>3, ReadsKept

\* A result that is sent is an error or the words at the present version.
LEMMA NewResults ==
  ASSUME TypeOK, StageInv, AskedInv, AreaInv, Worker, NEW r \in Requests
  PROVE  \/ resp'[r] = resp[r]
         \/ resp'[r] \in {Failed, Words(read[r], version)}
<1>1. ASSUME NEW S \in SUBSET Requests, NEW f, DOMAIN f = S, Send(f),
             \A x \in S : f[x] \in {Failed, Words(read[x], version)}
      PROVE  \/ resp'[r] = resp[r]
             \/ resp'[r] \in {Failed, Words(read[r], version)}
  <2>1. CASE r \in S
    BY <1>1, <2>1, SendFacts
  <2>2. CASE r \notin S
    BY <1>1, <2>2, SendFacts
  <2>3. QED BY <2>1, <2>2
<1>2. CASE UNCHANGED resp
  BY <1>2
<1>3. ASSUME NEW q \in Requests, SkipExpired(q)
      PROVE  \/ resp'[r] = resp[r]
             \/ resp'[r] \in {Failed, Words(read[r], version)}
  <2>1. Send([x \in {q} |-> Failed])
    BY <1>3 DEF SkipExpired
  <2>2. QED BY <1>1, <2>1
<1>4. ASSUME NEW q \in Requests, Filter(q)
      PROVE  \/ resp'[r] = resp[r]
             \/ resp'[r] \in {Failed, Words(read[r], version)}
  <2>1. Send([x \in {q} \cap expired |-> Failed])
    BY <1>4 DEF Filter
  <2>2. {q} \cap expired \in SUBSET Requests
    OBVIOUS
  <2>3. QED BY <1>1, <2>1, <2>2
<1>5. CASE ReadBatch \/ ReadBatchFails
  <2>1. stage = "read" /\ In(active) \in SUBSET Requests
    BY <1>5, RangeFacts DEF ReadBatch, ReadBatchFails, TypeOK
  <2>2. \/ Send([x \in In(active) |-> Slice(read[x])])
        \/ Send([x \in In(active) |-> Failed])
    BY <1>5 DEF ReadBatch, ReadBatchFails
  <2>3. \A x \in In(active) : Slice(read[x]) \in {Failed, Words(read[x], version)}
    BY <2>1, SliceFacts
  <2>4. QED BY <1>1, <2>1, <2>2, <2>3
<1>6. QED
  BY <1>2, <1>3, <1>4, <1>5
     DEF Worker, Take, Join, Split, StopRun, Timer, Filtered

\* A result stays right while it waits: the memory only gets newer.
LEMMA ResultStep ==
  ASSUME TypeOK, StageInv, OwingInv, AskedInv, ResultInv, AreaInv, Next
  PROVE  ResultInv'
<1> SUFFICES ASSUME NEW r \in Requests PROVE OwnResult(r)'
  BY DEF ResultInv
<1> USE DEF OwnResult, TypeOK
<1>0. OwnResult(r) /\ version \in Nat
  BY CoalescerAssumption DEF ResultInv
<1>1. CASE Worker
  <2>1. UNCHANGED <<pc, read, since, version>>
    BY <1>1 DEF Worker, Take, SkipExpired, Join, Split, Filter, StopRun, Timer,
         Filtered, ReadBatch, ReadBatchFails, callVars, envVars
  <2>2. CASE resp'[r] = resp[r]
    BY <1>0, <2>1, <2>2
  <2>3. CASE resp'[r] \in {Failed, Words(read[r], version)}
    BY <1>0, <2>1, <2>3
  <2>4. QED BY <1>1, <2>2, <2>3, NewResults
<1>2. CASE Environment
  <2>1. /\ UNCHANGED <<pc, read, since, resp>>
        /\ version' \in Nat /\ version <= version'
    BY <1>0, <1>2 DEF Environment, Stop, Write, Expire, callVars
  <2>2. 0..version \subseteq 0..version' /\ since[r] <= version'
    BY <1>0, <2>1
  <2>3. QED BY <1>0, <2>1, <2>2
<1>3. ASSUME NEW c \in Requests, Caller(c) PROVE OwnResult(r)'
  <2>1. UNCHANGED version
    BY <1>3 DEF Caller, Call, Direct, Enqueue, Abandon, Receive, envVars
  <2>2. CASE r # c
    <3>1. pc'[r] = pc[r] /\ read'[r] = read[r] /\ since'[r] = since[r]
      BY <1>3, <2>2 DEF Caller, Call, Direct, Enqueue, Abandon, Receive,
                        Return, Goto
    <3>2. resp'[r] = resp[r]
      BY <1>3, <2>2 DEF Caller, Call, Direct, Enqueue, Abandon, Receive
    <3>3. QED BY <1>0, <2>1, <3>1, <3>2
  <2>3. CASE r = c /\ (Call(c) \/ Enqueue(c))
    <3>1. resp[r] = NoAnswer /\ UNCHANGED resp
      BY <2>3 DEF Call, Enqueue, Goto, OwingInv
    <3>2. since'[r] \in {version, since[r]}
      BY <2>3 DEF Call, Enqueue
    <3>3. QED BY <1>0, <2>1, <3>1, <3>2
  <2>4. CASE r = c /\ (Direct(c) \/ Abandon(c) \/ Receive(c))
    <3>1. /\ read'[r] = read[r] /\ since'[r] = 0 /\ pc'[r] = "returned"
          /\ resp'[r] \in {resp[r], NoAnswer}
      BY <2>4 DEF Direct, Abandon, Receive, Return, Goto
    <3>2. QED BY <1>0, <2>1, <3>1
  <2>5. QED BY <1>3, <2>2, <2>3, <2>4 DEF Caller
<1>4. QED BY <1>1, <1>2, <1>3 DEF Next

--------------------------------------------------------------------------------
(* Steps: the batch and its bounds *)

\* What the arithmetic of Join keeps.
LEMMA BoundFacts ==
  ASSUME NEW q \in Reads, minAddr \in Addresses, maxEnd \in Addresses
  PROVE  /\ NewMin(q) \in Addresses /\ NewEnd(q) \in Addresses
         /\ NewMin(q) <= minAddr /\ NewMin(q) <= q.address
         /\ maxEnd <= NewEnd(q) /\ End(q) <= NewEnd(q)
<1>1. q.address \in Addresses /\ End(q) \in Addresses
  BY AddressFacts
<1>2. QED
  BY <1>1, CoalescerAssumption
     DEF Addresses, NewMin, NewEnd, Least, Greatest

\* A request that joins is of the batch's area and widens its bounds.
LEMMA AreaStep ==
  ASSUME TypeOK, StageInv, BooksInv, OwingInv, AskedInv, AreaInv, Next
  PROVE  AreaInv'
<1> USE Parts, EmptySeqFacts
<1>1. ASSUME UNCHANGED read, UNCHANGED <<minAddr, maxEnd>>,
             Members' \subseteq Members
      PROVE  AreaInv'
  BY <1>1 DEF AreaInv, Members
<1>2. ASSUME NEW r \in Requests, UNCHANGED read, Members' = {r},
             minAddr' = read[r].address, maxEnd' = End(read[r]),
             r \in Owing
      PROVE  AreaInv'
  <2>1. read[r] \in Reads
    BY <1>2, CoalescerAssumption DEF AskedInv, OwingInv
  <2>2. read[r].address \in Nat /\ End(read[r]) \in Nat
    BY <2>1, AddressFacts, CoalescerAssumption DEF Addresses
  <2>3. QED BY <1>2, <2>2 DEF AreaInv, Members
<1>3. ASSUME UNCHANGED read, Continue, UNCHANGED queue PROVE AreaInv'
  <2>1. Members' = In(next) /\ BooksInv'
    BY <1>3, ContinueFacts DEF Members
  <2>2. CASE next = <<>>
    BY <2>1, <2>2 DEF AreaInv, Members
  <2>3. CASE next # <<>>
    <3>1. /\ minAddr' = read[next[1]].address
          /\ maxEnd' = End(read[next[1]])
      BY <1>3, <2>3 DEF Continue, StartBatch
    <3>2. next[1] \in Requests /\ In(next) = {next[1]} /\ next[1] \in Owing
      BY <2>3 DEF Owing
    <3>3. QED BY <1>2, <1>3, <2>1, <3>1, <3>2
  <2>4. QED BY <2>2, <2>3
<1>4. ASSUME NEW c \in Requests, Caller(c) PROVE AreaInv'
  <2>1. UNCHANGED batchVars
    BY <1>4, OthersKeepBatch
  <2>2. Members' = Members /\ Members \subseteq Owing
    BY <2>1 DEF batchVars, Members, Owing
  <2>3. \A r \in Members : read'[r] = read[r]
    <3>1. ASSUME NEW r \in Members, read'[r] # read[r] PROVE FALSE
      <4>1. r \in Requests /\ pc[r] # "idle"
        BY <2>2 DEF OwingInv
      <4>2. QED
        BY <1>4, <3>1, <4>1 DEF Caller, Call, Direct, Enqueue, Abandon,
             Receive, Return, Goto, TypeOK
    <3>2. QED BY <3>1
  <2>4. QED BY <2>1, <2>2, <2>3 DEF AreaInv, Members, batchVars
<1>5. CASE Environment
  <2>1. UNCHANGED batchVars /\ UNCHANGED read
    BY <1>5 DEF Environment, Stop, Write, Expire, callVars
  <2>2. QED BY <1>1, <2>1 DEF Members, batchVars
<1>6. ASSUME NEW r \in Requests, Take(r) PROVE AreaInv'
  <2>1. /\ NextRequest(r) /\ UNCHANGED read /\ batch' = <<r>> /\ active' = <<>>
        /\ minAddr' = read[r].address /\ maxEnd' = End(read[r])
    BY <1>6 DEF Take, StartBatch, callVars
  <2>2. r \in Owing /\ Members' = {r}
    BY <2>1, NextRequestFacts, SingletonFacts DEF Owing, Members
  <2>3. QED BY <1>2, <2>1, <2>2
<1>7. ASSUME NEW r \in Requests, Join(r) PROVE AreaInv'
  <2>1. /\ NextRequest(r) /\ UNCHANGED read /\ Fits(read[r])
        /\ batch' = Append(batch, r) /\ UNCHANGED active
        /\ minAddr' = NewMin(read[r]) /\ maxEnd' = NewEnd(read[r])
        /\ active = <<>> /\ batch # <<>>
    BY <1>7 DEF Join, callVars, StageInv
  <2>2. r \in Owing /\ In(batch') = In(batch) \cup {r} /\ batch[1] \in In(batch)
    BY <2>1, NextRequestFacts, AppendFacts, RangeFacts DEF Owing
  <2>3. Members' = Members \cup {r}
    BY <2>1, <2>2 DEF Members
  <2>4. \A x \in Members : x \in Requests /\ read[x] \in Reads
    BY DEF Members, Owing, OwingInv, AskedInv
  <2>5. read[r] \in Reads
    BY <2>2 DEF OwingInv, AskedInv
  <2>6. read[r].area = read[batch[1]].area
    BY <2>1 DEF Fits
  <2>7. minAddr \in Addresses /\ maxEnd \in Addresses
    BY DEF TypeOK
  <2>8. /\ NewMin(read[r]) \in Addresses /\ NewEnd(read[r]) \in Addresses
        /\ NewMin(read[r]) <= minAddr /\ NewMin(read[r]) <= read[r].address
        /\ maxEnd <= NewEnd(read[r]) /\ End(read[r]) <= NewEnd(read[r])
    BY <2>5, <2>7, BoundFacts
  <2>9. ASSUME NEW x \in Members \cup {r}
        PROVE  /\ NewMin(read[r]) <= read[x].address
               /\ End(read[x]) <= NewEnd(read[r])
               /\ read[x].area = read[r].area
    <3>1. CASE x \in Members
      <4>1. /\ minAddr <= read[x].address /\ End(read[x]) <= maxEnd
            /\ read[x].area = read[batch[1]].area
        BY <2>2, <3>1 DEF AreaInv, Members
      <4>2. read[x].address \in Addresses /\ End(read[x]) \in Addresses
        BY <2>4, <3>1, AddressFacts
      <4>3. QED
        BY <2>6, <2>7, <2>8, <4>1, <4>2, CoalescerAssumption DEF Addresses
    <3>2. CASE x = r
      BY <2>8, <3>2
    <3>3. QED BY <3>1, <3>2
  <2>10. QED BY <2>1, <2>3, <2>9 DEF AreaInv, Members
<1>8. ASSUME NEW r \in Requests, SkipExpired(r) \/ Split(r) PROVE AreaInv'
  <2>1. UNCHANGED <<batch, active, read, minAddr, maxEnd>>
    BY <1>8 DEF SkipExpired, Split, Flush, callVars, batchVars
  <2>2. QED BY <1>1, <2>1 DEF Members
<1>9. ASSUME NEW r \in Requests, Filter(r) PROVE AreaInv'
  <2>1. /\ batch # <<>> /\ r = Head(batch) /\ batch' = Tail(batch)
        /\ active' = IF r \in expired THEN active ELSE Append(active, r)
        /\ UNCHANGED <<minAddr, maxEnd, read>>
    BY <1>9 DEF Filter, Kept, callVars
  <2>2. In(batch) = {r} \cup In(batch') /\ In(active') \subseteq In(active) \cup {r}
    BY <2>1, TailFacts, AppendFacts
  <2>3. QED BY <1>1, <2>1, <2>2 DEF Members
<1>10. CASE StopRun
  <2>1. /\ UNCHANGED read
        /\ \/ UNCHANGED <<batch, active, minAddr, maxEnd>>
           \/ batch' = <<>> /\ active' = <<>>
    BY <1>10 DEF StopRun, Idle, callVars
  <2>2. CASE UNCHANGED <<batch, active, minAddr, maxEnd>>
    BY <1>1, <2>1, <2>2 DEF Members
  <2>3. CASE batch' = <<>> /\ active' = <<>>
    BY <2>3 DEF AreaInv, Members
  <2>4. QED BY <2>1, <2>2, <2>3
<1>11. CASE Timer
  <2>1. UNCHANGED <<batch, active, read, minAddr, maxEnd>>
    BY <1>11 DEF Timer, Flush, callVars
  <2>2. QED BY <1>1, <2>1 DEF Members
<1>12. CASE Filtered
  <2>1. UNCHANGED <<read, queue>>
    BY <1>12 DEF Filtered, callVars
  <2>2. Continue \/ UNCHANGED <<batch, active, minAddr, maxEnd>>
    BY <1>12 DEF Filtered
  <2>3. QED BY <1>1, <1>3, <2>1, <2>2 DEF Members
<1>13. CASE ReadBatch \/ ReadBatchFails
  BY <1>3, <1>13 DEF ReadBatch, ReadBatchFails, callVars
<1>14. QED
  BY <1>4, <1>5, <1>6, <1>7, <1>8, <1>9, <1>10, <1>11, <1>12, <1>13
     DEF Next, Worker

--------------------------------------------------------------------------------
(* Steps: types *)

\* Words, errors and no answer are answers, and tell apart.
LEMMA AnswerTypes ==
  /\ NoAnswer \in Answers /\ Failed \in Answers /\ NoAnswer # Failed
  /\ \A q \in Reads, v \in 0..MaxWrites :
       Words(q, v) \in Answers /\ Words(q, v) # NoAnswer
<1>1. 0 \in 0..MaxWrites
  BY CoalescerAssumption
<1>2. NoAnswer \in Answers /\ Failed \in Answers
  BY <1>1 DEF Answers, NoAnswer, Failed
<1>3. NoAnswer # Failed
  <2>1. NoAnswer.status = "none" /\ Failed.status = "failed"
    BY DEF NoAnswer, Failed
  <2>2. QED BY <2>1
<1>4. ASSUME NEW q \in Reads, NEW v \in 0..MaxWrites
      PROVE  Words(q, v) \in Answers /\ Words(q, v) # NoAnswer
  <2>1. Words(q, v) \in Answers
    BY DEF Answers, Words
  <2>2. Words(q, v).status = "words" /\ NoAnswer.status = "none"
    BY DEF Words, NoAnswer
  <2>3. QED BY <2>1, <2>2
<1>5. QED BY <1>2, <1>3, <1>4

\* The callers' variables keep their types.
LEMMA CallTypeStep == ASSUME Inv, Next PROVE CallType'
<1> USE TypeParts DEF Inv
<1>1. CASE UNCHANGED <<pc, read, since, answer>>
  BY <1>1 DEF CallType
<1>2. ASSUME NEW c \in Requests, Call(c) PROVE CallType'
  <2>1. PICK q \in Reads :
          /\ pc' = [pc EXCEPT ![c] = IF Bypassed(q) THEN "direct" ELSE "send"]
          /\ read' = [read EXCEPT ![c] = q]
    BY <1>2 DEF Call, Goto
  <2>2. since' = [since EXCEPT ![c] = version] /\ UNCHANGED answer
    BY <1>2 DEF Call
  <2>3. QED BY <2>1, <2>2 DEF CallType, EnvType
<1>3. ASSUME NEW c \in Requests, Enqueue(c) PROVE CallType'
  BY <1>3 DEF Enqueue, Goto, CallType
<1>4. ASSUME NEW c \in Requests, Direct(c) \/ Abandon(c) \/ Receive(c)
      PROVE  CallType'
  <2>1. Words(read[c], version) \in Answers \/ pc[c] # "direct"
    BY AnswerTypes DEF AskedInv, EnvType
  <2>2. PICK a \in Answers :
          /\ pc' = [pc EXCEPT ![c] = "returned"]
          /\ answer' = [answer EXCEPT ![c] = a]
          /\ since' = [since EXCEPT ![c] = 0] /\ UNCHANGED read
    BY <1>4, <2>1, AnswerTypes
       DEF Direct, Abandon, Receive, Return, Goto, RespType
  <2>3. 0 \in 0..MaxWrites
    BY CoalescerAssumption
  <2>4. QED BY <2>2, <2>3 DEF CallType
<1>5. QED BY <1>1, <1>2, <1>3, <1>4, ReadsKept

\* The result channels keep their type: what Slice returns is an answer.
LEMMA RespTypeStep == ASSUME Inv, Next PROVE RespType'
<1> USE TypeParts DEF Inv
<1>1. ASSUME NEW c \in Requests, Caller(c) PROVE RespType'
  <2>1. resp' \in {resp, [resp EXCEPT ![c] = NoAnswer]}
    BY <1>1 DEF Caller, Call, Direct, Enqueue, Abandon, Receive
  <2>2. QED BY <2>1, AnswerTypes DEF RespType
<1>2. CASE Environment
  BY <1>2 DEF Environment, Stop, Write, Expire, RespType
<1>3. CASE Worker
  <2>1. resp' \in [Requests -> Answers]
    <3>1. UNCHANGED resp \/ resp' = [r \in Requests |-> resp'[r]]
      BY <1>3 DEF Worker, Take, SkipExpired, Join, Split, Filter, StopRun,
           Timer, Filtered, ReadBatch, ReadBatchFails, Send
    <3>2. ASSUME NEW r \in Requests PROVE resp'[r] \in Answers
      <4>1. CASE resp'[r] = resp[r]
        BY <4>1 DEF RespType
      <4>2. CASE resp'[r] = Failed
        BY <4>2, AnswerTypes
      <4>3. CASE resp'[r] = Words(read[r], version) /\ resp'[r] # resp[r]
        <5>1. read[r] \in Reads
          <6>1. r \in Owing
            BY <1>3, <4>3, Sent
          <6>2. QED BY <6>1 DEF OwingInv, AskedInv
        <5>2. QED BY <4>3, <5>1, AnswerTypes DEF EnvType
      <4>4. QED BY <1>3, <4>1, <4>2, <4>3, NewResults
    <3>3. QED BY <3>1, <3>2 DEF RespType
  <2>2. QED BY <2>1 DEF RespType
<1>4. QED BY <1>1, <1>2, <1>3 DEF Next

\* The channel of requests stays within its capacity.
LEMMA QueueTypeStep == ASSUME Inv, Next PROVE QueueType'
<1> USE TypeParts DEF Inv
<1>1. CASE UNCHANGED queue
  BY <1>1 DEF QueueType
<1>2. ASSUME NEW r \in Requests, Enqueue(r) PROVE QueueType'
  <2>1. queue' = Append(queue, r) /\ Len(queue) < QueueCap
    BY <1>2 DEF Enqueue
  <2>2. Len(queue') = Len(queue) + 1 /\ queue' \in Seq(Requests)
    BY <2>1, AppendFacts DEF QueueType
  <2>3. Len(queue) \in Nat
    BY DEF QueueType
  <2>4. QED BY <2>1, <2>2, <2>3, CoalescerAssumption DEF QueueType
<1>3. ASSUME NEW r, NextRequest(r) PROVE QueueType'
  BY <1>3, NextRequestFacts DEF QueueType
<1>4. QED
  BY <1>1, <1>2, <1>3
     DEF Next, Worker, Environment, Caller, Call, Direct, Abandon, Receive,
         Take, SkipExpired, Join, Split, Filter, StopRun, Timer, Filtered,
         ReadBatch, ReadBatchFails, Stop, Write, Expire

\* The bounds of a batch stay addresses.
LEMMA BatchTypeStep == ASSUME Inv, Next PROVE BatchType'
<1> USE TypeParts DEF Inv
<1>1. CASE UNCHANGED batchVars
  BY <1>1 DEF BatchType, batchVars
<1>2. ASSUME NEW r \in Owing, StartBatch(r) PROVE BatchType'
  <2>1. r \in Requests /\ read[r] \in Reads
    BY Parts DEF OwingInv, AskedInv
  <2>2. read[r].address \in Addresses /\ End(read[r]) \in Addresses
    BY <2>1, AddressFacts
  <2>3. QED
    BY <1>2, <2>1, <2>2, EmptySeqFacts, SingletonFacts DEF StartBatch, BatchType
<1>3. CASE Idle
  <2>1. 0 \in Addresses /\ <<>> \in Seq(Requests) /\ Len(<<>>) = 0
    BY CoalescerAssumption, EmptySeqFacts DEF Addresses
  <2>2. QED BY <1>3, <2>1 DEF Idle, BatchType
<1>4. CASE Continue
  BY <1>2, <1>3, <1>4, Parts DEF Continue, Owing
<1>5. ASSUME NEW r \in Requests, Take(r) PROVE BatchType'
  BY <1>2, <1>5, NextRequestFacts DEF Take, Owing
<1>6. ASSUME NEW r \in Requests, Join(r) PROVE BatchType'
  <2>1. /\ NextRequest(r) /\ batch' = Append(batch, r)
        /\ UNCHANGED <<active, next>>
        /\ minAddr' = NewMin(read[r]) /\ maxEnd' = NewEnd(read[r])
        /\ stage' \in {"flush", "batch"}
    BY <1>6 DEF Join
  <2>2. read[r] \in Reads
    BY <2>1, NextRequestFacts DEF Owing, OwingInv, AskedInv
  <2>3. minAddr' \in Addresses /\ maxEnd' \in Addresses
    BY <2>1, <2>2, BoundFacts DEF BatchType
  <2>4. QED BY <2>1, <2>3, AppendFacts DEF BatchType
<1>7. ASSUME NEW r \in Requests, Split(r) PROVE BatchType'
  <2>1. /\ stage' = "flush" /\ next' = <<r>>
        /\ UNCHANGED <<batch, active, minAddr, maxEnd>>
    BY <1>7 DEF Split, Flush
  <2>2. QED BY <2>1, SingletonFacts DEF BatchType
<1>8. ASSUME NEW r \in Requests, Filter(r) PROVE BatchType'
  <2>1. /\ batch' \in Seq(Requests) /\ active' \in Seq(Requests)
        /\ UNCHANGED <<stage, minAddr, maxEnd, next>>
    BY <1>8, TailFacts, AppendFacts DEF Filter, Kept, BatchType
  <2>2. QED BY <2>1 DEF BatchType
<1>9. CASE Timer
  <2>1. /\ stage' = "flush" /\ next' = <<>>
        /\ UNCHANGED <<batch, active, minAddr, maxEnd>>
    BY <1>9 DEF Timer, Flush
  <2>2. Len(<<>>) = 0 /\ <<>> \in Seq(Requests)
    BY EmptySeqFacts
  <2>3. QED BY <2>1, <2>2 DEF BatchType
<1>10. CASE UNCHANGED <<batch, active, minAddr, maxEnd, next>>
            /\ stage' \in {"gone", "read"}
  BY <1>10 DEF BatchType
<1>11. QED
  BY <1>1, <1>3, <1>4, <1>5, <1>6, <1>7, <1>8, <1>9, <1>10, OthersKeepBatch
     DEF Next, Worker, SkipExpired, StopRun, Filtered, ReadBatch, ReadBatchFails

\* The environment's variables keep their types.
LEMMA EnvTypeStep == ASSUME TypeOK, Next PROVE EnvType'
<1> USE TypeParts
<1>1. UNCHANGED envVars \/ Environment
  BY DEF Next, Worker, Caller, Call, Direct, Enqueue, Abandon, Receive, Take,
     SkipExpired, Join, Split, Filter, StopRun, Timer, Filtered, ReadBatch,
     ReadBatchFails
<1>2. CASE UNCHANGED envVars
  BY <1>2 DEF EnvType, envVars
<1>3. CASE Environment
  <2>1. version' \in 0..MaxWrites
    BY <1>3, CoalescerAssumption DEF Environment, Stop, Write, Expire, EnvType
  <2>2. expired' \subseteq Requests
    BY <1>3 DEF Environment, Stop, Write, Expire, EnvType
  <2>3. stopped' = TRUE \/ stopped' = stopped
    BY <1>3 DEF Environment, Stop, Write, Expire
  <2>4. stopped' \in BOOLEAN
    BY <2>3, Zenon DEF EnvType
  <2>5. QED BY <2>1, <2>2, <2>4 DEF EnvType
<1>4. QED BY <1>1, <1>2, <1>3

--------------------------------------------------------------------------------
(* The theorems *)

\* A step that changes nothing keeps the invariant.
LEMMA Stutter == ASSUME Inv, UNCHANGED vars PROVE Inv'
<1> USE DEF vars, callVars, batchVars, envVars
<1>1. TypeOK'
  BY TypeParts
     DEF Inv, CallType, RespType, QueueType, BatchType, EnvType
<1>2. StageInv' /\ BooksInv' /\ OwingInv' /\ AskedInv'
  BY DEF Inv, StageInv, BooksInv, OwingInv, AskedInv, Owing
<1>3. ResultInv' /\ AreaInv'
  BY DEF Inv, ResultInv, OwnResult, AreaInv, Members
<1>4. QED BY <1>1, <1>2, <1>3 DEF Inv

\* Every step keeps the invariant.
LEMMA StepInv == Inv /\ [Next]_vars => Inv'
<1> SUFFICES ASSUME Inv, [Next]_vars PROVE Inv'
  OBVIOUS
<1>1. CASE Next
  <2>1. TypeOK'
    BY <1>1, CallTypeStep, RespTypeStep, QueueTypeStep, BatchTypeStep,
       EnvTypeStep, TypeParts DEF Inv
  <2>2. StageInv' /\ BooksInv' /\ OwingInv'
    BY <1>1, StageStep, BooksStep, OwingStep DEF Inv
  <2>3. AskedInv' /\ ResultInv' /\ AreaInv'
    BY <1>1, AskedStep, ResultStep, AreaStep DEF Inv
  <2>4. QED BY <2>1, <2>2, <2>3 DEF Inv
<1>2. QED BY <1>1, Stutter

\* The invariant holds throughout.
LEMMA Invariance == Spec => []Inv
  BY InitInv, StepInv, PTL DEF Spec

\* As the four places are disjoint, so is their concatenation.
LEMMA OwedFacts == ASSUME Inv PROVE Distinct(Owed) /\ In(Owed) = Owing
<1>1. /\ batch \in Seq(Requests) /\ active \in Seq(Requests)
      /\ next \in Seq(Requests) /\ queue \in Seq(Requests)
  BY Parts DEF Inv
<1> DEFINE u == active \o batch
           w == u \o next
<1>2. u \in Seq(Requests) /\ In(u) = In(active) \cup In(batch) /\ Distinct(u)
  BY <1>1, ConcatFacts DEF Inv, BooksInv
<1>3. w \in Seq(Requests) /\ In(w) = In(u) \cup In(next) /\ Distinct(w)
  <2> HIDE DEF u
  <2>1. In(u) \cap In(next) = {} /\ Distinct(next)
    BY <1>2 DEF Inv, BooksInv
  <2>2. QED BY <1>1, <1>2, <2>1, ConcatFacts
<1>4. Distinct(Owed) /\ In(Owed) = Owing
  <2> HIDE DEF w
  <2>1. In(w) \cap In(queue) = {} /\ Distinct(queue)
    BY <1>2, <1>3 DEF Inv, BooksInv
  <2>2. Distinct(w \o queue) /\ In(w \o queue) = Owing
    BY <1>1, <1>2, <1>3, <2>1, ConcatFacts DEF Owing
  <2>3. QED BY <2>2 DEF w, Owed
<1>5. QED BY <1>4

\* The coalescer's variables keep their types; among them, the bounds of a
\* batch are addresses although they are sums of two uint16.
THEOREM TypeCorrect == Spec => []TypeOK
<1>1. Inv => TypeOK
  BY DEF Inv
<1>2. QED BY <1>1, Invariance, PTL

\* No request is owed two results, or one after a result was sent, for any
\* number of requests, however their contexts expire: no send blocks.
THEOREM OneResult == Spec => []AnsweredOnce
<1>1. Inv => AnsweredOnce
  BY OwedFacts DEF Inv, OwingInv, AnsweredOnce, Distinct
<1>2. QED BY <1>1, Invariance, PTL

\* The words of a combined read cover every request of it that does not reach
\* past the last address, for any sizes of requests and of memory.
THEOREM Covered == Spec => []BatchCovered
<1>1. Inv => BatchCovered
  BY SliceFacts DEF Inv, BatchCovered
<1>2. QED BY <1>1, Invariance, PTL

--------------------------------------------------------------------------------
(* No request is forgotten *)

OnBooks(r) == stopped \/ resp[r] # NoAnswer \/ r \in Owing

\* A request leaves the books with a result, or because of Stop.
LEMMA LeavesAnswered ==
  ASSUME Inv, Worker, NEW r \in Requests, r \in Owing, r \notin Owing'
  PROVE  stopped \/ resp'[r] # NoAnswer
<1> USE DEF Inv
<1>1. ASSUME NEW q \in Requests, SkipExpired(q) \/ Filter(q)
      PROVE  resp'[r] # NoAnswer
  <2>1. r = q /\ (Filter(q) => q \in expired)
    BY <1>1, Books
  <2>2. Send([x \in {q} |-> Failed])
    <3>1. {q} \cap expired = {q} \/ ~Filter(q)
      BY <2>1
    <3>2. QED BY <1>1, <3>1 DEF SkipExpired, Filter
  <2>3. QED BY <2>1, <2>2, SendFacts, AnswerTypes
<1>2. CASE ReadBatch \/ ReadBatchFails
  <2>1. r \in In(active) /\ stage = "read" /\ In(active) \in SUBSET Requests
    BY <1>2, Books, Parts DEF ReadBatch, ReadBatchFails, Owing
  <2>2. CASE Send([x \in In(active) |-> Failed])
    <3>1. resp'[r] = Failed
      BY <2>1, <2>2, SendFacts
    <3>2. QED BY <3>1, AnswerTypes
  <2>3. CASE Send([x \in In(active) |-> Slice(read[x])])
    <3>1. resp'[r] = Slice(read[r])
      BY <2>1, <2>3, SendFacts
    <3>2. read[r] \in Reads /\ Slice(read[r]) \in {Failed, Words(read[r], version)}
      BY <2>1, SliceFacts
    <3>3. version \in 0..MaxWrites
      BY DEF TypeOK
    <3>4. QED BY <3>1, <3>2, <3>3, AnswerTypes
  <2>4. QED BY <1>2, <2>2, <2>3 DEF ReadBatch, ReadBatchFails
<1>3. CASE StopRun
  BY <1>3 DEF StopRun
<1>4. CASE Timer \/ Filtered
  BY <1>4, Books
<1>5. ASSUME NEW q \in Requests, Take(q) \/ Join(q) \/ Split(q) PROVE FALSE
  BY <1>5, Books
<1>6. QED
  BY <1>1, <1>2, <1>3, <1>4, <1>5 DEF Worker

WaitInv == \A r \in Requests : pc[r] = "wait" => OnBooks(r)

\* Every step keeps who waits on the books.
LEMMA WaitStep == Inv /\ WaitInv /\ [Next]_vars => WaitInv'
<1> SUFFICES ASSUME Inv, WaitInv, [Next]_vars, NEW r \in Requests,
                    pc'[r] = "wait"
             PROVE  OnBooks(r)'
  BY DEF WaitInv
<1> USE DEF OnBooks, WaitInv
<1>1. CASE Worker
  <2>1. pc'[r] = pc[r] /\ stopped' = stopped
    BY <1>1 DEF Worker, Take, SkipExpired, Join, Split, Filter, StopRun, Timer,
         Filtered, ReadBatch, ReadBatchFails, callVars, envVars
  <2>2. CASE resp[r] # NoAnswer
    <3>1. r \notin Owing
      BY <2>2 DEF Inv, OwingInv
    <3>2. resp'[r] = resp[r]
      BY <1>1, <3>1, Sent DEF Inv
    <3>3. QED BY <2>2, <3>2
  <2>3. CASE r \in Owing
    BY <1>1, <2>1, <2>3, LeavesAnswered
  <2>4. QED BY <2>1, <2>2, <2>3
<1>2. ASSUME NEW c \in Requests, Caller(c) PROVE OnBooks(r)'
  <2>1. CASE Enqueue(c)
    <3>1. Owing' = Owing \cup {c}
      BY <2>1, Books DEF Inv
    <3>2. /\ UNCHANGED <<resp, stopped>>
          /\ r # c => pc'[r] = pc[r]
      BY <2>1 DEF Enqueue, envVars, Goto, Inv, TypeOK
    <3>3. QED BY <3>1, <3>2
  <2>2. CASE ~Enqueue(c)
    <3>1. r # c /\ pc'[r] = pc[r]
      BY <1>2, <2>2 DEF Caller, Call, Direct, Abandon, Receive, Return,
                        Goto, Inv, TypeOK
    <3>2. resp'[r] = resp[r] /\ stopped' = stopped
      BY <1>2, <2>2, <3>1 DEF Caller, Call, Direct, Abandon, Receive, envVars,
                        Inv, TypeOK
    <3>3. Owing' = Owing
      BY <1>2, <2>2, SameBooks DEF Caller, Call, Direct, Abandon, Receive
    <3>4. QED BY <3>1, <3>2, <3>3
  <2>3. QED BY <2>1, <2>2
<1>3. CASE Environment
  <2>1. /\ UNCHANGED <<pc, resp>> /\ Owing' = Owing /\ (stopped => stopped')
    BY <1>3, SameBooks DEF Environment, Stop, Write, Expire, callVars
  <2>2. QED BY <2>1
<1>4. CASE UNCHANGED vars
  <2>1. Owing' = Owing /\ UNCHANGED <<pc, resp, stopped>>
    BY <1>4, SameBooks DEF vars, callVars, envVars
  <2>2. QED BY <2>1
<1>5. QED BY <1>1, <1>2, <1>3, <1>4 DEF Next

\* Until Stop, a call that waits has its result or is on the books, for any
\* number of requests and wherever contexts expire: it is answered in the end.
THEOREM Remembered == Spec => []NoneForgotten
<1>1. Init => WaitInv
  BY DEF Init, WaitInv
<1>2. Inv /\ WaitInv => NoneForgotten
  <2> SUFFICES ASSUME Inv, WaitInv, NEW r \in Owing PROVE r \in In(Owed)
    BY DEF NoneForgotten, WaitInv, OnBooks
  <2>1. In(Owed) = Owing
    BY OwedFacts
  <2>2. QED BY <2>1
<1>3. QED BY <1>1, <1>2, WaitStep, Invariance, PTL DEF Spec

--------------------------------------------------------------------------------
(* The size of a combined read *)

SpanInv == stage \in {"batch", "flush", "read"} => Span \in 1..MaxSpan

\* A batch that begins spans its only request.
LEMMA FirstSpan ==
  ASSUME Inv, NEW r \in Owing, StartBatch(r)
  PROVE  SpanInv'
<1>1. read[r] \in Reads /\ read[r].count \in 1..MaxSpan
  BY Parts DEF Inv, OwingInv, AskedInv
<1>2. Minus(End(read[r]), read[r].address) = read[r].count
  BY <1>1, AddressFacts
<1>3. QED BY <1>1, <1>2 DEF StartBatch, SpanInv, Span

\* A request that fits leaves a span that is neither empty nor too large: if the
\* batch's end wrapped, no other end can reach up to its start.
LEMMA JoinSpan ==
  ASSUME 2 * MaxSpan <= Space, Inv, SpanInv, NEW r \in Requests, Join(r)
  PROVE  SpanInv'
<1> DEFINE q == read[r]
<1>1. /\ stage = "batch" /\ NextRequest(r) /\ Fits(q)
      /\ minAddr' = NewMin(q) /\ maxEnd' = NewEnd(q)
  BY DEF Join
<1>2. q \in Reads /\ q.count \in 1..MaxSpan
  BY <1>1, NextRequestFacts DEF Inv, Owing, OwingInv, AskedInv
<1>3. minAddr \in Addresses /\ maxEnd \in Addresses /\ Span \in 1..MaxSpan
  BY <1>1 DEF Inv, TypeOK, SpanInv
<1> HIDE DEF q
<1>4. q.address \in Addresses /\ End(q) = Plus(q.address, q.count)
  BY <1>2, AddressFacts DEF End
<1>5. /\ NewMin(q) \in Addresses /\ NewEnd(q) \in Addresses
      /\ NewMin(q) \in {minAddr, q.address} /\ NewEnd(q) \in {maxEnd, End(q)}
      /\ NewMin(q) <= minAddr /\ NewMin(q) <= q.address
      /\ maxEnd <= NewEnd(q) /\ End(q) <= NewEnd(q)
  <2>1. End(q) \in Addresses
    BY <1>2, AddressFacts
  <2>2. QED
    BY <1>2, <1>3, <1>4, <2>1, BoundFacts
       DEF NewMin, NewEnd, Least, Greatest
<1>6. NewEnd(q) >= NewMin(q) /\ NewEnd(q) - NewMin(q) <= MaxSpan
  BY <1>1 DEF Fits, InSpan, q
<1>7. NewEnd(q) # NewMin(q)
  <2>1. CASE maxEnd > minAddr
    BY <1>3, <1>5, <2>1, CoalescerAssumption DEF Addresses
  <2>2. CASE q.address + q.count < Space
    BY <1>2, <1>3, <1>4, <1>5, <2>2, CoalescerAssumption DEF Addresses, Plus
  <2>3. CASE maxEnd <= minAddr /\ q.address + q.count >= Space
    <3>1. minAddr >= Space - MaxSpan /\ maxEnd < MaxSpan
      BY <1>3, <2>3, CoalescerAssumption DEF Addresses, Span, Minus
    <3>2. q.address >= Space - MaxSpan /\ End(q) < MaxSpan
      BY <1>2, <1>4, <2>3, CoalescerAssumption DEF Addresses, Plus
    <3>3. NewEnd(q) < MaxSpan /\ NewMin(q) >= Space - MaxSpan
      BY <1>5, <3>1, <3>2
    <3>4. QED
      BY <1>5, <3>3, CoalescerAssumption DEF Addresses
  <2>4. QED
    BY <1>2, <1>3, <1>4, <2>1, <2>2, <2>3, CoalescerAssumption DEF Addresses
<1>8. Minus(NewEnd(q), NewMin(q)) \in 1..MaxSpan
  BY <1>5, <1>6, <1>7, CoalescerAssumption DEF Addresses, Minus
<1>9. QED BY <1>1, <1>8 DEF SpanInv, Span, q

\* Every step keeps the span of the batch within maxSpan.
LEMMA SpanStep ==
  ASSUME 2 * MaxSpan <= Space, Inv, SpanInv, [Next]_vars
  PROVE  SpanInv'
<1>1. CASE UNCHANGED <<minAddr, maxEnd>>
           /\ (stage' \in {"batch", "flush", "read"}
                 => stage \in {"batch", "flush", "read"})
  BY <1>1 DEF SpanInv, Span
<1>2. CASE Continue
  <2>1. CASE next = <<>>
    BY <1>2, <2>1 DEF Continue, Idle, SpanInv
  <2>2. CASE next # <<>>
    BY <1>2, <2>2, FirstSpan, Parts DEF Continue, Owing, Inv
  <2>3. QED BY <2>1, <2>2
<1>3. ASSUME NEW r \in Requests, Take(r) PROVE SpanInv'
  BY <1>3, FirstSpan, NextRequestFacts DEF Take, Owing, Inv
<1>4. ASSUME NEW r \in Requests, Join(r) PROVE SpanInv'
  BY <1>4, JoinSpan
<1>5. ASSUME NEW r \in Requests, SkipExpired(r) \/ Split(r) \/ Filter(r)
      PROVE  SpanInv'
  BY <1>1, <1>5 DEF SkipExpired, Split, Filter, Flush, batchVars
<1>6. CASE StopRun
  BY <1>6 DEF StopRun, Idle, SpanInv
<1>7. CASE Timer
  BY <1>1, <1>7 DEF Timer, Flush
<1>8. CASE Filtered
  BY <1>1, <1>2, <1>8 DEF Filtered
<1>9. CASE ReadBatch \/ ReadBatchFails
  BY <1>2, <1>9 DEF ReadBatch, ReadBatchFails
<1>10. CASE UNCHANGED batchVars
  BY <1>1, <1>10 DEF batchVars
<1>11. QED
  BY <1>3, <1>4, <1>5, <1>6, <1>7, <1>8, <1>9, <1>10, OthersKeepBatch
     DEF Next, Worker, vars

\* A combined read is of 1 to maxSpan words although the bounds of a batch wrap
\* at the last address, if maxSpan is at most half of the addresses.  Without
\* that, two long requests that both wrap can join to a read of no words.
THEOREM SpanBounded ==
  ASSUME 2 * MaxSpan <= Space
  PROVE  Spec => []ReadWithinSpan
<1>1. Init => SpanInv
  BY DEF Init, SpanInv
<1>2. Inv /\ SpanInv /\ [Next]_vars => SpanInv'
  BY SpanStep
<1>3. SpanInv => ReadWithinSpan
  BY DEF SpanInv, ReadWithinSpan
<1>4. QED BY <1>1, <1>2, <1>3, Invariance, PTL DEF Spec

--------------------------------------------------------------------------------
(* Batching is invisible *)

\* Initial states are initial states of WordReads.
LEMMA AbstractInit == Init => Abstract!ReadsInit
  BY DEF Init, Abstract!ReadsInit, State, NoAnswer, Nothing,
         Abstract!NoAnswer, Abstract!Nothing

\* A call that returns what it may return.
LEMMA ReturnIsAnswer ==
  ASSUME Inv, NEW c \in Requests, NEW from \in {"direct", "send", "wait"},
         NEW a, Return(c, from, a), UNCHANGED version,
         a = Failed \/ \E v \in since[c]..version : a = Words(read[c], v)
  PROVE  Abstract!Answer(c) \/ Abstract!Fail(c)
<1>1. /\ pc[c] = from /\ pc' = [pc EXCEPT ![c] = "returned"]
      /\ answer' = [answer EXCEPT ![c] = a]
      /\ since' = [since EXCEPT ![c] = 0] /\ UNCHANGED <<read, version>>
  BY DEF Return, Goto
<1>2. pc \in [Requests -> {"idle", "direct", "send", "wait", "returned"}]
  BY DEF Inv, TypeOK
<1>3. State[c] = "asked" /\ State' = [State EXCEPT ![c] = "done"]
  BY <1>1, <1>2 DEF State
<1>4. CASE a = Failed
  BY <1>1, <1>3, <1>4 DEF Abstract!Fail, Abstract!Move, Failed, Nothing,
                          Abstract!Failed, Abstract!Nothing
<1>5. CASE \E v \in since[c]..version : a = Words(read[c], v)
  BY <1>1, <1>3, <1>5 DEF Abstract!Answer, Abstract!Move, Words, Abstract!Words
<1>6. QED BY <1>4, <1>5

\* Every step is one of WordReads or changes nothing it sees.
LEMMA AbstractStep ==
  ASSUME Inv, [Next]_vars
  PROVE  [Abstract!ReadsNext]_(Abstract!readVars)
<1> USE DEF Abstract!ReadsNext
<1>1. pc \in [Requests -> {"idle", "direct", "send", "wait", "returned"}]
  BY DEF Inv, TypeOK
<1>2. ASSUME UNCHANGED <<pc, read, since, answer, version>>
      PROVE  UNCHANGED Abstract!readVars
  BY <1>2 DEF Abstract!readVars, State
<1>3. CASE Worker \/ UNCHANGED vars
  BY <1>2, <1>3 DEF Worker, Take, SkipExpired, Join, Split, Filter, StopRun,
       Timer, Filtered, ReadBatch, ReadBatchFails, callVars, envVars, vars
<1>4. CASE Write
  <2>1. /\ version < MaxWrites /\ version' = version + 1
        /\ UNCHANGED <<pc, read, since, answer>>
    BY <1>4 DEF Write, callVars
  <2>2. State' = State
    BY <2>1 DEF State
  <2>3. Abstract!Write
    BY <2>1, <2>2 DEF Abstract!Write
  <2>4. QED BY <2>3
<1>5. CASE Stop \/ \E r \in Requests : Expire(r)
  BY <1>2, <1>5 DEF Stop, Expire, callVars
<1>6. ASSUME NEW c \in Requests, Caller(c)
      PROVE  [Abstract!ReadsNext]_(Abstract!readVars)
  <2>1. UNCHANGED version
    BY <1>6 DEF Caller, Call, Direct, Enqueue, Abandon, Receive, envVars
  <2>2. version \in 0..MaxWrites /\ since[c] \in 0..MaxWrites
        /\ since[c] <= version /\ OwnResult(c)
    BY DEF Inv, TypeOK, ResultInv, OwnResult
  <2>3. CASE Call(c)
    <3>1. PICK q \in Reads :
            /\ pc[c] = "idle"
            /\ pc' = [pc EXCEPT ![c] = IF Bypassed(q) THEN "direct" ELSE "send"]
            /\ read' = [read EXCEPT ![c] = q]
      BY <2>3 DEF Call, Goto
    <3>2. since' = [since EXCEPT ![c] = version] /\ UNCHANGED answer
      BY <2>3 DEF Call
    <3>3. State[c] = "idle" /\ State' = [State EXCEPT ![c] = "asked"]
      BY <1>1, <3>1 DEF State
    <3>4. Abstract!Ask(c)
      BY <2>1, <3>1, <3>2, <3>3 DEF Abstract!Ask, Abstract!Move
    <3>5. QED BY <3>4
  <2>4. CASE Enqueue(c)
    <3>1. State' = State
      BY <1>1, <2>4 DEF Enqueue, Goto, State
    <3>2. QED BY <2>1, <2>4, <3>1 DEF Enqueue, Abstract!readVars
  <2>5. CASE Direct(c)
    <3>1. version \in since[c]..version
      BY <2>2, CoalescerAssumption
    <3>2. PICK a \in {Failed, Words(read[c], version)} : Return(c, "direct", a)
      BY <2>5 DEF Direct
    <3>3. QED BY <2>1, <3>1, <3>2, ReturnIsAnswer
  <2>6. CASE Abandon(c)
    BY <2>1, <2>6, ReturnIsAnswer DEF Abandon
  <2>7. CASE Receive(c)
    <3>1. Return(c, "wait", resp[c]) /\ resp[c] # NoAnswer /\ pc[c] = "wait"
      BY <2>7 DEF Receive, Return, Goto
    <3>2. \/ resp[c] = Failed
          \/ \E v \in since[c]..version : resp[c] = Words(read[c], v)
      BY <2>2, <3>1, CoalescerAssumption DEF OwnResult
    <3>3. QED BY <2>1, <3>1, <3>2, ReturnIsAnswer
  <2>8. QED BY <1>6, <2>3, <2>4, <2>5, <2>6, <2>7 DEF Caller
<1>7. QED BY <1>3, <1>4, <1>5, <1>6 DEF Next, Environment

\* The coalescer implements WordReads for any number of calls, areas, addresses
\* and batch limits: a call returns an error or its own words, none older than
\* the call, whatever was batched with it and whoever gave up meanwhile.
THEOREM CoalescerImplementsWordReads == Spec => ImplementsWordReads
<1>1. Spec => [][Abstract!ReadsNext]_(Abstract!readVars)
  BY AbstractStep, Invariance, PTL DEF Spec
<1>2. QED
  BY <1>1, AbstractInit, PTL DEF Spec, ImplementsWordReads, Abstract!ReadsSpec
================================================================================
