------------------------------- MODULE Coalescer -------------------------------
(***************************************************************************)
(* BulkReadCoalescer (plugin_coalescer.go): its interceptor, run by the      *)
(* goroutine of each ReadWords call, and its own goroutine, which collects   *)
(* requests for a window of time and answers a batch with one read.          *)
(*                                                                          *)
(* Addresses are uint16: arithmetic is modulo Space.  The PLC's memory is a  *)
(* version; words that were read are named by the request that would read    *)
(* just them and by the version of the memory they were read from.          *)
(***************************************************************************)
EXTENDS Integers, Sequences

CONSTANTS
  Requests,     \* calls of ReadWords, each in a goroutine of its own
  Areas,        \* memory areas, by their codes
  Reads,        \* what a call may ask for
  Space,        \* number of addresses: 2^16 in the code
  MaxSpan,      \* maxSpan: words of a batch, and of a request that is batched
  MaxBatch,     \* maxBatch: requests of a batch, 0 = unlimited
  QueueCap,     \* capacity of the channel of requests: 128 in the code
  Deadlined,    \* calls whose context has a deadline
  Cancellable,  \* calls whose context may be cancelled
  ReadFails,    \* the read of a batch may fail
  MaxWrites     \* bound: changes of the PLC's memory

ASSUME CoalescerAssumption ==
  /\ Space \in Nat /\ MaxSpan \in 1..(Space - 1) /\ MaxBatch \in Nat
  /\ QueueCap \in Nat \ {0} /\ MaxWrites \in Nat /\ ReadFails \in BOOLEAN
  /\ Areas \subseteq Nat
  /\ Reads \subseteq
       [area : Areas, address : 0..(Space - 1), count : 0..(Space - 1)]

VARIABLES
  version,         \* version of the PLC's memory
  pc, read, since, answer,   \* call r: stage, request, version at its call, result
  expired,         \* calls whose context is done
  queue,           \* the channel requests
  resp,            \* resp[r]: what the channel of r (buffer of one) holds
  stopped,         \* stop is closed
  stage,           \* stage of the coalescer's goroutine
  batch, minAddr, maxEnd,    \* locals of processBatch
  active,          \* local of flushBatch: requests of the batch that it kept
  next             \* the request the next batch starts with, if there is one

callVars  == <<pc, read, since, answer>>
batchVars == <<stage, batch, minAddr, maxEnd, active, next>>
envVars   == <<version, expired, stopped>>
vars      == <<callVars, resp, batchVars, envVars, queue>>

Addresses == 0..(Space - 1)
Nothing   == [area |-> 0, address |-> 0, count |-> 0]
NoAnswer  == [status |-> "none", read |-> Nothing, version |-> 0]
Failed    == [status |-> "failed", read |-> Nothing, version |-> 0]
Words(q, v) == [status |-> "words", read |-> q, version |-> v]

\* uint16 arithmetic.
PlusWide(a, b) == a + b                                    \* faulty: wider
Plus(a, b)  == IF a + b >= Space THEN a + b - Space ELSE a + b
Minus(a, b) == IF a >= b THEN a - b ELSE a - b + Space
Least(a, b)    == IF a < b THEN a ELSE b
Greatest(a, b) == IF a > b THEN a ELSE b

EndInclusive(q) == Plus(q.address, q.count - 1)   \* faulty: the last word
End(q) == Plus(q.address, q.count)
In(s)  == {s[i] : i \in 1..Len(s)}

Init ==
  /\ version = 0 /\ expired = {} /\ stopped = FALSE
  /\ pc     = [r \in Requests |-> "idle"]
  /\ read   = [r \in Requests |-> Nothing]
  /\ since  = [r \in Requests |-> 0]
  /\ answer = [r \in Requests |-> NoAnswer]
  /\ resp   = [r \in Requests |-> NoAnswer]
  /\ queue = <<>> /\ batch = <<>> /\ active = <<>> /\ next = <<>>
  /\ stage = "run" /\ minAddr = 0 /\ maxEnd = 0

--------------------------------------------------------------------------------
(* A call: Interceptor *)

Goto(r, from, to) == pc[r] = from /\ pc' = [pc EXCEPT ![r] = to]

Return(r, from, result) ==
  /\ Goto(r, from, "returned")
  /\ answer' = [answer EXCEPT ![r] = result]
  /\ since' = [since EXCEPT ![r] = 0]
  /\ UNCHANGED read

BypassedLate(q) == q.count = 0 \/ q.count > MaxSpan + 1      \* faulty: off by one
Bypassed(q) == q.count = 0 \/ q.count > MaxSpan

Call(r) ==
  /\ \E q \in Reads :
       /\ Goto(r, "idle", IF Bypassed(q) THEN "direct" ELSE "send")
       /\ read' = [read EXCEPT ![r] = q]
  /\ since' = [since EXCEPT ![r] = version]
  /\ UNCHANGED <<answer, resp, batchVars, envVars, queue>>

\* ic.Invoke of a request that is not batched.
Direct(r) ==
  /\ \/ Return(r, "direct", Words(read[r], version))
     \/ (ReadFails \/ r \in expired) /\ Return(r, "direct", Failed)
  /\ UNCHANGED <<resp, batchVars, envVars, queue>>

Enqueue(r) ==
  /\ Goto(r, "send", "wait")
  /\ Len(queue) < QueueCap
  /\ queue' = Append(queue, r)
  /\ UNCHANGED <<read, since, answer, resp, batchVars, envVars>>

\* ctx.Done or stop, while sending the request or waiting for its result.
Abandon(r) ==
  /\ r \in expired \/ stopped
  /\ Return(r, "send", Failed) \/ Return(r, "wait", Failed)
  /\ UNCHANGED <<resp, batchVars, envVars, queue>>

Receive(r) ==
  /\ resp[r] # NoAnswer
  /\ Return(r, "wait", resp[r])
  /\ resp' = [resp EXCEPT ![r] = NoAnswer]
  /\ UNCHANGED <<batchVars, envVars, queue>>

--------------------------------------------------------------------------------
(* The coalescer's goroutine: run, processBatch, flushBatch *)

\* A result for each request in the domain; the send blocks on a full channel.
Send(result) ==
  /\ \A r \in DOMAIN result : resp[r] = NoAnswer
  /\ resp' = [r \in Requests |->
                IF r \in DOMAIN result THEN result[r] ELSE resp[r]]

Idle ==
  /\ stage' = "run" /\ batch' = <<>> /\ active' = <<>> /\ next' = <<>>
  /\ minAddr' = 0 /\ maxEnd' = 0

StartBatch(r) ==
  /\ stage' = "batch" /\ batch' = <<r>> /\ active' = <<>> /\ next' = <<>>
  /\ minAddr' = read[r].address /\ maxEnd' = End(read[r])

\* flushBatch is called; after it the batch of r is begun, if there is an r.
Flush(after) ==
  /\ stage' = "flush" /\ next' = after
  /\ UNCHANGED <<batch, active, minAddr, maxEnd>>

NextRequest(r) == queue # <<>> /\ r = Head(queue) /\ queue' = Tail(queue)

Take(r) ==
  /\ stage = "run"
  /\ NextRequest(r)
  /\ StartBatch(r)
  /\ UNCHANGED <<callVars, resp, envVars>>

\* stop ends run, or drops the batch and returns to run.
StopRun ==
  /\ stopped
  /\ \/ stage = "run" /\ stage' = "gone"
        /\ UNCHANGED <<batch, active, minAddr, maxEnd, next>>
     \/ stage = "batch" /\ Idle
  /\ UNCHANGED <<callVars, resp, envVars, queue>>

Timer ==
  /\ stage = "batch"
  /\ Flush(<<>>)
  /\ UNCHANGED <<callVars, resp, envVars, queue>>

\* A request whose context is done is answered and not batched.
SkipExpired(r) ==
  /\ stage = "batch"
  /\ NextRequest(r)
  /\ r \in expired
  /\ Send([x \in {r} |-> Failed])
  /\ UNCHANGED <<callVars, batchVars, envVars>>

Full == MaxBatch > 0 /\ Len(batch) >= MaxBatch

NewMin(q) == Least(minAddr, q.address)
NewEnd(q) == Greatest(maxEnd, End(q))

InSpan(q)  == NewEnd(q) - NewMin(q) <= MaxSpan
FitsAnyArea(q) == NewEnd(q) >= NewMin(q) /\ InSpan(q)   \* faulty: any area
\* The uint32 difference is huge when the end wrapped below the start.
Fits(q) == /\ q.area = read[batch[1]].area
           /\ NewEnd(q) >= NewMin(q) /\ InSpan(q)

Join(r) ==
  LET q == read[r] IN
  /\ stage = "batch"
  /\ NextRequest(r)
  /\ r \notin expired /\ ~Full /\ Fits(q)
  /\ batch' = Append(batch, r)
  /\ minAddr' = NewMin(q) /\ maxEnd' = NewEnd(q)
  /\ stage' = IF NewEnd(q) - NewMin(q) >= MaxSpan THEN "flush" ELSE "batch"
  /\ UNCHANGED <<active, next, callVars, resp, envVars>>

\* Faulty: the request that did not fit is lost.
SplitLoses(r) ==
  /\ stage = "batch"
  /\ NextRequest(r)
  /\ r \notin expired /\ (Full \/ ~Fits(read[r]))
  /\ Flush(<<>>)
  /\ UNCHANGED <<callVars, resp, envVars>>

\* A request that does not fit: the batch is flushed and r starts another.
Split(r) ==
  /\ stage = "batch"
  /\ NextRequest(r)
  /\ r \notin expired /\ (Full \/ ~Fits(read[r]))
  /\ Flush(<<r>>)
  /\ UNCHANGED <<callVars, resp, envVars>>

\* After flushBatch: processBatch returns, or begins the next batch.
Continue == IF next = <<>> THEN Idle ELSE StartBatch(next[1])

KeepsExpired(r) == Append(active, r)       \* faulty: answered, and still read
Kept(r) == IF r \in expired THEN active ELSE Append(active, r)

\* The first request left of the batch is kept, or answered if its context is
\* done; other contexts may expire before their turn.
Filter(r) ==
  /\ stage = "flush"
  /\ batch # <<>> /\ r = Head(batch) /\ batch' = Tail(batch)
  /\ Send([x \in {r} \cap expired |-> Failed])
  /\ active' = Kept(r)
  /\ UNCHANGED <<stage, minAddr, maxEnd, next, callVars, envVars, queue>>

\* All are filtered: nothing to read, or the read begins.
Filtered ==
  /\ stage = "flush" /\ batch = <<>>
  /\ IF active = <<>>
       THEN Continue
       ELSE stage' = "read" /\ UNCHANGED <<batch, active, minAddr, maxEnd, next>>
  /\ UNCHANGED <<callVars, resp, envVars, queue>>

Span == Minus(maxEnd, minAddr)

\* The words of q in the batch's data, which starts at minAddr.
Slice(q) ==
  LET start == Minus(q.address, minAddr) IN
  IF start + q.count > Span THEN Failed
  ELSE Words([area |-> read[active[1]].area, address |-> Plus(minAddr, start),
              count |-> q.count], version)

ReadBatch ==
  /\ stage = "read"
  /\ Send([r \in In(active) |-> Slice(read[r])])
  /\ Continue
  /\ UNCHANGED <<callVars, envVars, queue>>

\* The read fails, or the earliest deadline in the batch passes.
ReadBatchFails ==
  /\ stage = "read"
  /\ ReadFails \/ In(active) \cap Deadlined \cap expired # {}
  /\ Send([r \in In(active) |-> Failed])
  /\ Continue
  /\ UNCHANGED <<callVars, envVars, queue>>

--------------------------------------------------------------------------------
(* The environment *)

Stop == /\ ~stopped /\ stopped' = TRUE
        /\ UNCHANGED <<version, expired, callVars, resp, batchVars, queue>>

\* Call does not look at the context, and nobody does after the return.
Expire(r) ==
  /\ pc[r] \notin {"idle", "returned"}
  /\ r \in (Deadlined \cup Cancellable) \ expired
  /\ expired' = expired \cup {r}
  /\ UNCHANGED <<version, stopped, callVars, resp, batchVars, queue>>

Write ==
  /\ version < MaxWrites
  /\ version' = version + 1
  /\ UNCHANGED <<expired, stopped, callVars, resp, batchVars, queue>>

--------------------------------------------------------------------------------
Caller(r) ==
  Call(r) \/ Direct(r) \/ Enqueue(r) \/ Abandon(r) \/ Receive(r)

Worker ==
  \/ \E r \in Requests : \/ Take(r) \/ SkipExpired(r) \/ Join(r) \/ Split(r)
                         \/ Filter(r)
  \/ StopRun \/ Timer \/ Filtered \/ ReadBatch \/ ReadBatchFails

Environment == Stop \/ Write \/ \E r \in Requests : Expire(r)

Next == Worker \/ Environment \/ \E r \in Requests : Caller(r)

Spec == Init /\ [][Next]_vars

--------------------------------------------------------------------------------
(* Correctness *)

Answers == [status : {"none", "failed", "words"}, read : Reads \cup {Nothing},
            version : 0..MaxWrites]

TypeOK ==
  /\ version \in 0..MaxWrites /\ expired \subseteq Requests
  /\ stopped \in BOOLEAN
  /\ pc \in [Requests -> {"idle", "direct", "send", "wait", "returned"}]
  /\ read \in [Requests -> Reads \cup {Nothing}]
  /\ since \in [Requests -> 0..MaxWrites]
  /\ answer \in [Requests -> Answers] /\ resp \in [Requests -> Answers]
  /\ queue \in Seq(Requests) /\ Len(queue) <= QueueCap
  /\ stage \in {"run", "batch", "flush", "read", "gone"}
  /\ batch \in Seq(Requests) /\ active \in Seq(Requests)
  /\ next \in Seq(Requests) /\ Len(next) <= 1
  /\ minAddr \in Addresses /\ maxEnd \in Addresses

\* The requests the coalescer still owes a result, in order.
Owed == active \o batch \o next \o queue

\* However requests expire between the queue, the batch and the read, none is
\* owed a result twice, or after one was sent: the second send on its channel
\* could block the coalescer, and every later read, for ever.
AnsweredOnce ==
  /\ \A i, j \in 1..Len(Owed) : Owed[i] = Owed[j] => i = j
  /\ \A r \in In(Owed) : resp[r] = NoAnswer /\ pc[r] \in {"wait", "returned"}

\* The combined read asks for something and for no more than maxSpan words,
\* also where a request reaches past the last address and its end wraps.
ReadWithinSpan == stage = "read" => Span \in 1..MaxSpan

\* A combined read that succeeds has the words of every request in it: the error
\* "coalesced read response too short" is left to batches with a request that
\* reaches the last address, whose end wraps to 0 and is lost to the others.
BatchCovered ==
  stage = "read"
    /\ (\A r \in In(active) : read[r].address + read[r].count < Space)
  => \A r \in In(active) : Slice(read[r]) # Failed

\* A call that waits is on the coalescer's books, also across the end of a batch
\* and while its own or another context expires: its result has been sent, or it
\* is queued, in the batch, or the one the next batch starts with.
NoneForgotten ==
  \A r \in Requests :
    pc[r] = "wait" => stopped \/ resp[r] # NoAnswer \/ r \in In(Owed)

State == [r \in Requests |-> IF pc[r] = "idle" THEN "idle"
                             ELSE IF pc[r] = "returned" THEN "done" ELSE "asked"]

Abstract == INSTANCE WordReads WITH state <- State

\* Batching is invisible: every answer is an error or the caller's own words,
\* read between its call and its return.
ImplementsWordReads == Abstract!ReadsSpec
================================================================================
