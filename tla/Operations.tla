-------------------------------- MODULE Operations --------------------------------
(***************************************************************************)
(* The operations of the clients, from the interceptors to the simulator's   *)
(* memory and back: those of Client over UDP or TCP (client.go) and those of *)
(* InlineClient (inline_client.go), one call of each caller.                 *)
(*                                                                          *)
(* A call is [name, area, addr, bit, n, v]: a read of n items, or a write of *)
(* n items whose bytes are v.  ToggleBit has two phases.  A connection is     *)
(* up, the service ids are apart (Connection and Dispatch say when): the      *)
(* network may delay or lose requests and answers, which is a timeout here.   *)
(***************************************************************************)
EXTENDS Memory, Interceptors, Codec, FiniteSets

CONSTANTS
  Callers, Calls, Kinds, Chains,  \* what each caller may call, be, and install
  ClientWordAreas, ClientBitAreas,  \* checkIsWordMemoryArea, checkIsBitMemoryArea
  AreaCode,    \* the byte that stands for an area
  UdpRoom,     \* payload bytes that fit the simulator's receive buffer
  ReadRoom     \* data bytes that fit the client's

Reads     == {"ReadWords", "ReadBytes", "ReadBits"}
Twiddles  == {"SetBit", "ResetBit", "ToggleBit"}
BitCalls  == Twiddles \cup {"ReadBits", "WriteBits"}
\* What Client does without its interceptor.
Bare      == Twiddles \cup {"WriteString", "WriteBytes"}

\* The number of a read's items is a uint16, that of a bit a byte.
AllCalls ==
  {w \in [name : Reads \cup WriteOps, area : DOMAIN AreaCode, addr : 0..(Wrap - 1),
          bit : Byte, n : Nat, v : Nat \ {Junk}] :
     (w.name \in Reads => w.n < Wrap) /\ (w.name \notin BitCalls => w.bit = 0)}

ASSUME OperationsAssumption ==
  /\ Width = Wrap /\ Wrap <= 65536 /\ {UdpRoom, ReadRoom} \subseteq Nat /\ ReadRoom > 0
  /\ ClientWordAreas \subseteq WordAreas /\ ClientBitAreas \subseteq BitAreas
  /\ AreaCode \in [DOMAIN AreaCode -> Byte]
  /\ \A c \in Callers : \A w \in Calls[c] : w \in AllCalls
  /\ \A c \in Callers : \A s \in Chains[c] :
       /\ s \in Seq(Names)
       /\ \A i, j \in DOMAIN s : s[i] = s[j] \/ {s[i], s[j]} \subseteq Retriers => i = j

VARIABLES
  kind, chain, call,  \* of each caller: its client and interceptors, its call
  st, phase, left, try,   \* stage, 2 when a toggle writes, retries left, attempts
  bit,                \* what the first phase of a toggle read
  counts,             \* what a metrics collector in the chain has counted
  live,               \* its context has not expired
  net, ans, out,      \* requests under way, answer to the last one, result
  mem, up, closed,    \* the simulator: memory, its process runs, Close was called
  did, killer,        \* history: requests executed, the one the simulator died of
  gaveUp,             \* history: an attempt was given up
  touched             \* history: another wrote the toggle's bit since it was read

callVars == <<kind, chain, call>>
tryVars  == <<st, phase, left, try, bit, counts, out>>
simVars  == <<mem, up, did, killer, touched>>
vars == <<callVars, tryVars, live, net, ans, simVars, closed, gaveUp>>

NoAnswer == [verdict |-> "none"]

Init ==
  /\ kind \in [Callers -> {"udp", "tcp", "inline"}]
  /\ \A c \in Callers : kind[c] \in Kinds[c]
  /\ \E f \in [Callers -> UNION {Chains[c] : c \in Callers}] :
       chain = f /\ \A c \in Callers : f[c] \in Chains[c]
  /\ \E f \in [Callers -> UNION {Calls[c] : c \in Callers}] :
       call = f /\ \A c \in Callers : f[c] \in Calls[c]
  /\ st = [c \in Callers |-> "idle"] /\ phase = [c \in Callers |-> 1]
  /\ left = [c \in Callers |-> 0] /\ try = [c \in Callers |-> 0]
  /\ bit = [c \in Callers |-> 0] /\ out = [c \in Callers |-> "none"]
  /\ counts = [c \in Callers |-> NoCounts]
  /\ live = [c \in Callers |-> TRUE] /\ gaveUp = [c \in Callers |-> FALSE]
  /\ net = {} /\ ans = [c \in Callers |-> NoAnswer]
  /\ mem = Blank /\ up = TRUE /\ closed = FALSE
  /\ did = [c \in Callers |-> {}] /\ killer = [from |-> "none"]
  /\ touched = [c \in Callers |-> FALSE]

--------------------------------------------------------------------------------
(* From a call to requests *)

Toggling(c) == call[c].name = "ToggleBit" /\ phase[c] = 1
Name(c)     == IF Toggling(c) THEN "ReadBits" ELSE call[c].name
Intercepted(c) == kind[c] = "inline" \/ Name(c) \notin Bare
ItsChain(c) == IF Intercepted(c) THEN chain[c] ELSE <<>>
Info(c) ==
  [name |-> Name(c), area |-> call[c].area, addr |-> call[c].addr,
   count |-> IF Toggling(c) THEN 1 ELSE IF Name(c) \in Reads THEN call[c].n ELSE 0,
   len |-> IF Name(c) \in Reads THEN 0 ELSE call[c].n]

Repeat(v, n) == [i \in 1..n |-> v]

\* Faulty: the last byte of a string of odd length is not counted.
CountShort(c) == CASE Name(c) \in Twiddles     -> 1
                   [] Toggling(c)              -> 1
                   [] Name(c) = "WriteString"  -> (call[c].n \div 2) % Wrap
                   [] OTHER                    -> call[c].n % Wrap

\* uint16(len(data)), and the bytes made for it.
Count(c) == CASE Name(c) \in Twiddles     -> 1
              [] Toggling(c)              -> 1
              [] Name(c) = "WriteString"  -> ((call[c].n + 1) \div 2) % Wrap
              [] OTHER                    -> call[c].n % Wrap
Payload(c) ==
  LET w == call[c] IN
  CASE Name(c) \in Reads        -> <<>>
    [] Name(c) = "SetBit"       -> <<1>>
    [] Name(c) = "ResetBit"     -> <<0>>
    [] Name(c) = "ToggleBit"    -> <<1 - bit[c]>>
    [] Name(c) = "WriteWords"   -> Repeat(w.v, (2 * Count(c)) % Wrap)
    [] Name(c) = "WriteString"  -> Repeat(w.v, w.n) \o Repeat(0, w.n)
    [] Name(c) = "WriteBytes"   -> Repeat(w.v, w.n)
    [] Name(c) = "WriteBits"    -> Repeat(w.v, Count(c))

\* A datagram is cut to the receive buffer, a FINS/TCP message is read whole; the
\* inline client hands over as many bytes as there are.
Request(c) ==
  LET bytes == Payload(c)
      cut   == IF kind[c] = "udp" /\ Len(bytes) > UdpRoom
               THEN SubSeq(bytes, 1, UdpRoom) ELSE bytes
  IN [from |-> c, try |-> try[c] + 1, write |-> Name(c) \notin Reads,
      area |-> call[c].area, addr |-> call[c].addr,
      bit |-> IF Name(c) \in BitCalls THEN call[c].bit ELSE 0, count |-> Count(c),
      payload |-> cut, wire |-> kind[c] # "inline",
      room |-> IF kind[c] = "udp" THEN UdpRoom ELSE Len(bytes)]

AreaOk(c) ==
  call[c].area \in (IF Name(c) \in BitCalls THEN ClientBitAreas ELSE ClientWordAreas)

\* The loop over the words indexes bytes that a uint16 product does not count.
MakesNoRequest(c) == Name(c) = "WriteWords" /\ 2 * Count(c) >= Wrap

--------------------------------------------------------------------------------
(* Attempts *)

Refusals == {"refused", "context", "closed", "area"}
Errors   == Refusals \cup {"endcode", "timeout"}

\* The collector notes the end of an attempt or, if it is around the retries, of
\* the call.
Note(c, chains, failed) ==
  counts' = IF \E s \in chains : Reaches("metrics", s, Info(c))
            THEN [counts EXCEPT ![c] = Counted(@, failed)] ELSE counts

Finish(c, how) ==
  /\ st' = [st EXCEPT ![c] = "done"]
  /\ out' = [out EXCEPT ![c] = how]
  /\ Note(c, {Outer(ItsChain(c)), Inner(ItsChain(c))}, how # "ok")
  /\ UNCHANGED <<phase, left, try, bit>>

TryAgain(c) ==
  /\ st' = [st EXCEPT ![c] = "ready"] /\ left' = [left EXCEPT ![c] = @ - 1]
  /\ Note(c, {Inner(ItsChain(c))}, TRUE)
  /\ UNCHANGED <<phase, try, bit, out>>

\* Faulty: tries again after the last attempt.
FailTooOften(c, error, alive) ==
  IF alive /\ left[c] >= 0 /\ MayRetry(ItsChain(c), error) THEN TryAgain(c)
                                                           ELSE Finish(c, error)

\* An attempt failed: the retry interceptor's turn, if there is one.
Fail(c, error, alive) ==
  IF alive /\ left[c] > 0 /\ MayRetry(ItsChain(c), error) THEN TryAgain(c)
                                                          ELSE Finish(c, error)

\* The interceptors around the retries.
Invoke(c) ==
  /\ st[c] = "idle"
  /\ IF Admitted(Outer(ItsChain(c)), Info(c))
     THEN /\ st' = [st EXCEPT ![c] = "ready"]
          /\ left' = [left EXCEPT ![c] = RetriesOf(ItsChain(c))]
          /\ UNCHANGED <<phase, try, bit, counts, out>>
     ELSE /\ st' = [st EXCEPT ![c] = "done"]
          /\ out' = [out EXCEPT ![c] = "refused"]
          /\ Note(c, {Outer(ItsChain(c))}, TRUE)
          /\ UNCHANGED <<phase, left, try, bit>>
  /\ UNCHANGED <<callVars, live, net, ans, simVars, closed, gaveUp>>

\* An attempt is refused by the interceptors within the retries, because the
\* context has expired, the area is not one of the client's, or the simulator
\* whose memory an inline client uses is closed.
Attempted(c) == st[c] = "ready" /\ Admitted(Inner(ItsChain(c)), Info(c))
Refuse(c) ==
  /\ \/ st[c] = "ready" /\ ~Attempted(c) /\ Fail(c, "refused", live[c])
     \/ Attempted(c) /\ ~live[c] /\ Fail(c, "context", FALSE)
     \/ Attempted(c) /\ live[c] /\ kind[c] = "inline" /\ closed /\ Fail(c, "closed", TRUE)
     \/ /\ Attempted(c) /\ ~AreaOk(c) /\ (kind[c] = "inline" => live[c] /\ ~closed)
        /\ Fail(c, "area", live[c])
  /\ UNCHANGED <<callVars, live, net, ans, simVars, closed, gaveUp>>

Ready(c) == /\ Attempted(c) /\ live[c] /\ AreaOk(c)
            /\ ~(kind[c] = "inline" /\ closed)

\* A panic ends the caller's process, which is the simulator's for inline clients.
Die(c) ==
  /\ kind[c] = "inline" => up
  /\ st' = [st EXCEPT ![c] = "panicked"]
  /\ up' = (up /\ kind[c] # "inline")
  /\ killer' = IF kind[c] = "inline" THEN Request(c) ELSE killer
  /\ UNCHANGED <<callVars, phase, left, try, bit, counts, out, live, net, ans,
                 mem, did, touched, closed, gaveUp>>

CallerPanics(c) == Ready(c) /\ MakesNoRequest(c) /\ Die(c)

Send(c) ==
  /\ Ready(c) /\ ~MakesNoRequest(c) /\ kind[c] # "inline"
  /\ net' = net \cup {Request(c)}
  /\ st' = [st EXCEPT ![c] = "waiting"] /\ try' = [try EXCEPT ![c] = @ + 1]
  /\ ans' = [ans EXCEPT ![c] = NoAnswer]
  /\ UNCHANGED <<callVars, phase, left, bit, counts, out, live, simVars, closed,
                 gaveUp>>

--------------------------------------------------------------------------------
(* The simulator *)

ReadsFor(q, c) == q.from = c /\ ~q.write /\ Toggling(c) /\ q.try = try'[c]
WritesOver(q, c) == /\ q.from # c /\ q.write /\ q.area = call[c].area
                    /\ (call[c].addr + call[c].bit) % Wrap \in Copied(q)

\* What the toggles under way notice of a request that is executed.
Observe(q) ==
  touched' = [c \in Callers |-> ~ReadsFor(q, c) /\ (touched[c] \/ WritesOver(q, c))]

Execute(q, verdict) ==
  /\ up' = (verdict # "panic")
  /\ killer' = IF verdict = "panic" THEN q ELSE killer
  /\ IF verdict = "ok"
     THEN /\ mem' = IF q.write THEN Written(mem, q) ELSE mem
          /\ did' = [did EXCEPT ![q.from] = @ \cup {q}]
          /\ Observe(q)
     ELSE UNCHANGED <<mem, did, touched>>

Result(q, verdict) ==
  [verdict |-> verdict, try |-> q.try,
   data |-> IF verdict = "ok" /\ ~q.write THEN Data(mem, q) ELSE <<>>]

\* A connection accepted before Close is served after it, too.  The answer to an
\* attempt that was given up has no channel any more.
Serve(q) ==
  /\ q \in net /\ up /\ (closed => kind[q.from] = "tcp")
  /\ net' = net \ {q}
  /\ UNCHANGED tryVars
  /\ Execute(q, Verdict(q))
  /\ ans' = IF q.try = try[q.from] /\ Verdict(q) # "panic"
            THEN [ans EXCEPT ![q.from] = Result(q, Verdict(q))] ELSE ans
  /\ UNCHANGED <<callVars, live, closed, gaveUp>>

\* The inline client does the same in the caller's goroutine.
Access(c) ==
  /\ Ready(c) /\ ~MakesNoRequest(c) /\ kind[c] = "inline" /\ up
  /\ LET q == Request(c) IN
     /\ try' = [try EXCEPT ![c] = @ + 1]
     /\ Execute(q, Verdict(q))
     /\ ans' = [ans EXCEPT ![c] = Result(q, Verdict(q))]
     /\ st' = [st EXCEPT ![c] = IF Verdict(q) = "panic" THEN "panicked" ELSE "waiting"]
  /\ UNCHANGED <<callVars, phase, left, bit, counts, out, live, net, closed, gaveUp>>

--------------------------------------------------------------------------------
(* Answers *)

Answered(c) == st[c] = "waiting" /\ ans[c] # NoAnswer
Untouched == UNCHANGED <<callVars, live, net, ans, simVars, closed, gaveUp>>

ReturnError(c) ==
  /\ Answered(c) /\ ans[c].verdict # "ok"
  /\ Fail(c, "endcode", live[c])
  /\ Untouched

\* What there is of the data: of a datagram that is larger than the client's buffer,
\* the next Recv returns the tail.
Tailed(c)   == kind[c] = "udp" /\ Len(ans[c].data) > ReadRoom
Received(c) == IF Tailed(c) THEN SubSeq(ans[c].data, 1, ReadRoom) ELSE ans[c].data
Indexed(c) == CASE Name(c) = "ReadWords" -> 2 * Count(c)
                [] Name(c) = "ReadBits" /\ kind[c] # "inline" -> Count(c)
                [] OTHER -> 0
IndexRoom(c) == IF kind[c] = "udp" /\ Name(c) = "ReadWords" THEN ReadRoom
                ELSE Len(Received(c))

\* An index out of range, or a tail too short to be a response in decodeResponse.
ReturnPanics(c) ==
  /\ Answered(c) /\ ans[c].verdict = "ok" /\ (Indexed(c) > IndexRoom(c) \/ Tailed(c))
  /\ Die(c)

Usable(c) == Answered(c) /\ ans[c].verdict = "ok" /\ Indexed(c) <= IndexRoom(c)

Return(c) ==
  /\ Usable(c) /\ ~Toggling(c)
  /\ Finish(c, "ok") /\ Untouched

TakenWrong(c) == 1 - (ans[c].data[1] % 2)                 \* faulty
TakenBit(c) == ans[c].data[1] % 2

\* ToggleBit goes on to write the complement, which an inline client intercepts.
ToggleOn(c) ==
  /\ Usable(c) /\ Toggling(c)
  /\ bit' = [bit EXCEPT ![c] = TakenBit(c)]
  /\ phase' = [phase EXCEPT ![c] = 2]
  /\ st' = [st EXCEPT ![c] = "idle"]
  /\ Note(c, {Outer(ItsChain(c)), Inner(ItsChain(c))}, FALSE)
  /\ UNCHANGED <<left, try, out>> /\ Untouched

Timeout(c) ==
  /\ st[c] = "waiting" /\ kind[c] # "inline"
  /\ Fail(c, "timeout", live[c])
  /\ gaveUp' = [gaveUp EXCEPT ![c] = TRUE]
  /\ UNCHANGED <<callVars, live, net, ans, simVars, closed>>

GiveUp(c) ==
  /\ st[c] = "waiting" /\ ~live[c] /\ kind[c] # "inline"
  /\ Fail(c, "context", FALSE)
  /\ gaveUp' = [gaveUp EXCEPT ![c] = TRUE]
  /\ UNCHANGED <<callVars, live, net, ans, simVars, closed>>

Expire(c) ==
  /\ live[c] /\ st[c] # "done" /\ live' = [live EXCEPT ![c] = FALSE]
  /\ UNCHANGED <<callVars, tryVars, net, ans, simVars, closed, gaveUp>>

Close ==
  /\ ~closed /\ closed' = TRUE
  /\ UNCHANGED <<callVars, tryVars, live, net, ans, simVars, gaveUp>>

CallNext(c) ==
  \/ Invoke(c) \/ Refuse(c) \/ CallerPanics(c) \/ Send(c) \/ Access(c)
  \/ ReturnError(c) \/ ReturnPanics(c) \/ Return(c) \/ ToggleOn(c) \/ Timeout(c)
  \/ GiveUp(c) \/ Expire(c)
Next == (\E c \in Callers : CallNext(c)) \/ (\E q \in net : Serve(q)) \/ Close

Spec == Init /\ [][Next]_vars

--------------------------------------------------------------------------------
(* Correctness *)

\* The bytes a call is about, in plain arithmetic, and the cells.
Size(c) == CASE call[c].name \in {"ReadWords", "ReadBytes", "WriteWords"} -> 2 * call[c].n
             [] call[c].name = "WriteString" -> 2 * ((call[c].n + 1) \div 2)
             [] call[c].name \in Twiddles    -> 1
             [] OTHER                        -> call[c].n
First(c) == call[c].addr + call[c].bit
Named(c) == First(c)..(First(c) + Size(c) - 1)

\* The call's cells are all in its area, and its command fits a datagram.
Fits(c) == /\ First(c) + Size(c) <= AreaSize
           /\ kind[c] = "udp" /\ call[c].name \notin Reads => Size(c) <= UdpRoom

TypeOK ==
  /\ st \in [Callers -> {"idle", "ready", "waiting", "done", "panicked"}]
  /\ phase \in [Callers -> 1..2] /\ left \in [Callers -> 0..MaxRetries]
  /\ try \in [Callers -> 0..(2 + MaxRetries)] /\ bit \in [Callers -> 0..1]
  /\ out \in [Callers -> {"none", "ok"} \cup Errors]
  /\ counts \in [Callers -> [calls : Nat, errors : Nat]]
  /\ {live, gaveUp, touched} \subseteq [Callers -> BOOLEAN]
  /\ {up, closed} \subseteq BOOLEAN
  /\ mem \in [Areas -> [Cells -> Nat]]

\* A step changes only cells that the call it executes names, to bytes of that
\* call.  Two calls are known to do more: WriteBytes over UDP, which gives the
\* number of its bytes as that of its words, and a bit whose address and number
\* add up to 2^16 or more.
Strays(c) == \/ call[c].name = "WriteBytes" /\ kind[c] = "udp"
             \/ First(c) >= Wrap
NamedCellsOnly ==
  [][\A a \in Areas : \A i \in Cells :
       mem'[a][i] # mem[a][i] =>
         \E c \in Callers : /\ did'[c] # did[c] /\ a = call[c].area
                            /\ (i \in Named(c) /\ mem'[a][i] # Junk) \/ Strays(c)]_vars

\* A call that succeeded was executed, on all of its cells; without a retry
\* interceptor a command is executed at most once, with one it is executed again,
\* or after the call returned, only if an attempt was given up.  A collector around
\* the retries counts one call, one within them every attempt; all but a success
\* are errors.
Covers(q, c) == Named(c) \subseteq Start(q)..(End(q) - 1)
Overflows(c) == First(c) >= Wrap \/ 2 * call[c].n >= Wrap
Again(c) == Cardinality(did[c]) > (IF call[c].name = "ToggleBit" THEN 2 ELSE 1)
RetryDiscipline ==
  \A c \in Callers :
    /\ out[c] = "ok" => Overflows(c) \/ \E q \in did[c] : Covers(q, c)
    /\ Again(c) => RetriesOf(chain[c]) > 0
    /\ (Again(c) \/ \E q \in net : q.from = c /\ st[c] = "done") => gaveUp[c]
    /\ st[c] = "done" /\ Intercepted(c) /\ call[c].name # "ToggleBit" =>
         /\ Reaches("metrics", Outer(chain[c]), Info(c)) => counts[c].calls = 1
         /\ Reaches("metrics", Inner(chain[c]), Info(c)) => counts[c].calls >= try[c]
         /\ In("metrics", chain[c]) /\ Admitted(chain[c], Info(c)) =>
              counts[c].calls - counts[c].errors = (IF out[c] = "ok" THEN 1 ELSE 0)

\* What the interceptors of a caller promise holds for what the simulator
\* executes for it.  ReadOnlyInterceptor: nothing is written.  AddressRangeValidator:
\* no address outside the range is used and no read goes past it (one whose end
\* wraps gets past the interceptor, and fails at the simulator unless its start
\* wraps, too).  ValidationInterceptor: no call is of nothing, or of more than the
\* limit; but the length of a write is compared as a uint16, so that a call with
\* 2^16 items and a few passes as one with a few, and the count of its command is
\* as small.
\* It does not hold for the operations that Client does not intercept, and for
\* the extent of a write's range.
Guarded(c, q) == kind[c] = "inline" \/ ~q.write \/ call[c].name \notin Bare
Most(c) == CASE call[c].name \in {"ReadWords", "ReadBytes"}     -> MaxRead
             [] call[c].name = "ReadBits"                       -> MaxRead * WordBits
             [] call[c].name = "WriteWords"                     -> MaxWrite
             [] call[c].name \in {"WriteBytes", "WriteString"} -> MaxWrite * 2
             [] call[c].name = "WriteBits"                      -> MaxWrite * WordBits
ChecksHold ==
  \A c \in Callers : \A q \in did[c] :
    Guarded(c, q) =>
      /\ In("readonly", chain[c]) => ~q.write
      /\ In("range", chain[c]) =>
           /\ q.area \in AllowedAreas /\ q.addr \in Lowest[q.area]..Highest[q.area]
           /\ q.write \/ q.addr + q.count - 1 <= Highest[q.area] \/ First(c) >= Wrap
      /\ In("validate", chain[c]) /\ call[c].name \notin Twiddles =>
           /\ call[c].n > 0
           /\ call[c].n <= Most(c) \/ (q.write /\ call[c].n >= Wrap)
           /\ call[c].name # "WriteString" => q.count <= Most(c)

\* A call that fits its area ends neither process, but for WriteBytes over a
\* network and a read larger than the client's UDP buffer.
PanicsOnlyWhen ==
  /\ ~up => \E c \in Callers : /\ killer.from = c
                               /\ \/ ~Fits(c)
                                  \/ call[c].name = "WriteBytes" /\ kind[c] # "inline"
  /\ \A c \in Callers : st[c] = "panicked" =>
       ~Fits(c) \/ (kind[c] = "udp" /\ call[c].name \in Reads /\ Size(c) > ReadRoom)

\* The write of a toggle turns its bit over, unless somebody else wrote the bit
\* since the toggle read it, whatever was given up and tried again before.
ToggleFlips ==
  [][\A c \in Callers : \A q \in did'[c] \ did[c] :
       call[c].name = "ToggleBit" /\ q.write /\ ~touched[c]
         => mem'[q.area][Start(q)] = 1 - (mem[q.area][Start(q)] % 2)]_vars

\* The commands under way say what their callers meant, and whatever the codec
\* encodes it decodes.
Wire(q) ==
  LET a == [area |-> AreaCode[q.area], address |-> q.addr, bit |-> q.bit]
  IN EncodeHeader(DefaultCommandHeader(<<0, 1, 0>>, <<0, 2, 0>>, q.try))
     \o (IF q.write THEN WriteCommand(a, q.count, q.payload) ELSE ReadCommand(a, q.count))
CommandsCarried ==
  \A q \in net :
    LET r == DecodeRequest(Wire(q))
        a == DecodeMemoryAddress(SubSeq(r.data, 1, 4))
    IN /\ r.commandCode = Value(IF q.write THEN <<1, 2>> ELSE <<1, 1>>)
       /\ r.header.serviceID = q.try /\ r.header.responseRequired
       /\ a.area = AreaCode[q.area] /\ a.address = q.addr /\ a.bit = q.bit
       /\ Value(SubSeq(r.data, 5, 6)) = q.count /\ From(r.data, 7) = q.payload
WireExact == CodecExact /\ CommandsCarried
================================================================================
