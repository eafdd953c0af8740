----------------------------- MODULE RequestProofs -----------------------------
(***************************************************************************)
(* What the requests of the operations are, and what the simulator does with *)
(* them, for any width of its addresses and any size of its areas: lemmas     *)
(* for OperationsProofs.                                                      *)
(***************************************************************************)
EXTENDS Operations, SequenceTheorems, TLAPS

--------------------------------------------------------------------------------
(* Arithmetic modulo the width *)

\* What is left of a number of the width, and of one below twice it.
LEMMA ModFacts ==
  ASSUME NEW x \in Nat, NEW w \in Nat, w > 0
  PROVE  /\ x % w \in 0..(w - 1) /\ x % w <= x
         /\ x < w => x % w = x
         /\ w <= x /\ x < 2 * w => x % w = x - w
<1>1. x % w \in 0..(w - 1) /\ x = w * (x \div w) + (x % w) /\ x \div w \in Int
  OBVIOUS
<1>2. x \div w >= 0
  OBVIOUS
<1>3. x % w <= x
  BY <1>1, <1>2
<1>4. x < w => x % w = x
  BY <1>1, <1>2
<1>5. w <= x /\ x < 2 * w => x % w = x - w
  BY <1>1, <1>2
<1>6. QED BY <1>1, <1>3, <1>4, <1>5

\* The constants are numbers, and two areas fit the width.
LEMMA Sizes ==
  /\ Wrap \in Nat /\ AreaSize \in Nat /\ PayloadAt \in Nat /\ AreaSize > 0
  /\ 2 * AreaSize <= Wrap /\ AreaSize < Wrap /\ PayloadAt + AreaSize < Wrap
  /\ Wrap > 1 /\ Width = Wrap /\ Wrap <= 65536
  /\ UdpRoom \in Nat /\ ReadRoom \in Nat /\ ReadRoom > 0 /\ MaxRetries \in Nat
  /\ Junk \in Nat /\ Junk # 0 /\ Junk # 1
BY MemoryAssumption, OperationsAssumption, InterceptorsAssumption

\* uint16 of a number.
LEMMA Wraps ==
  ASSUME NEW x \in Nat
  PROVE  /\ x % Wrap \in Nat /\ x % Wrap \in 0..(Wrap - 1) /\ x % Wrap < Wrap /\ x % Wrap <= x
         /\ x < Wrap => x % Wrap = x
         /\ Wrap <= x /\ x < 2 * Wrap => x % Wrap = x - Wrap
BY ModFacts, Sizes

\* Areas of bits are none of words.
LEMMA AreaKinds ==
  /\ \A a \in ClientBitAreas : a \in BitAreas /\ a \in Areas /\ a \notin WordAreas
  /\ \A a \in ClientWordAreas : a \in WordAreas /\ a \in Areas
BY OperationsAssumption, MemoryAssumption DEF Areas

--------------------------------------------------------------------------------
(* Accesses *)

RequestSet ==
  [from : Callers, try : Nat, write : BOOLEAN, area : DOMAIN AreaCode,
   addr : 0..(Wrap - 1), bit : Byte, count : 0..(Wrap - 1), payload : Seq(Nat),
   wire : BOOLEAN, room : Nat]

\* What is in a request.
LEMMA RequestTypes ==
  ASSUME NEW q \in RequestSet
  PROVE  /\ q.from \in Callers /\ q.try \in Nat /\ q.write \in BOOLEAN
         /\ q.area \in DOMAIN AreaCode /\ q.addr \in Nat /\ q.addr < Wrap
         /\ q.bit \in Nat /\ q.bit < 256 /\ q.count \in Nat /\ q.count < Wrap
         /\ q.payload \in Seq(Nat) /\ q.wire \in BOOLEAN /\ q.room \in Nat
<1>1. /\ q.from \in Callers /\ q.try \in Nat /\ q.write \in BOOLEAN
      /\ q.area \in DOMAIN AreaCode /\ q.addr \in 0..(Wrap - 1)
      /\ q.bit \in Byte /\ q.count \in 0..(Wrap - 1)
      /\ q.payload \in Seq(Nat) /\ q.wire \in BOOLEAN /\ q.room \in Nat
  BY DEF RequestSet
<1>2. \A x \in 0..(Wrap - 1) : x \in Nat /\ x < Wrap
  BY Sizes
<1>3. \A x \in Byte : x \in Nat /\ x < 256
  BY DEF Byte
<1>4. QED BY <1>1, <1>2, <1>3, Zenon

\* The bounds of its access are in order, whatever is written there.
InBounds(q) == q.area \in Areas /\ Start(q) <= End(q) /\ End(q) <= AreaSize

\* The bounds of an access are numbers; those in order are as far apart as its bytes.
LEMMA Bounds ==
  ASSUME NEW q \in RequestSet
  PROVE  /\ ItemBytes(q) \in Nat /\ ItemBytes(q) < Wrap
         /\ Start(q) \in Nat /\ Start(q) < Wrap /\ End(q) \in Nat /\ End(q) < Wrap
         /\ PayloadEnd(q) \in Nat
         /\ InBounds(q) => End(q) = Start(q) + ItemBytes(q)
         /\ Start(q) + ItemBytes(q) < Wrap => End(q) = Start(q) + ItemBytes(q)
<1>1. q.count \in Nat /\ q.addr \in Nat /\ q.bit \in Nat /\ q.addr < Wrap
  BY RequestTypes
<1>2. ItemBytes(q) \in Nat /\ ItemBytes(q) < Wrap
  BY <1>1, Wraps DEF ItemBytes
<1>3. Start(q) \in Nat /\ Start(q) < Wrap
  BY <1>1, Wraps DEF Start
<1>4. /\ End(q) \in Nat /\ End(q) < Wrap
      /\ Start(q) + ItemBytes(q) < Wrap => End(q) = Start(q) + ItemBytes(q)
      /\ Start(q) + ItemBytes(q) >= Wrap => End(q) = Start(q) + ItemBytes(q) - Wrap
  BY <1>2, <1>3, Wraps, Sizes DEF End
<1>5. InBounds(q) => End(q) = Start(q) + ItemBytes(q)
  BY <1>2, <1>3, <1>4, Sizes DEF InBounds
<1>6. PayloadEnd(q) \in Nat
  BY <1>2, Wraps, Sizes DEF PayloadEnd
<1>7. QED BY <1>2, <1>3, <1>4, <1>5, <1>6

\* A request that is done is in bounds, and a command's slice of its payload too.
LEMMA DoneInBounds ==
  ASSUME NEW q \in RequestSet, Verdict(q) = "ok"
  PROVE  /\ InBounds(q)
         /\ q.write /\ q.wire => ItemBytes(q) <= q.room
<1>1. InBounds(q)
  BY Bounds, Sizes DEF Verdict, InBounds
<1>2. ASSUME q.write, q.wire PROVE ItemBytes(q) <= q.room
  <2>1. PayloadEnd(q) \in PayloadAt..(PayloadAt + q.room)
    BY <1>2 DEF Verdict
  <2>2. q.room \in Nat
    BY DEF RequestSet
  <2>3. CASE PayloadAt + ItemBytes(q) < Wrap
    <3>1. PayloadEnd(q) = PayloadAt + ItemBytes(q)
      BY <2>3, Bounds, Wraps, Sizes DEF PayloadEnd
    <3>2. QED BY <2>1, <2>2, <3>1, Bounds, Sizes
  <2>4. CASE PayloadAt + ItemBytes(q) >= Wrap
    <3>1. PayloadEnd(q) = PayloadAt + ItemBytes(q) - Wrap
      BY <2>4, Bounds, Wraps, Sizes DEF PayloadEnd
    <3>2. QED BY <2>1, <2>2, <3>1, Bounds, Sizes
  <2>5. QED BY <2>3, <2>4, Bounds, Sizes
<1>3. QED BY <1>1, <1>2

\* The verdicts there are.
LEMMA Verdicts == \A q : Verdict(q) \in {"ok", "range", "unsupported", "panic"}
BY DEF Verdict

\* Without a command around it, an access in bounds is done.
LEMMA InlineVerdict ==
  ASSUME NEW q \in RequestSet, ~q.wire
  PROVE  Verdict(q) = "ok" <=> InBounds(q)
BY Bounds, Sizes DEF Verdict, InBounds

--------------------------------------------------------------------------------
(* Calls *)

Writing(c) == Name(c) \notin Reads

\* What never changes.
CallInv ==
  /\ kind \in [Callers -> {"udp", "tcp", "inline"}]
  /\ chain \in [Callers -> Seq(Names)] /\ \A c \in Callers : chain[c] \in Chains[c]
  /\ call \in [Callers -> AllCalls]

\* What is in a call.
LEMMA CallTypes ==
  ASSUME CallInv, NEW c \in Callers
  PROVE  /\ call[c].name \in Reads \cup WriteOps /\ call[c].area \in DOMAIN AreaCode
         /\ call[c].addr \in 0..(Wrap - 1) /\ call[c].addr \in Nat /\ call[c].addr < Wrap
         /\ call[c].bit \in Byte /\ call[c].bit \in Nat
         /\ call[c].n \in Nat /\ call[c].v \in Nat /\ call[c].v # Junk
         /\ call[c].name \in Reads => call[c].n < Wrap
         /\ call[c].name \notin BitCalls => call[c].bit = 0
<1>1. call[c] \in AllCalls
  BY DEF CallInv
<1>2. /\ call[c] \in [name : Reads \cup WriteOps, area : DOMAIN AreaCode,
                      addr : 0..(Wrap - 1), bit : Byte, n : Nat, v : Nat \ {Junk}]
      /\ call[c].name \in Reads => call[c].n < Wrap
      /\ call[c].name \notin BitCalls => call[c].bit = 0
  BY <1>1 DEF AllCalls
<1>3. /\ call[c].name \in Reads \cup WriteOps /\ call[c].area \in DOMAIN AreaCode
      /\ call[c].addr \in 0..(Wrap - 1) /\ call[c].bit \in Byte /\ call[c].n \in Nat
      /\ call[c].v \in Nat \ {Junk}
  BY <1>2
<1>4. call[c].addr \in Nat /\ call[c].addr < Wrap
  BY <1>3, Sizes
<1>5. call[c].bit \in Nat
  BY <1>3 DEF Byte
<1>6. QED BY <1>2, <1>3, <1>4, <1>5

\* The ten operations.
LEMMA CallNames ==
  ASSUME CallInv, NEW c \in Callers
  PROVE  \/ call[c].name = "ReadWords" \/ call[c].name = "ReadBytes"
         \/ call[c].name = "ReadBits" \/ call[c].name = "WriteWords"
         \/ call[c].name = "WriteBytes" \/ call[c].name = "WriteString"
         \/ call[c].name = "WriteBits" \/ call[c].name = "SetBit"
         \/ call[c].name = "ResetBit" \/ call[c].name = "ToggleBit"
BY CallTypes DEF Reads, WriteOps

\* The name of what is done of a call: its own, but for the read of a toggle.
LEMMA NameIs ==
  ASSUME NEW c \in Callers
  PROVE  /\ Toggling(c) => call[c].name = "ToggleBit" /\ Name(c) = "ReadBits"
         /\ ~Toggling(c) => Name(c) = call[c].name
         /\ Name(c) \in BitCalls <=> call[c].name \in BitCalls
BY DEF Toggling, Name, BitCalls, Twiddles

\* The count of a request, from its call.
LEMMA CountIs ==
  ASSUME CallInv, NEW c \in Callers
  PROVE  /\ Count(c) \in Nat /\ Count(c) < Wrap
         /\ call[c].name \in Reads => Count(c) = call[c].n
         /\ call[c].name \in Twiddles => Count(c) = 1
         /\ call[c].name = "WriteString" => Count(c) = ((call[c].n + 1) \div 2) % Wrap
         /\ call[c].name \notin Twiddles \cup {"WriteString"} => Count(c) = call[c].n % Wrap
<1>1. call[c].n \in Nat /\ (call[c].n + 1) \div 2 \in Nat
  BY CallTypes
<1>2. /\ call[c].n % Wrap \in Nat /\ call[c].n % Wrap < Wrap
      /\ ((call[c].n + 1) \div 2) % Wrap \in Nat /\ ((call[c].n + 1) \div 2) % Wrap < Wrap
      /\ call[c].n < Wrap => call[c].n % Wrap = call[c].n
  BY <1>1, Wraps
<1>3. CASE call[c].name \in Twiddles
  <2>1. Count(c) = 1
    BY <1>3 DEF Count, Name, Toggling, Twiddles
  <2>2. QED BY <1>3, <2>1, Sizes DEF Twiddles, Reads
<1>4. CASE call[c].name \notin Twiddles
  <2>1. Name(c) = call[c].name /\ ~Toggling(c)
    BY <1>4 DEF Name, Toggling, Twiddles
  <2>2. Count(c) = IF call[c].name = "WriteString" THEN ((call[c].n + 1) \div 2) % Wrap
                   ELSE call[c].n % Wrap
    BY <1>4, <2>1 DEF Count
  <2>3. QED BY <1>2, <1>4, <2>2, CallTypes DEF Twiddles, Reads
<1>5. QED BY <1>3, <1>4

\* A sequence of one value, and two of them.
LEMMA Repeated ==
  ASSUME NEW v \in Nat, NEW n \in Nat
  PROVE  /\ Repeat(v, n) \in Seq(Nat) /\ Len(Repeat(v, n)) = n
         /\ \A i \in 1..n : Repeat(v, n)[i] = v
         /\ v # Junk => \A i \in 1..Len(Repeat(v, n)) : Repeat(v, n)[i] # Junk
<1> DEFINE s == [i \in 1..n |-> v]
<1>1. s \in Seq(Nat) /\ Len(s) = n /\ \A i \in 1..n : s[i] = v
  OBVIOUS
<1>2. Repeat(v, n) = s
  BY DEF Repeat
<1> HIDE DEF s
<1>3. QED BY <1>1, <1>2

\* The bytes of a string, and as many zeros.
LEMMA RepeatedTwice ==
  ASSUME NEW v \in Nat, NEW w \in Nat, NEW n \in Nat
  PROVE  /\ Repeat(v, n) \o Repeat(w, n) \in Seq(Nat)
         /\ Len(Repeat(v, n) \o Repeat(w, n)) = 2 * n
         /\ v # Junk /\ w # Junk =>
              \A i \in 1..(2 * n) : (Repeat(v, n) \o Repeat(w, n))[i] # Junk
<1> DEFINE s == Repeat(v, n)
           t == Repeat(w, n)
<1>1. /\ s \in Seq(Nat) /\ Len(s) = n /\ \A i \in 1..n : s[i] = v
      /\ t \in Seq(Nat) /\ Len(t) = n /\ \A i \in 1..n : t[i] = w
  BY Repeated
<1> HIDE DEF s, t
<1>2. s \o t \in Seq(Nat) /\ Len(s \o t) = n + n
  BY <1>1
<1>3. ASSUME NEW i \in 1..(n + n) PROVE (s \o t)[i] = v \/ (s \o t)[i] = w
  <2>1. CASE i <= n
    <3>1. i \in 1..n /\ (s \o t)[i] = s[i]
      BY <1>1, <2>1
    <3>2. QED BY <1>1, <3>1
  <2>2. CASE i > n
    <3>1. i - n \in 1..n /\ (s \o t)[i] = t[i - n]
      BY <1>1, <2>2
    <3>2. QED BY <1>1, <3>1
  <2>3. i <= n \/ i > n
    BY <1>3
  <2>4. QED BY <2>1, <2>2, <2>3, Zenon
<1>4. n + n = 2 * n
  OBVIOUS
<1>5. v # Junk /\ w # Junk => \A i \in 1..(n + n) : (s \o t)[i] # Junk
  BY <1>3
<1>6. QED BY <1>2, <1>4, <1>5 DEF s, t

\* The bytes of a write.
LEMMA PayloadIs ==
  ASSUME CallInv, NEW c \in Callers, Writing(c), bit[c] \in 0..1
  PROVE  /\ Payload(c) \in Seq(Nat)
         /\ \A i \in 1..Len(Payload(c)) : Payload(c)[i] # Junk
         /\ call[c].name \in Twiddles => Len(Payload(c)) = 1
         /\ call[c].name = "ToggleBit" => Payload(c)[1] = 1 - bit[c]
         /\ call[c].name = "WriteWords" => Len(Payload(c)) = (2 * Count(c)) % Wrap
         /\ call[c].name = "WriteString" => Len(Payload(c)) = 2 * call[c].n
         /\ call[c].name = "WriteBytes" => Len(Payload(c)) = call[c].n
         /\ call[c].name = "WriteBits" => Len(Payload(c)) = Count(c)
<1>1. Name(c) = call[c].name /\ call[c].name \notin Reads
  BY DEF Writing, Name, Reads
<1>2. /\ call[c].n \in Nat /\ call[c].v \in Nat /\ call[c].v # Junk /\ Count(c) \in Nat
      /\ (2 * Count(c)) % Wrap \in Nat
  BY CallTypes, CountIs, Wraps
<1>3. CASE call[c].name \in Twiddles
  <2>1. \E b \in {0, 1} : /\ Payload(c) = <<b>>
                          /\ call[c].name = "ToggleBit" => b = 1 - bit[c]
    BY <1>1, <1>3 DEF Payload, Twiddles, Reads
  <2>2. PICK b \in {0, 1} : /\ Payload(c) = <<b>>
                            /\ call[c].name = "ToggleBit" => b = 1 - bit[c]
    BY <2>1
  <2>3. /\ <<b>> \in Seq(Nat) /\ Len(<<b>>) = 1 /\ <<b>>[1] = b
        /\ \A i \in 1..1 : <<b>>[i] = b
    OBVIOUS
  <2>4. b # Junk
    BY Sizes
  <2>5. /\ Payload(c) \in Seq(Nat) /\ Len(Payload(c)) = 1
        /\ \A i \in 1..Len(Payload(c)) : Payload(c)[i] # Junk
        /\ call[c].name = "ToggleBit" => Payload(c)[1] = 1 - bit[c]
    BY <2>2, <2>3, <2>4
  <2>6. QED BY <1>3, <2>5 DEF Twiddles
<1>4. CASE call[c].name = "WriteWords"
  <2>1. Payload(c) = Repeat(call[c].v, (2 * Count(c)) % Wrap)
    BY <1>1, <1>4 DEF Payload, Reads
  <2>2. /\ Repeat(call[c].v, (2 * Count(c)) % Wrap) \in Seq(Nat) /\ Len(Repeat(call[c].v, (2 * Count(c)) % Wrap)) = (2 * Count(c)) % Wrap
        /\ \A i \in 1..Len(Repeat(call[c].v, (2 * Count(c)) % Wrap)) : Repeat(call[c].v, (2 * Count(c)) % Wrap)[i] # Junk
    BY <1>2, Repeated
  <2>3. QED BY <1>4, <2>1, <2>2 DEF Twiddles
<1>5. CASE call[c].name = "WriteString"
  <2> DEFINE p == Repeat(call[c].v, call[c].n) \o Repeat(0, call[c].n)
  <2>1. Payload(c) = p
    BY <1>1, <1>5 DEF Payload, Reads
  <2>2. 0 \in Nat /\ 0 # Junk
    BY Sizes
  <2>3. /\ p \in Seq(Nat) /\ Len(p) = 2 * call[c].n
        /\ \A i \in 1..(2 * call[c].n) : p[i] # Junk
    BY <1>2, <2>2, RepeatedTwice, Zenon
  <2> HIDE DEF p
  <2>4. QED BY <1>5, <2>1, <2>3 DEF Twiddles
<1>6. CASE call[c].name = "WriteBytes"
  <2>1. Payload(c) = Repeat(call[c].v, call[c].n)
    BY <1>1, <1>6 DEF Payload, Reads
  <2>2. /\ Repeat(call[c].v, call[c].n) \in Seq(Nat) /\ Len(Repeat(call[c].v, call[c].n)) = call[c].n
        /\ \A i \in 1..Len(Repeat(call[c].v, call[c].n)) : Repeat(call[c].v, call[c].n)[i] # Junk
    BY <1>2, Repeated
  <2>3. QED BY <1>6, <2>1, <2>2 DEF Twiddles
<1>7. CASE call[c].name = "WriteBits"
  <2>1. Payload(c) = Repeat(call[c].v, Count(c))
    BY <1>1, <1>7 DEF Payload, Reads
  <2>2. /\ Repeat(call[c].v, Count(c)) \in Seq(Nat) /\ Len(Repeat(call[c].v, Count(c))) = Count(c)
        /\ \A i \in 1..Len(Repeat(call[c].v, Count(c))) : Repeat(call[c].v, Count(c))[i] # Junk
    BY <1>2, Repeated
  <2>3. QED BY <1>7, <2>1, <2>2 DEF Twiddles
<1>8. QED BY <1>1, <1>3, <1>4, <1>5, <1>6, <1>7, CallNames DEF Twiddles, Reads

--------------------------------------------------------------------------------
(* Requests *)

\* What a datagram is cut to.
LEMMA Cut ==
  ASSUME NEW s \in Seq(Nat), NEW m \in Nat, Len(s) > m
  PROVE  /\ SubSeq(s, 1, m) \in Seq(Nat) /\ Len(SubSeq(s, 1, m)) = m
         /\ \A i \in 1..m : SubSeq(s, 1, m)[i] = s[i]
OBVIOUS

\* The request of an attempt: as the call says, with the bytes of a write, or as
\* many as fit a datagram.
LEMMA RequestIs ==
  ASSUME CallInv, NEW c \in Callers, bit[c] \in 0..1, try[c] \in Nat
  PROVE  /\ Request(c) \in RequestSet
         /\ Request(c).from = c /\ Request(c).try = try[c] + 1
         /\ Request(c).write <=> Writing(c)
         /\ Request(c).area = call[c].area /\ Request(c).addr = call[c].addr
         /\ Request(c).bit = (IF call[c].name \in BitCalls THEN call[c].bit ELSE 0)
         /\ Request(c).count = Count(c) /\ Request(c).wire = (kind[c] # "inline")
         /\ ~Writing(c) => Request(c).payload = <<>>
         /\ Writing(c) =>
              LET p == Request(c).payload
              IN /\ Len(p) = (IF kind[c] = "udp" /\ Len(Payload(c)) > UdpRoom
                              THEN UdpRoom ELSE Len(Payload(c)))
                 /\ \A i \in 1..Len(p) : p[i] = Payload(c)[i] /\ p[i] # Junk
                 /\ Request(c).room = IF kind[c] = "udp" THEN UdpRoom ELSE Len(Payload(c))
<1> DEFINE P == Payload(c)
           cut == IF kind[c] = "udp" /\ Len(P) > UdpRoom THEN SubSeq(P, 1, UdpRoom) ELSE P
           b == IF Name(c) \in BitCalls THEN call[c].bit ELSE 0
           room == IF kind[c] = "udp" THEN UdpRoom ELSE Len(P)
           write == Name(c) \notin Reads
           wire == kind[c] # "inline"
<1>1. ~Writing(c) => P = <<>>
  BY DEF Payload, Writing, Reads
<1>2. P \in Seq(Nat) /\ Len(P) \in Nat
  <2>1. CASE Writing(c)
    <3>1. P \in Seq(Nat)
      BY <2>1, PayloadIs
    <3>2. QED BY <3>1
  <2>2. CASE ~Writing(c)
    BY <1>1, <2>2
  <2>3. QED BY <2>1, <2>2
<1>3. Request(c) = [from |-> c, try |-> try[c] + 1, write |-> write,
                    area |-> call[c].area, addr |-> call[c].addr, bit |-> b,
                    count |-> Count(c), payload |-> cut, wire |-> wire,
                    room |-> room]
  BY DEF Request
<1>4. /\ cut \in Seq(Nat)
      /\ Len(cut) = (IF kind[c] = "udp" /\ Len(P) > UdpRoom THEN UdpRoom ELSE Len(P))
      /\ Len(cut) <= Len(P) /\ \A i \in 1..Len(cut) : cut[i] = P[i]
  <2>1. CASE kind[c] = "udp" /\ Len(P) > UdpRoom
    <3>1. cut = SubSeq(P, 1, UdpRoom)
      BY <2>1
    <3> HIDE DEF P
    <3>2. /\ SubSeq(P, 1, UdpRoom) \in Seq(Nat) /\ Len(SubSeq(P, 1, UdpRoom)) = UdpRoom
          /\ \A i \in 1..UdpRoom : SubSeq(P, 1, UdpRoom)[i] = P[i]
      BY <1>2, <2>1, Cut, Sizes
    <3> HIDE DEF cut
    <3>3. QED BY <1>2, <2>1, <3>1, <3>2, Sizes
  <2>2. CASE ~(kind[c] = "udp" /\ Len(P) > UdpRoom)
    <3>1. cut = P
      BY <2>2
    <3> HIDE DEF P, cut
    <3>2. QED BY <1>2, <2>2, <3>1
  <2>3. QED BY <2>1, <2>2
<1>5. room \in Nat
  BY <1>2, Sizes
<1>6. b \in Byte /\ b = (IF call[c].name \in BitCalls THEN call[c].bit ELSE 0)
  BY CallTypes, NameIs DEF Byte
<1>7. /\ Count(c) \in 0..(Wrap - 1) /\ call[c].area \in DOMAIN AreaCode
      /\ call[c].addr \in 0..(Wrap - 1) /\ try[c] + 1 \in Nat
  BY CountIs, CallTypes, Sizes
<1>8. ~Writing(c) => cut = <<>>
  <2>1. ASSUME P = <<>> PROVE Len(P) = 0
    BY <2>1
  <2>2. QED BY <1>1, <2>1, Sizes
<1>9. Writing(c) => \A i \in 1..Len(cut) : cut[i] # Junk
  <2>1. ASSUME Writing(c) PROVE \A i \in 1..Len(P) : P[i] # Junk
    BY <2>1, PayloadIs
  <2> HIDE DEF P, cut
  <2>2. \A i \in 1..Len(cut) : i \in 1..Len(P)
    BY <1>2, <1>4
  <2>3. QED BY <1>4, <2>1, <2>2
<1>10. write \in BOOLEAN /\ wire \in BOOLEAN
  OBVIOUS
<1>11. write <=> Writing(c)
  BY DEF Writing
<1>12. wire = (kind[c] # "inline")
  OBVIOUS
<1> HIDE DEF cut, b, room, write, wire
<1>13. Request(c) \in RequestSet
  BY <1>3, <1>4, <1>5, <1>6, <1>7, <1>10 DEF RequestSet
<1>14. Request(c).write = write /\ Request(c).wire = wire
  BY <1>3
<1>15. /\ Request(c).from = c /\ Request(c).try = try[c] + 1
       /\ Request(c).area = call[c].area /\ Request(c).addr = call[c].addr
       /\ Request(c).bit = b /\ Request(c).count = Count(c)
       /\ Request(c).payload = cut /\ Request(c).room = room
  BY <1>3
<1>16. room = IF kind[c] = "udp" THEN UdpRoom ELSE Len(P)
  BY DEF room
<1> HIDE DEF P
<1>17. QED BY <1>4, <1>6, <1>8, <1>9, <1>13, <1>15, <1>16, <1>14, <1>11, <1>12 DEF P

\* A request of caller c: of its call's cells, a read if the call reads or is a
\* toggle, a write once Name says so.
Asked(c, q) ==
  /\ q.from = c
  /\ q.area = call[c].area /\ q.addr = call[c].addr
  /\ q.bit = (IF call[c].name \in BitCalls THEN call[c].bit ELSE 0)
  /\ q.count = Count(c) /\ q.wire = (kind[c] # "inline")
  /\ q.area \in (IF call[c].name \in BitCalls THEN ClientBitAreas ELSE ClientWordAreas)
  /\ ~MakesNoRequest(c)
  /\ IF q.write THEN Writing(c) /\ q.payload = Request(c).payload /\ q.room = Request(c).room
                ELSE call[c].name \in Reads \cup {"ToggleBit"} /\ q.payload = <<>>

\* Where a request's access begins, and how many bytes it has.
LEMMA SentAccess ==
  ASSUME CallInv, NEW c \in Callers, NEW q \in RequestSet, Asked(c, q)
  PROVE  /\ q.area \in Areas
         /\ Start(q) = (IF call[c].name \in BitCalls
                        THEN (call[c].addr + call[c].bit) % Wrap ELSE call[c].addr)
         /\ First(c) < Wrap => Start(q) = First(c)
         /\ ItemBytes(q) = (IF call[c].name \in BitCalls THEN Count(c)
                            ELSE (2 * Count(c)) % Wrap)
<1>1. /\ call[c].addr \in Nat /\ call[c].addr < Wrap /\ call[c].bit \in Nat
      /\ call[c].name \notin BitCalls => call[c].bit = 0
      /\ Count(c) \in Nat /\ Count(c) < Wrap
  BY CallTypes, CountIs
<1>2. /\ q.addr = call[c].addr /\ q.count = Count(c)
      /\ q.bit = (IF call[c].name \in BitCalls THEN call[c].bit ELSE 0)
  BY DEF Asked
<1>3. CASE call[c].name \in BitCalls
  <2>1. q.area \in Areas /\ q.area \notin WordAreas
    BY <1>3, AreaKinds DEF Asked
  <2>2. Start(q) = (call[c].addr + call[c].bit) % Wrap /\ ItemBytes(q) = Count(c)
    BY <1>1, <1>2, <1>3, <2>1, Wraps DEF Start, ItemBytes
  <2>3. First(c) < Wrap => (call[c].addr + call[c].bit) % Wrap = First(c)
    BY <1>1, Wraps DEF First
  <2>4. QED BY <1>3, <2>1, <2>2, <2>3
<1>4. CASE call[c].name \notin BitCalls
  <2>1. q.area \in Areas /\ q.area \in WordAreas
    BY <1>4, AreaKinds DEF Asked
  <2>2. Start(q) = call[c].addr /\ First(c) = call[c].addr
    BY <1>1, <1>2, <1>4, <2>1 DEF Start, First
  <2>3. ItemBytes(q) = (2 * Count(c)) % Wrap
    <3>1. Count(c) * 2 = 2 * Count(c)
      BY <1>1
    <3>2. ItemBytes(q) = (Count(c) * 2) % Wrap
      BY <1>2, <2>1 DEF ItemBytes
    <3>3. QED BY <3>1, <3>2, Zenon
  <2>4. QED BY <1>4, <2>1, <2>2, <2>3
<1>5. QED BY <1>3, <1>4

\* An access has no more bytes than its call is about, and exactly those if their
\* number is a uint16; but WriteBytes gives its bytes as words.
LEMMA SentSize ==
  ASSUME CallInv, NEW c \in Callers, NEW q \in RequestSet, Asked(c, q)
  PROVE  /\ Size(c) \in Nat
         /\ call[c].name # "WriteBytes" => /\ ItemBytes(q) <= Size(c)
                                           /\ Size(c) < Wrap => ItemBytes(q) = Size(c)
         /\ call[c].name = "WriteBytes" =>
              /\ Size(c) = call[c].n
              /\ 2 * call[c].n < Wrap => ItemBytes(q) = 2 * call[c].n
              /\ 2 * call[c].n = Wrap => ItemBytes(q) = 0
         /\ 2 * call[c].n < Wrap => Size(c) <= ItemBytes(q)
<1> DEFINE n == call[c].n
<1>1. n \in Nat /\ Count(c) \in Nat /\ Count(c) < Wrap
  BY CallTypes, CountIs
<1>2. /\ ItemBytes(q) = (IF call[c].name \in BitCalls THEN Count(c)
                         ELSE (2 * Count(c)) % Wrap)
  BY SentAccess
<1>3. CASE call[c].name \in {"ReadWords", "ReadBytes", "WriteWords"}
  <2>1. Size(c) = 2 * n /\ ItemBytes(q) = (2 * Count(c)) % Wrap /\ Count(c) = n % Wrap
    BY <1>2, <1>3, CountIs DEF Size, BitCalls, Twiddles
  <2>2. Count(c) <= n /\ (n < Wrap => Count(c) = n)
    BY <1>1, <2>1, Wraps
  <2>3. /\ ItemBytes(q) \in Nat /\ ItemBytes(q) <= 2 * Count(c)
        /\ 2 * Count(c) < Wrap => ItemBytes(q) = 2 * Count(c)
    BY <1>1, <2>1, Wraps
  <2> HIDE DEF n
  <2>4. /\ 2 * n \in Nat /\ ItemBytes(q) <= 2 * n /\ (2 * n < Wrap => ItemBytes(q) = 2 * n)
    BY <1>1, <2>2, <2>3, Sizes
  <2>5. QED BY <1>3, <2>1, <2>4 DEF n
<1>4. CASE call[c].name = "WriteString"
  <2> DEFINE m == (n + 1) \div 2
  <2>1. m \in Nat /\ 2 * m <= n + 1 /\ (n = 0 => m = 0)
    BY <1>1
  <2>2. Size(c) = 2 * m /\ ItemBytes(q) = (2 * Count(c)) % Wrap /\ Count(c) = m % Wrap
    BY <1>2, <1>4, CountIs DEF Size, BitCalls, Twiddles
  <2> HIDE DEF m, n
  <2>3. Count(c) <= m /\ (m < Wrap => Count(c) = m)
    BY <2>1, <2>2, Wraps
  <2>4. /\ ItemBytes(q) \in Nat /\ ItemBytes(q) <= 2 * Count(c)
        /\ 2 * Count(c) < Wrap => ItemBytes(q) = 2 * Count(c)
    BY <1>1, <2>2, Wraps
  <2>5. /\ 2 * m \in Nat /\ ItemBytes(q) <= 2 * m /\ (2 * m < Wrap => ItemBytes(q) = 2 * m)
    BY <1>1, <2>1, <2>3, <2>4, Sizes
  <2>6. 2 * n < Wrap => 2 * m < Wrap
    BY <1>1, <2>1, Sizes
  <2>7. QED BY <1>4, <2>2, <2>5, <2>6 DEF n
<1>5. CASE call[c].name = "WriteBytes"
  <2>1. Size(c) = n /\ ItemBytes(q) = (2 * Count(c)) % Wrap /\ Count(c) = n % Wrap
    BY <1>2, <1>5, CountIs DEF Size, BitCalls, Twiddles
  <2>2. n < Wrap => Count(c) = n
    BY <1>1, <2>1, Wraps
  <2>3. ASSUME 2 * n < Wrap PROVE ItemBytes(q) = 2 * n
    <3>1. Count(c) = n /\ 2 * n \in Nat
      BY <1>1, <2>2, <2>3, Sizes
    <3>2. (2 * n) % Wrap = 2 * n
      BY <2>3, <3>1, Wraps
    <3>3. QED BY <2>1, <3>1, <3>2
  <2>4. 2 * n = Wrap => ItemBytes(q) = 0
    <3>1. n < Wrap \/ 2 * n # Wrap
      BY <1>1, Sizes
    <3>2. 2 * n = Wrap => (2 * n) % Wrap = 0
      BY <1>1, Wraps, Sizes
    <3>3. QED BY <2>1, <2>2, <3>1, <3>2
  <2> HIDE DEF n
  <2>5. 2 * n < Wrap => n <= ItemBytes(q)
    BY <1>1, <2>3
  <2>6. QED BY <1>1, <1>5, <2>1, <2>3, <2>4, <2>5 DEF n
<1>6. CASE call[c].name \in Twiddles
  <2>1. Size(c) = 1 /\ ItemBytes(q) = 1
    BY <1>2, <1>6, CountIs DEF Size, BitCalls, Twiddles
  <2>2. QED BY <1>6, <2>1 DEF Twiddles
<1>7. CASE call[c].name \in {"ReadBits", "WriteBits"}
  <2>1. Size(c) = n /\ ItemBytes(q) = Count(c) /\ Count(c) = n % Wrap
    BY <1>2, <1>7, CountIs DEF Size, BitCalls, Twiddles
  <2>2. Count(c) <= n /\ (n < Wrap => Count(c) = n)
    BY <1>1, <2>1, Wraps
  <2> HIDE DEF n
  <2>3. 2 * n < Wrap => n < Wrap
    BY <1>1, Sizes
  <2>4. QED BY <1>1, <1>7, <2>1, <2>2, <2>3 DEF n
<1>8. QED BY <1>3, <1>4, <1>5, <1>6, <1>7, CallNames DEF Twiddles

--------------------------------------------------------------------------------
(* What a request's execution does *)

Memories == [Areas -> [Cells -> Nat]]

\* A request that is done covers what its call is about, if nothing overflows.
LEMMA DoneCovers ==
  ASSUME CallInv, NEW c \in Callers, NEW q \in RequestSet, Asked(c, q), Verdict(q) = "ok",
         ~Overflows(c)
  PROVE  Covers(q, c)
<1>1. First(c) \in Nat /\ call[c].n \in Nat
  BY CallTypes DEF First
<1>2. First(c) < Wrap /\ 2 * call[c].n < Wrap
  BY <1>1, Sizes DEF Overflows
<1>3. Start(q) = First(c) /\ Size(c) <= ItemBytes(q) /\ Size(c) \in Nat
  BY <1>2, SentAccess, SentSize
<1>4. End(q) = Start(q) + ItemBytes(q) /\ ItemBytes(q) \in Nat
  BY DoneInBounds, Bounds
<1>5. QED BY <1>1, <1>3, <1>4 DEF Covers, Named

\* Bytes that are written are numbers.
LEMMA BytesWritten ==
  ASSUME NEW q \in RequestSet, NEW i \in Nat, i > 0
  PROVE  PayloadByte(q, i) \in Nat
<1>1. q.payload \in Seq(Nat)
  BY RequestTypes
<1>2. QED BY <1>1, Sizes DEF PayloadByte

\* Where a write that is done writes.
LEMMA CopiedIs ==
  ASSUME NEW q \in RequestSet, InBounds(q), NEW i \in Copied(q)
  PROVE  /\ i \in Cells /\ i \in Nat /\ Start(q) <= i /\ i < Start(q) + ItemBytes(q)
         /\ i - Start(q) + 1 \in Nat /\ i - Start(q) + 1 > 0
         /\ ~q.wire => i - Start(q) < Len(q.payload)
BY Bounds, Sizes DEF InBounds, Copied, Cells

\* A write keeps the memory a memory, and changes the cells it copies to only.
LEMMA WrittenIs ==
  ASSUME NEW m \in Memories, NEW q \in RequestSet, InBounds(q)
  PROVE  /\ Written(m, q) \in Memories
         /\ \A a \in Areas : \A i \in Cells :
              Written(m, q)[a][i] = IF a = q.area /\ i \in Copied(q)
                                    THEN PayloadByte(q, i - Start(q) + 1) ELSE m[a][i]
<1> DEFINE row == [i \in Cells |-> IF i \in Copied(q) THEN PayloadByte(q, i - Start(q) + 1)
                                   ELSE m[q.area][i]]
<1>1. q.area \in Areas
  BY DEF InBounds
<1>2. \A i \in Copied(q) : PayloadByte(q, i - Start(q) + 1) \in Nat
  BY CopiedIs, BytesWritten
<1>3. row \in [Cells -> Nat]
  BY <1>1, <1>2 DEF Memories
<1>4. \A i \in Cells : row[i] = IF i \in Copied(q) THEN PayloadByte(q, i - Start(q) + 1)
                                ELSE m[q.area][i]
  OBVIOUS
<1>5. Written(m, q) = [m EXCEPT ![q.area] = row]
  BY DEF Written
<1> HIDE DEF row
<1>6. Written(m, q) \in Memories
  BY <1>1, <1>3, <1>5 DEF Memories
<1>7. \A a \in Areas : Written(m, q)[a] = IF a = q.area THEN row ELSE m[a]
  BY <1>1, <1>5 DEF Memories
<1>8. QED BY <1>4, <1>6, <1>7

\* The payload of a write is as long as its access; but for WriteBytes.
LEMMA PayloadLong ==
  ASSUME CallInv, NEW c \in Callers, bit[c] \in 0..1, NEW q \in RequestSet, Asked(c, q),
         Writing(c), call[c].name # "WriteBytes"
  PROVE  ItemBytes(q) <= Len(Payload(c))
<1>1. Payload(c) \in Seq(Nat)
  BY PayloadIs
<1>2. ItemBytes(q) \in Nat /\ Len(Payload(c)) \in Nat
  BY <1>1, Bounds
<1>3. CASE call[c].name \in Twiddles
  <2>1. Len(Payload(c)) = 1 /\ ItemBytes(q) = 1
    BY <1>3, PayloadIs, CountIs, SentAccess DEF BitCalls
  <2>2. QED BY <2>1
<1>4. CASE call[c].name = "WriteWords" \/ call[c].name = "WriteBits"
  <2>1. Len(Payload(c)) = ItemBytes(q)
    BY <1>4, PayloadIs, CountIs, SentAccess DEF BitCalls, Twiddles
  <2>2. QED BY <1>2, <2>1
<1>5. CASE call[c].name = "WriteString"
  <2>1. Len(Payload(c)) = 2 * call[c].n /\ call[c].n \in Nat
    BY <1>5, PayloadIs, CallTypes
  <2>2. ItemBytes(q) <= Size(c)
    BY <1>5, SentSize
  <2>3. Size(c) = 2 * ((call[c].n + 1) \div 2)
    BY <1>5 DEF Size, Twiddles
  <2>4. 2 * ((call[c].n + 1) \div 2) <= 2 * call[c].n
    BY <2>1
  <2>5. QED BY <1>2, <2>1, <2>2, <2>3, <2>4
<1>6. call[c].name \notin Reads
  BY DEF Writing, Name, Reads
<1>7. QED BY <1>3, <1>4, <1>5, <1>6, CallNames DEF Reads, Twiddles

\* A write that is done writes cells of its call with bytes of its call: but for
\* WriteBytes over UDP and a bit whose address wraps.
LEMMA NamedCells ==
  ASSUME CallInv, NEW c \in Callers, bit[c] \in 0..1, try[c] \in Nat,
         NEW q \in RequestSet, Asked(c, q), q.write, Verdict(q) = "ok",
         NEW i \in Copied(q), ~Strays(c)
  PROVE  i \in Named(c) /\ PayloadByte(q, i - Start(q) + 1) # Junk
<1> DEFINE P == Payload(c)
<1>1. /\ InBounds(q) /\ ItemBytes(q) \in Nat
      /\ q.wire => ItemBytes(q) <= q.room
  BY DoneInBounds, Bounds
<1>2. /\ i \in Nat /\ Start(q) <= i /\ i < Start(q) + ItemBytes(q) /\ Start(q) \in Nat
      /\ ~q.wire => i - Start(q) < Len(q.payload)
  BY <1>1, CopiedIs, Bounds
<1>3. Start(q) = First(c) /\ First(c) \in Nat
  BY CallTypes, SentAccess, Sizes DEF Strays, First
<1>4. /\ Writing(c) /\ q.payload = Request(c).payload /\ q.room = Request(c).room
      /\ q.wire <=> kind[c] # "inline"
  BY DEF Asked
<1>5. /\ Len(q.payload) = (IF kind[c] = "udp" /\ Len(P) > UdpRoom THEN UdpRoom ELSE Len(P))
      /\ \A k \in 1..Len(q.payload) : q.payload[k] # Junk
      /\ q.room = IF kind[c] = "udp" THEN UdpRoom ELSE Len(P)
  BY <1>4, RequestIs
<1>6. P \in Seq(Nat) /\ Len(P) \in Nat
  <2>1. P \in Seq(Nat)
    BY <1>4, PayloadIs
  <2>2. QED BY <2>1
<1> HIDE DEF P
<1>7. kind[c] # "udp" \/ call[c].name # "WriteBytes"
  BY DEF Strays
<1>8. call[c].name # "WriteBytes" => ItemBytes(q) <= Len(P)
  BY <1>4, PayloadLong DEF P
<1>9. i - Start(q) < Len(q.payload)
  <2>1. CASE kind[c] = "inline"
    BY <1>2, <1>4, <2>1
  <2>2. CASE kind[c] = "udp"
    <3>1. ItemBytes(q) <= UdpRoom
      BY <1>1, <1>4, <1>5, <2>2
    <3>2. ItemBytes(q) <= Len(P)
      BY <1>7, <1>8, <2>2
    <3>3. Len(q.payload) = IF Len(P) > UdpRoom THEN UdpRoom ELSE Len(P)
      BY <1>5, <2>2
    <3>4. ItemBytes(q) <= Len(q.payload)
      BY <1>1, <1>6, <3>1, <3>2, <3>3, Sizes
    <3>5. QED BY <1>1, <1>2, <1>6, <3>3, <3>4, Sizes
  <2>3. CASE kind[c] = "tcp"
    <3>1. q.room = Len(P) /\ Len(q.payload) = Len(P) /\ ItemBytes(q) <= q.room
      BY <1>1, <1>4, <1>5, <2>3
    <3>2. QED BY <1>1, <1>2, <1>6, <3>1
  <2>4. QED BY <2>1, <2>2, <2>3 DEF CallInv
<1>10. PayloadByte(q, i - Start(q) + 1) # Junk
  <2>1. i - Start(q) + 1 \in 1..Len(q.payload)
    BY <1>2, <1>9, RequestTypes
  <2>2. QED BY <1>5, <2>1 DEF PayloadByte
<1>11. i - Start(q) < Size(c)
  <2>1. CASE call[c].name # "WriteBytes"
    BY <1>1, <1>2, <2>1, SentSize
  <2>2. CASE call[c].name = "WriteBytes"
    <3>1. Size(c) = call[c].n /\ Len(P) = call[c].n
      BY <1>4, <2>2, SentSize, PayloadIs DEF P
    <3>2. QED BY <1>5, <1>6, <1>7, <1>9, <2>2, <3>1
  <2>3. QED BY <2>1, <2>2
<1>12. i \in Named(c)
  BY <1>2, <1>3, <1>11, SentSize DEF Named
<1>13. QED BY <1>10, <1>12

\* A call that fits ends no process at the simulator, but for WriteBytes over a
\* network.
LEMMA FitsNoPanic ==
  ASSUME CallInv, NEW c \in Callers, bit[c] \in 0..1, try[c] \in Nat,
         NEW q \in RequestSet, Asked(c, q), Verdict(q) = "panic", Fits(c)
  PROVE  call[c].name = "WriteBytes" /\ kind[c] # "inline"
<1>1. /\ First(c) \in Nat /\ Size(c) \in Nat /\ First(c) + Size(c) <= AreaSize
      /\ ItemBytes(q) \in Nat
  BY CallTypes, SentSize, Bounds DEF First, Fits
<1>2. q.wire <=> kind[c] # "inline"
  BY DEF Asked
<1>3. Start(q) = First(c) /\ q.area \in Areas
  BY <1>1, SentAccess, Sizes
<1>4. ~InBounds(q) \/ (q.write /\ q.wire /\ ~(PayloadEnd(q) \in PayloadAt..(PayloadAt + q.room)))
  BY <1>3, Bounds DEF Verdict, InBounds
<1>5. End(q) <= AreaSize \/ (q.write /\ q.wire)
  BY <1>3, Bounds, Sizes DEF Verdict
<1>6. CASE call[c].name # "WriteBytes"
  <2>1. ItemBytes(q) = Size(c)
    BY <1>1, <1>6, SentSize, Sizes
  <2>2. InBounds(q)
    BY <1>1, <1>3, <2>1, Bounds, Sizes DEF InBounds
  <2>3. PayloadEnd(q) = PayloadAt + ItemBytes(q)
    BY <1>1, <2>1, Wraps, Sizes DEF PayloadEnd
  <2>4. ASSUME q.write, q.wire PROVE ItemBytes(q) <= q.room
    <3>1. Writing(c) /\ q.room = Request(c).room
      BY <2>4 DEF Asked
    <3>2. q.room = IF kind[c] = "udp" THEN UdpRoom ELSE Len(Payload(c))
      BY <3>1, RequestIs
    <3>3. call[c].name \notin Reads
      BY <3>1 DEF Writing, Name, Reads
    <3>4. kind[c] = "udp" => Size(c) <= UdpRoom
      BY <3>3 DEF Fits
    <3>5. ItemBytes(q) <= Len(Payload(c))
      BY <1>6, <3>1, PayloadLong
    <3>6. QED BY <2>1, <3>2, <3>4, <3>5
  <2>5. q.room \in Nat
    BY RequestTypes
  <2>6. QED BY <1>1, <1>4, <2>2, <2>3, <2>4, <2>5, Sizes
<1>7. CASE call[c].name = "WriteBytes" /\ kind[c] = "inline"
  <2>1. Size(c) = call[c].n /\ call[c].n \in Nat
    BY <1>7, CallTypes, SentSize
  <2>2. ~InBounds(q) /\ End(q) <= AreaSize
    BY <1>2, <1>4, <1>5, <1>7
  <2>3. /\ 2 * call[c].n < Wrap => ItemBytes(q) = 2 * call[c].n
        /\ 2 * call[c].n = Wrap => ItemBytes(q) = 0
    BY <1>7, SentSize
  <2>4. Start(q) + ItemBytes(q) < Wrap
    BY <1>1, <1>3, <2>1, <2>3, Sizes
  <2>5. InBounds(q)
    BY <1>1, <1>3, <2>2, <2>4, Bounds DEF InBounds
  <2>6. QED BY <2>2, <2>5
<1>8. QED BY <1>6, <1>7 DEF CallInv

\* What a read of the memory returns.
LEMMA DataIs ==
  ASSUME NEW m \in Memories, NEW q \in RequestSet, InBounds(q)
  PROVE  /\ Data(m, q) \in Seq(Nat) /\ Len(Data(m, q)) = ItemBytes(q)
         /\ \A i \in 1..ItemBytes(q) : Data(m, q)[i] = m[q.area][Start(q) + i - 1]
<1>1. /\ Start(q) \in Nat /\ ItemBytes(q) \in Nat /\ End(q) - Start(q) = ItemBytes(q)
      /\ Start(q) + ItemBytes(q) <= AreaSize /\ q.area \in Areas
  BY Bounds DEF InBounds
<1>2. \A i \in 1..ItemBytes(q) : Start(q) + i - 1 \in Cells
  BY <1>1, Sizes DEF Cells
<1>3. \A i \in 1..ItemBytes(q) : m[q.area][Start(q) + i - 1] \in Nat
  BY <1>1, <1>2 DEF Memories
<1>4. Data(m, q) = [i \in 1..ItemBytes(q) |-> m[q.area][Start(q) + i - 1]]
  BY <1>1, SMTT(30) DEF Data
<1>5. QED BY <1>1, <1>3, <1>4

--------------------------------------------------------------------------------
(* Chains of interceptors *)

Distinct(s) == \A i, j \in DOMAIN s :
                 s[i] = s[j] \/ {s[i], s[j]} \subseteq Retriers => i = j

\* A chain is cut behind its retrier, or before everything if it has none.
LEMMA ChainCut ==
  ASSUME NEW s \in Seq(Names)
  PROVE  /\ RetryAt(s) \in 0..Len(s) /\ Len(s) \in Nat
         /\ Len(Outer(s)) = RetryAt(s) /\ Len(Inner(s)) = Len(s) - RetryAt(s)
         /\ Outer(s) \in Seq(Names) /\ Inner(s) \in Seq(Names)
         /\ DOMAIN s = 1..Len(s) /\ DOMAIN Outer(s) = 1..RetryAt(s)
         /\ DOMAIN Inner(s) = 1..(Len(s) - RetryAt(s))
         /\ \A i \in 1..RetryAt(s) : Outer(s)[i] = s[i]
         /\ \A i \in 1..(Len(s) - RetryAt(s)) : Inner(s)[i] = s[RetryAt(s) + i]
<1> DEFINE Ok(k) == IF \E i \in Retriers : In(i, s) THEN k > 0 /\ s[k] \in Retriers ELSE k = 0
           R == CHOOSE k \in 0..Len(s) : Ok(k)
<1>1. Len(s) \in Nat /\ DOMAIN s = 1..Len(s)
  OBVIOUS
<1>2. \E k \in 0..Len(s) : Ok(k)
  <2>1. CASE \E i \in Retriers : In(i, s)
    <3>1. PICK k \in DOMAIN s : s[k] \in Retriers
      BY <2>1 DEF In
    <3>2. k \in 0..Len(s) /\ k > 0
      BY <1>1
    <3>3. QED BY <2>1, <3>1, <3>2
  <2>2. CASE ~\E i \in Retriers : In(i, s)
    <3>1. 0 \in 0..Len(s)
      BY <1>1
    <3>2. QED BY <2>2, <3>1
  <2>3. QED BY <2>1, <2>2
<1>3. R \in 0..Len(s)
  <2> HIDE DEF Ok
  <2>1. QED BY <1>2
<1>4. RetryAt(s) = R
  BY DEF RetryAt
<1> HIDE DEF R
<1>5. /\ Outer(s) = SubSeq(s, 1, R) /\ Inner(s) = SubSeq(s, R + 1, Len(s))
  BY <1>4 DEF Outer, Inner
<1>6. /\ SubSeq(s, 1, R) \in Seq(Names) /\ Len(SubSeq(s, 1, R)) = R
      /\ \A i \in 1..R : SubSeq(s, 1, R)[i] = s[i]
  BY <1>1, <1>3
<1>7. /\ SubSeq(s, R + 1, Len(s)) \in Seq(Names) /\ Len(SubSeq(s, R + 1, Len(s))) = Len(s) - R
      /\ \A i \in 1..(Len(s) - R) : SubSeq(s, R + 1, Len(s))[i] = s[R + i]
  <2>1. \A i \in R + 1..Len(s) : i \in 1..Len(s)
    BY <1>1, <1>3
  <2>2. R \in Nat /\ R + 1 \in Nat /\ R + 1 <= Len(s) + 1
    BY <1>1, <1>3
  <2>3. /\ SubSeq(s, R + 1, Len(s)) \in Seq(Names)
        /\ Len(SubSeq(s, R + 1, Len(s))) = (IF R + 1 <= Len(s) THEN Len(s) - (R + 1) + 1 ELSE 0)
        /\ \A i \in 1..(Len(s) - (R + 1) + 1) : SubSeq(s, R + 1, Len(s))[i] = s[(R + 1) + i - 1]
    BY <1>1, <2>1, <2>2, SubSeqProperties
  <2> DEFINE u == SubSeq(s, R + 1, Len(s))
             n == Len(s)
  <2>4. n \in Nat /\ R <= n
    BY <1>1, <1>3
  <2>5. /\ u \in Seq(Names) /\ Len(u) = (IF R + 1 <= n THEN n - (R + 1) + 1 ELSE 0)
        /\ \A i \in 1..(n - (R + 1) + 1) : u[i] = s[(R + 1) + i - 1]
    BY ONLY <2>3
  <2> HIDE DEF u, n
  <2>6. Len(u) = n - R
    BY ONLY <2>2, <2>4, <2>5
  <2>7. ASSUME NEW i \in 1..(n - R) PROVE u[i] = s[R + i]
    <3>1. i \in 1..(n - (R + 1) + 1) /\ (R + 1) + i - 1 = R + i
      BY ONLY <2>2, <2>4
    <3>2. QED BY ONLY <2>5, <3>1, SMT
  <2>8. QED BY ONLY <2>5, <2>6, <2>7, Zenon DEF u, n
<1>8. ASSUME NEW t \in Seq(Names) PROVE DOMAIN t = 1..Len(t)
  BY ONLY LenProperties
<1>9. QED BY <1>1, <1>3, <1>4, <1>5, <1>6, <1>7, <1>8

\* Who is admitted by both parts is by the whole.
LEMMA AdmittedParts ==
  ASSUME NEW s \in Seq(Names), NEW info
  PROVE  Admitted(s, info) <=> Admitted(Outer(s), info) /\ Admitted(Inner(s), info)
<1> DEFINE R == RetryAt(s)
<1>1. /\ R \in 0..Len(s) /\ Len(s) \in Nat /\ DOMAIN s = 1..Len(s)
      /\ DOMAIN Outer(s) = 1..R /\ DOMAIN Inner(s) = 1..(Len(s) - R)
      /\ \A i \in 1..R : Outer(s)[i] = s[i]
      /\ \A i \in 1..(Len(s) - R) : Inner(s)[i] = s[R + i]
  BY ChainCut
<1> HIDE DEF R
<1>2. \A i \in 1..R : i \in 1..Len(s)
  BY <1>1
<1>3. \A i \in 1..(Len(s) - R) : R + i \in 1..Len(s)
  BY <1>1
<1>4. ASSUME Admitted(s, info) PROVE Admitted(Outer(s), info) /\ Admitted(Inner(s), info)
  BY <1>1, <1>2, <1>3, <1>4 DEF Admitted
<1>5. ASSUME Admitted(Outer(s), info), Admitted(Inner(s), info) PROVE Admitted(s, info)
  <2>1. SUFFICES ASSUME NEW k \in 1..Len(s) PROVE Admits(s[k], info)
    BY <1>1 DEF Admitted
  <2>2. CASE k <= R
    <3>1. k \in 1..R
      BY <1>1, <2>2
    <3>2. QED BY <1>1, <1>5, <3>1 DEF Admitted
  <2>3. CASE k > R
    <3>1. k - R \in 1..(Len(s) - R) /\ R + (k - R) = k
      BY <1>1, <2>3
    <3>2. Inner(s)[k - R] = s[k]
      BY <1>1, <3>1
    <3>3. QED BY <1>1, <1>5, <3>1, <3>2 DEF Admitted
  <2>4. k <= R \/ k > R
    BY <1>1
  <2>5. QED BY <2>2, <2>3, <2>4
<1>6. QED BY <1>4, <1>5

\* An interceptor of a chain that admits admits.
LEMMA AdmittedBy ==
  ASSUME NEW s, NEW info, NEW i, Admitted(s, info), In(i, s)
  PROVE  Admits(i, info)
BY DEF Admitted, In

\* A collector in the chain is around the retries or within them.
LEMMA CollectorAt ==
  ASSUME NEW s \in Seq(Names), Distinct(s), NEW info
  PROVE  /\ In("metrics", s) /\ Admitted(s, info) =>
              Reaches("metrics", Outer(s), info) \/ Reaches("metrics", Inner(s), info)
         /\ ~(Reaches("metrics", Outer(s), info) /\ Reaches("metrics", Inner(s), info))
<1> DEFINE R == RetryAt(s)
<1>1. /\ R \in 0..Len(s) /\ Len(s) \in Nat /\ DOMAIN s = 1..Len(s)
      /\ DOMAIN Outer(s) = 1..R /\ DOMAIN Inner(s) = 1..(Len(s) - R)
      /\ \A i \in 1..R : Outer(s)[i] = s[i]
      /\ \A i \in 1..(Len(s) - R) : Inner(s)[i] = s[R + i]
  BY ChainCut
<1> HIDE DEF R
<1>2. ASSUME In("metrics", s), Admitted(s, info)
      PROVE  Reaches("metrics", Outer(s), info) \/ Reaches("metrics", Inner(s), info)
  <2>1. PICK k \in 1..Len(s) : s[k] = "metrics"
    BY <1>1, <1>2 DEF In
  <2>2. Admitted(Outer(s), info) /\ Admitted(Inner(s), info)
    BY <1>2, AdmittedParts
  <2>3. CASE k <= R
    <3>1. k \in 1..R /\ \A j \in 1..(k - 1) : j \in 1..R
      BY <1>1, <2>3
    <3>2. QED BY <1>1, <2>1, <2>2, <3>1 DEF Reaches, Admitted
  <2>4. CASE k > R
    <3>1. /\ k - R \in 1..(Len(s) - R) /\ R + (k - R) = k
          /\ \A j \in 1..((k - R) - 1) : j \in 1..(Len(s) - R)
      BY <1>1, <2>4
    <3>2. Inner(s)[k - R] = "metrics"
      BY <1>1, <2>1, <3>1
    <3>3. QED BY <1>1, <2>2, <3>1, <3>2 DEF Reaches, Admitted
  <2>5. k <= R \/ k > R
    BY <1>1
  <2>6. QED BY <2>3, <2>4, <2>5
<1>3. ASSUME Reaches("metrics", Outer(s), info), Reaches("metrics", Inner(s), info)
      PROVE  FALSE
  <2>1. PICK i \in 1..R : Outer(s)[i] = "metrics"
    BY <1>1, <1>3 DEF Reaches
  <2>2. PICK j \in 1..(Len(s) - R) : Inner(s)[j] = "metrics"
    BY <1>1, <1>3 DEF Reaches
  <2>3. i \in DOMAIN s /\ R + j \in DOMAIN s /\ i # R + j
    BY <1>1
  <2>4. s[i] = "metrics" /\ s[R + j] = "metrics"
    BY <1>1, <2>1, <2>2
  <2>5. QED BY <2>3, <2>4 DEF Distinct
<1>4. QED BY <1>2, <1>3

\* How often is tried again.
LEMMA Retries ==
  ASSUME NEW s \in Seq(Names)
  PROVE  /\ RetriesOf(s) \in Nat /\ RetriesOf(s) <= MaxRetries
         /\ <<>> \in Seq(Names) /\ RetriesOf(<<>>) = 0
         /\ \A info : Admitted(<<>>, info)
<1>1. <<>> \in Seq(Names) /\ Len(<<>>) = 0 /\ DOMAIN <<>> = {}
  OBVIOUS
<1>2. RetryAt(<<>>) = 0
  <2>1. RetryAt(<<>>) \in 0..0
    BY <1>1, ChainCut
  <2>2. QED BY <2>1
<1>3. QED BY <1>1, <1>2, Sizes DEF RetriesOf, Admitted

================================================================================
