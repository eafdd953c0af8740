------------------------------- MODULE CodecProofs -------------------------------
(***************************************************************************)
(* Proofs about the codec: what is encoded is decoded to itself, for every    *)
(* header, command, frame and date of the encoders' domains.                  *)
(***************************************************************************)
EXTENDS Codec, FiniteSetTheorems, SequenceTheorems, TLAPS

--------------------------------------------------------------------------------
(* Sequences *)

\* The sequence w is s and then t: what it is cut into.
Join(w, s, t) ==
  /\ w \in Seq(Nat) /\ Len(w) = Len(s) + Len(t)
  /\ \A i \in 1..Len(s) : w[i] = s[i]
  /\ \A i \in 1..Len(t) : w[Len(s) + i] = t[i]
  /\ \A i, j \in Nat : 1 <= i /\ j <= Len(s) => SubSeq(w, i, j) = SubSeq(s, i, j)
  /\ \A i, j \in Nat : 1 <= i /\ j <= Len(t) =>
       SubSeq(w, Len(s) + i, Len(s) + j) = SubSeq(t, i, j)
  /\ SubSeq(w, 1, Len(s)) = s /\ From(w, Len(s) + 1) = t

\* Two sequences in a row.
LEMMA Joined ==
  ASSUME NEW s \in Seq(Nat), NEW t \in Seq(Nat)
  PROVE  Join(s \o t, s, t)
<1>1. /\ s \o t \in Seq(Nat) /\ Len(s \o t) = Len(s) + Len(t)
  BY ConcatProperties
<1>2. \A i \in 1..Len(s) : (s \o t)[i] = s[i]
  BY ConcatProperties
<1>3. ASSUME NEW i \in 1..Len(t) PROVE (s \o t)[Len(s) + i] = t[i]
  <2>1. Len(s) \in Nat /\ Len(t) \in Nat
    OBVIOUS
  <2>2. /\ Len(s) + i \in 1..(Len(s) + Len(t)) /\ ~(Len(s) + i <= Len(s))
        /\ Len(s) + i - Len(s) = i
    BY <2>1
  <2>3. QED BY <2>2, ConcatProperties
<1>4. \A i, j \in Nat : 1 <= i /\ j <= Len(s) => SubSeq(s \o t, i, j) = SubSeq(s, i, j)
  OBVIOUS
<1>5. ASSUME NEW i \in Nat, NEW j \in Nat, 1 <= i, j <= Len(t)
      PROVE  SubSeq(s \o t, Len(s) + i, Len(s) + j) = SubSeq(t, i, j)
  <2> DEFINE w == s \o t
  <2>1. w \in Seq(Nat) /\ Len(w) = Len(s) + Len(t) /\ Len(s) \in Nat /\ Len(t) \in Nat
    BY <1>1
  <2>2. \A k \in 1..Len(t) : w[Len(s) + k] = t[k]
    BY <1>3
  <2> HIDE DEF w
  <2> DEFINE n == IF i <= j THEN j - i + 1 ELSE 0
  <2> HIDE DEF n
  <2>3. /\ SubSeq(w, Len(s) + i, Len(s) + j) \in Seq(Nat) /\ SubSeq(t, i, j) \in Seq(Nat)
        /\ Len(SubSeq(w, Len(s) + i, Len(s) + j)) = Len(SubSeq(t, i, j))
        /\ Len(SubSeq(t, i, j)) = n
    <3>1. SubSeq(t, i, j) \in Seq(Nat) /\ Len(SubSeq(t, i, j)) = n
      BY <1>5 DEF n
    <3>2. SubSeq(w, Len(s) + i, Len(s) + j) \in Seq(Nat)
      BY <1>5, <2>1, SMTT(30)
    <3>3. Len(s) + i \in Nat /\ Len(s) + j \in Nat
      BY <1>5, <2>1
    <3>4. ASSUME i <= j PROVE Len(SubSeq(w, Len(s) + i, Len(s) + j)) = n
      <4>1. /\ Len(s) + i <= Len(s) + j /\ 1 <= Len(s) + i /\ Len(s) + j <= Len(w)
            /\ Len(s) + j - (Len(s) + i) + 1 = n
        BY <1>5, <2>1, <3>4 DEF n
      <4>2. Len(SubSeq(w, Len(s) + i, Len(s) + j)) = Len(s) + j - (Len(s) + i) + 1
        BY <2>1, <3>3, <4>1
      <4>3. QED BY <4>1, <4>2
    <3>5. ASSUME ~(i <= j) PROVE Len(SubSeq(w, Len(s) + i, Len(s) + j)) = n
      <4>1. ~(Len(s) + i <= Len(s) + j) /\ n = 0
        BY <1>5, <2>1, <3>5 DEF n
      <4>2. Len(SubSeq(w, Len(s) + i, Len(s) + j)) = 0
        BY <2>1, <3>3, <4>1
      <4>3. QED BY <4>1, <4>2
    <3>6. Len(SubSeq(w, Len(s) + i, Len(s) + j)) = n
      BY <3>4, <3>5
    <3>7. QED BY ONLY <3>1, <3>2, <3>6, Zenon
  <2>4. ASSUME NEW k \in 1..Len(SubSeq(t, i, j))
        PROVE  SubSeq(w, Len(s) + i, Len(s) + j)[k] = SubSeq(t, i, j)[k]
    <3>1. k \in Nat /\ 1 <= k /\ k <= j - i + 1 /\ i + k - 1 \in 1..Len(t)
      BY <1>5, <2>1, <2>3 DEF n
    <3>2. SubSeq(t, i, j)[k] = t[i + k - 1]
      BY <1>5, <3>1, SMTT(30)
    <3>3. SubSeq(w, Len(s) + i, Len(s) + j)[k] = w[Len(s) + (i + k - 1)]
      BY <1>5, <2>1, <3>1
    <3>4. QED BY <2>2, <3>1, <3>2, <3>3
  <2>5. QED BY <2>3, <2>4, SeqEqual DEF w
<1>6. SubSeq(s \o t, 1, Len(s)) = s /\ From(s \o t, Len(s) + 1) = t
  BY <1>1 DEF From
<1>7. QED BY <1>1, <1>2, <1>3, <1>4, <1>5, <1>6 DEF Join

\* What is cut from w behind s is cut from t.
CutAfter(w, s, t, i, j) == SubSeq(w, Len(s) + i, Len(s) + j) = SubSeq(t, i, j)

\* So it is with two sequences in a row.
LEMMA CutSecond ==
  ASSUME NEW w, NEW s, NEW t, Join(w, s, t),
         NEW i \in Nat, NEW j \in Nat, 1 <= i, j <= Len(t)
  PROVE  CutAfter(w, s, t, i, j)
BY Zenon DEF Join, CutAfter

\* However they are grouped.
LEMMA Regrouped ==
  ASSUME NEW s \in Seq(Nat), NEW t \in Seq(Nat), NEW u \in Seq(Nat)
  PROVE  s \o t \o u = s \o (t \o u)
BY SMTT(30)

\* Three sequences in a row.
Parts(w, s, t, u) ==
  /\ w \in Seq(Nat) /\ Len(w) = Len(s) + Len(t) + Len(u)
  /\ SubSeq(w, 1, Len(s)) = s
  /\ SubSeq(w, Len(s) + 1, Len(s) + Len(t)) = t
  /\ From(w, Len(s) + Len(t) + 1) = u
  /\ From(w, Len(s) + 1) = t \o u

\* They are cut into the three.
LEMMA Parted ==
  ASSUME NEW s \in Seq(Nat), NEW t \in Seq(Nat), NEW u \in Seq(Nat)
  PROVE  Parts(s \o t \o u, s, t, u)
<1> DEFINE v == s \o t
           w == v \o u
<1>1. Join(v, s, t)
  BY Joined
<1>2. w = s \o (t \o u)
  BY ConcatAssociative, SMTT(30)
<1>3. Join(w, s, t \o u)
  <2>1. t \o u \in Seq(Nat)
    BY ConcatProperties
  <2>2. QED BY <1>2, <2>1, Joined
<1>4. v \in Seq(Nat) /\ Len(v) = Len(s) + Len(t)
  BY <1>1 DEF Join
<1> HIDE DEF v
<1>5. Join(w, v, u)
  BY <1>4, Joined
<1> HIDE DEF w
<1>6. Len(s) \in Nat /\ Len(t) \in Nat /\ Len(u) \in Nat
  OBVIOUS
<1>7. SubSeq(v, 1, Len(s)) = s /\ SubSeq(v, Len(s) + 1, Len(v)) = t
  BY <1>1 DEF Join, From
<1>8. \A i, j \in Nat : 1 <= i /\ j <= Len(v) => SubSeq(w, i, j) = SubSeq(v, i, j)
  BY <1>5 DEF Join
<1>9. SubSeq(w, 1, Len(s)) = s /\ SubSeq(w, Len(s) + 1, Len(s) + Len(t)) = t
  <2>1. 1 \in Nat /\ Len(s) \in Nat /\ 1 <= 1 /\ Len(s) <= Len(v)
    BY <1>4, <1>6
  <2>2. Len(s) + 1 \in Nat /\ Len(v) \in Nat /\ 1 <= Len(s) + 1 /\ Len(v) <= Len(v)
    BY <1>4, <1>6
  <2>3. SubSeq(w, 1, Len(s)) = SubSeq(v, 1, Len(s))
    BY ONLY <2>1, <1>8, Zenon
  <2>4. SubSeq(w, Len(s) + 1, Len(v)) = SubSeq(v, Len(s) + 1, Len(v))
    BY ONLY <2>2, <1>8, Zenon
  <2>5. QED BY <1>4, <1>7, <2>3, <2>4
<1>10. w \in Seq(Nat) /\ Len(w) = Len(s) + Len(t) + Len(u)
  BY <1>4, <1>5 DEF Join
<1>11. From(w, Len(s) + Len(t) + 1) = u
  BY <1>4, <1>5 DEF Join
<1>12. From(w, Len(s) + 1) = t \o u
  BY <1>3 DEF Join
<1>13. QED BY <1>9, <1>10, <1>11, <1>12 DEF Parts, v, w

\* Pairs and triples of numbers.
LEMMA Tuples ==
  ASSUME NEW x \in Nat, NEW y \in Nat, NEW z \in Nat
  PROVE  /\ <<x>> \in Seq(Nat) /\ Len(<<x>>) = 1 /\ <<x>>[1] = x
         /\ <<x, y>> \in Seq(Nat) /\ Len(<<x, y>>) = 2
         /\ <<x, y, z>> \in Seq(Nat) /\ Len(<<x, y, z>>) = 3
OBVIOUS

\* A number in two bytes, and in four.
LEMMA Numbers ==
  ASSUME NEW x \in Nat, x <= 65535
  PROVE  /\ Uint16(x) \in Seq(Nat) /\ Len(Uint16(x)) = 2 /\ Value(Uint16(x)) = x
         /\ Uint32(x) \in Seq(Nat) /\ Len(Uint32(x)) = 4 /\ Value(Uint32(x)) = x
<1> DEFINE hi == (x \div 256) % 256
           lo == x % 256
<1>1. hi \in Nat /\ lo \in Nat /\ 256 * hi + lo = x
  OBVIOUS
<1>2. Uint16(x) = <<hi, lo>>
  BY DEF Uint16
<1> HIDE DEF hi, lo
<1>3. Uint16(x) \in Seq(Nat) /\ Len(Uint16(x)) = 2 /\ Value(Uint16(x)) = x
  BY <1>1, <1>2 DEF Value
<1>4. /\ Uint32(x) \in Seq(Nat) /\ Len(Uint32(x)) = 4
      /\ Uint32(x)[3] = Uint16(x)[1] /\ Uint32(x)[4] = Uint16(x)[2]
  <2> DEFINE z == <<0, 0>>
             u == Uint16(x)
             w == Uint32(x)
  <2>1. z \in Seq(Nat) /\ Len(z) = 2 /\ u \in Seq(Nat) /\ Len(u) = 2
    BY <1>3, Tuples
  <2>2. w = z \o u
    BY DEF Uint32
  <2> HIDE DEF z, u, w
  <2>3. Join(w, z, u)
    BY <2>1, <2>2, Joined
  <2>4. Len(w) = Len(z) + Len(u) /\ \A i \in 1..Len(u) : w[Len(z) + i] = u[i]
    BY <2>3 DEF Join
  <2>5. w \in Seq(Nat)
    BY <2>3 DEF Join
  <2>6. Len(w) = 4 /\ w[3] = u[1] /\ w[4] = u[2]
    BY <2>1, <2>4
  <2>7. QED BY <2>5, <2>6 DEF u, w
<1>5. Value(Uint32(x)) = x
  BY <1>1, <1>2, <1>4 DEF Value
<1>6. QED BY <1>3, <1>4, <1>5

--------------------------------------------------------------------------------
(* Headers *)

\* An address is three bytes.
LEMMA AddressIs ==
  ASSUME NEW x \in Addresses
  PROVE  x \in Seq(Nat) /\ Len(x) = 3
<1>1. x = <<x[1], x[2], x[3]>> /\ x[1] \in Nat /\ x[2] \in Nat /\ x[3] \in Nat
  BY DEF Addresses, Byte
<1>2. QED BY <1>1, Tuples

\* Three triples and a byte, and where they are.
TenParts(b, s, t, u, z) ==
  /\ b \in Seq(Nat) /\ Len(b) = 10 /\ b[1] = s[1] /\ b[3] = s[3] /\ b[10] = z[1]
  /\ SubSeq(b, 4, 6) = t /\ SubSeq(b, 7, 9) = u

\* A header is built of them.
LEMMA TenBytes ==
  ASSUME NEW s \in Seq(Nat), NEW t \in Seq(Nat), NEW u \in Seq(Nat), NEW z \in Seq(Nat),
         Len(s) = 3, Len(t) = 3, Len(u) = 3, Len(z) = 1
  PROVE  TenParts(s \o t \o u \o z, s, t, u, z)
<1> DEFINE w == s \o t \o u
           b == w \o z
<1>1. Parts(w, s, t, u)
  BY Parted
<1> HIDE DEF w
<1>2. w \in Seq(Nat) /\ Len(w) = 9
  BY <1>1 DEF Parts
<1>3. SubSeq(w, 1, 3) = s /\ SubSeq(w, 4, 6) = t
  BY <1>1 DEF Parts
<1>4. SubSeq(w, 7, 9) = u
  BY <1>1, <1>2 DEF Parts, From
<1>5. w[1] = s[1] /\ w[3] = s[3]
  <2>1. SubSeq(w, 1, 3)[1] = w[1] /\ SubSeq(w, 1, 3)[3] = w[3]
    BY <1>2
  <2>2. QED BY <1>3, <2>1
<1>6. Join(b, w, z)
  BY <1>2, Joined
<1> HIDE DEF b
<1>7. b \in Seq(Nat) /\ Len(b) = 10
  BY <1>2, <1>6 DEF Join
<1>8. b[1] = w[1] /\ b[3] = w[3]
  <2>1. \A i \in 1..9 : b[i] = w[i]
    BY <1>2, <1>6 DEF Join
  <2>2. 1 \in 1..9 /\ 3 \in 1..9
    OBVIOUS
  <2>3. QED BY ONLY <2>1, <2>2, Zenon
<1>9. b[10] = z[1]
  <2>1. \A i \in 1..1 : b[9 + i] = z[i]
    BY <1>2, <1>6 DEF Join
  <2>2. 1 \in 1..1 /\ 9 + 1 = 10
    OBVIOUS
  <2>3. b[9 + 1] = z[1]
    BY ONLY <2>1, <2>2, Zenon
  <2>4. QED BY ONLY <2>2, <2>3, Zenon
<1>10. \A i, j \in Nat : 1 <= i /\ j <= 9 => SubSeq(b, i, j) = SubSeq(w, i, j)
  BY <1>2, <1>6 DEF Join
<1>11. SubSeq(b, 4, 6) = SubSeq(w, 4, 6) /\ SubSeq(b, 7, 9) = SubSeq(w, 7, 9)
  <2>1. 1 <= 4 /\ 6 <= 9 /\ 4 \in Nat /\ 6 \in Nat /\ 1 <= 7 /\ 9 <= 9 /\ 7 \in Nat /\ 9 \in Nat
    OBVIOUS
  <2>2. QED BY ONLY <1>10, <2>1, Zenon
<1>12. QED BY <1>3, <1>4, <1>5, <1>7, <1>8, <1>9, <1>11 DEF TenParts, b, w

\* A header is ten bytes, with its fields in their places.
LEMMA HeaderIs ==
  ASSUME NEW h, h.dst \in Addresses, h.src \in Addresses, h.serviceID \in Nat, h.gatewayCount \in Nat
  PROVE  LET b == EncodeHeader(h)
         IN /\ b \in Seq(Nat) /\ Len(b) = HeaderSize
            /\ b[1] = 128 + (IF h.responseRequired THEN 0 ELSE 1)
                         + (IF h.messageType = Response THEN 64 ELSE 0)
            /\ b[3] = h.gatewayCount /\ b[10] = h.serviceID
            /\ SubSeq(b, 4, 6) = h.dst /\ SubSeq(b, 7, 9) = h.src
<1> DEFINE first == 128 + (IF h.responseRequired THEN 0 ELSE 1)
                      + (IF h.messageType = Response THEN 64 ELSE 0)
           front == <<first, 0, h.gatewayCount>>
<1>1. first \in Nat
  OBVIOUS
<1> HIDE DEF first
<1> DEFINE last == <<h.serviceID>>
<1>2. /\ front \in Seq(Nat) /\ Len(front) = 3 /\ front[1] = first /\ front[3] = h.gatewayCount
      /\ h.dst \in Seq(Nat) /\ Len(h.dst) = 3 /\ h.src \in Seq(Nat) /\ Len(h.src) = 3
      /\ last \in Seq(Nat) /\ Len(last) = 1 /\ last[1] = h.serviceID
  BY <1>1, AddressIs, Tuples
<1>3. EncodeHeader(h) = front \o h.dst \o h.src \o last
  BY DEF EncodeHeader, first
<1> HIDE DEF front, last
<1>4. TenParts(EncodeHeader(h), front, h.dst, h.src, last)
  BY <1>2, <1>3, TenBytes
<1>5. QED BY <1>2, <1>4 DEF TenParts, first, HeaderSize

\* The headers that the constructors build are read back.
LEMMA HeaderRead ==
  ASSUME NEW h \in Headers, h.messageType = IF h.responseRequired THEN Command ELSE Response
  PROVE  DecodeHeader(EncodeHeader(h)) = h
<1> DEFINE b == EncodeHeader(h)
<1>1. h.dst \in Addresses /\ h.src \in Addresses /\ h.serviceID \in Nat /\ h.gatewayCount \in Nat
  BY DEF Headers, Byte
<1>2. /\ b[1] = 128 + (IF h.responseRequired THEN 0 ELSE 1)
                  + (IF h.messageType = Response THEN 64 ELSE 0)
      /\ b[3] = h.gatewayCount /\ b[10] = h.serviceID
      /\ SubSeq(b, 4, 6) = h.dst /\ SubSeq(b, 7, 9) = h.src
  BY <1>1, HeaderIs
<1> HIDE DEF b
<1>3. h.responseRequired \in BOOLEAN
  BY DEF Headers
<1>4. (b[1] % 2 = 0) = h.responseRequired
  BY <1>2, <1>3 DEF Command, Response
<1>5. DecodeHeader(b) = [messageType |-> IF h.responseRequired THEN Command ELSE Response,
        responseRequired |-> h.responseRequired, gatewayCount |-> h.gatewayCount,
        dst |-> h.dst, src |-> h.src, serviceID |-> h.serviceID]
  BY <1>2, <1>4 DEF DecodeHeader
<1>6. QED BY <1>3, <1>5 DEF b, Headers

\* Default headers are headers; what is sent is read back, and answered to its sender.
THEOREM HeadersRead == HeadersExact
<1>1. SUFFICES ASSUME NEW src \in Nodes, NEW dst \in Nodes, NEW sid \in Sids
      PROVE  LET h == DefaultCommandHeader(src, dst, sid)
                 r == DefaultResponseHeader(h)
             IN /\ DecodeHeader(EncodeHeader(h)) = h
                /\ DecodeHeader(EncodeHeader(r)) = r
                /\ r.dst = src /\ r.src = dst /\ r.serviceID = sid
  BY DEF HeadersExact
<1> DEFINE h == DefaultCommandHeader(src, dst, sid)
           r == DefaultResponseHeader(h)
<1>2. src \in Addresses /\ dst \in Addresses /\ sid \in Byte
  BY InputsAssumption
<1>3. h \in Headers /\ h.responseRequired = TRUE /\ h.messageType = Command
  BY <1>2 DEF DefaultCommandHeader, DefaultHeader, Headers, Byte
<1>4. r \in Headers /\ r.responseRequired = FALSE /\ r.messageType = Response
  BY <1>2 DEF DefaultCommandHeader, DefaultResponseHeader, DefaultHeader, Headers, Byte
<1>5. r.dst = src /\ r.src = dst /\ r.serviceID = sid
  BY DEF DefaultCommandHeader, DefaultResponseHeader, DefaultHeader
<1> HIDE DEF h, r
<1>6. DecodeHeader(EncodeHeader(h)) = h /\ DecodeHeader(EncodeHeader(r)) = r
  BY <1>3, <1>4, HeaderRead
<1>7. QED BY <1>5, <1>6 DEF h, r

--------------------------------------------------------------------------------
(* Commands and responses *)

\* A memory address is four bytes, which say what it was.
LEMMA PlaceIs ==
  ASSUME NEW a, a.area \in Nat, a.bit \in Nat, a.address \in Nat, a.address <= 65535
  PROVE  LET b == EncodeMemoryAddress(a)
         IN /\ b \in Seq(Nat) /\ Len(b) = 4
            /\ DecodeMemoryAddress(b) = [area |-> a.area, address |-> a.address, bit |-> a.bit]
<1> DEFINE s == <<a.area>>
           t == Uint16(a.address)
           u == <<a.bit>>
           b == EncodeMemoryAddress(a)
<1>1. /\ s \in Seq(Nat) /\ Len(s) = 1 /\ s[1] = a.area
      /\ u \in Seq(Nat) /\ Len(u) = 1 /\ u[1] = a.bit
  BY Tuples
<1>2. t \in Seq(Nat) /\ Len(t) = 2 /\ Value(t) = a.address
  BY Numbers
<1>3. b = s \o t \o u
  BY DEF EncodeMemoryAddress
<1> HIDE DEF s, t, u, b
<1>4. Parts(b, s, t, u)
  BY <1>1, <1>2, <1>3, Parted
<1>5. b \in Seq(Nat) /\ Len(b) = 4
  BY <1>1, <1>2, <1>4 DEF Parts
<1>6. SubSeq(b, 1, 1) = s /\ SubSeq(b, 2, 3) = t /\ SubSeq(b, 4, 4) = u
  BY <1>1, <1>2, <1>4, <1>5 DEF Parts, From
<1>7. SubSeq(b, 1, 1)[1] = b[1] /\ SubSeq(b, 4, 4)[1] = b[4]
  BY <1>5
<1>8. b[1] = a.area /\ b[4] = a.bit /\ Value(SubSeq(b, 2, 3)) = a.address
  BY ONLY <1>1, <1>2, <1>6, <1>7, Zenon
<1>9. DecodeMemoryAddress(b) = [area |-> a.area, address |-> a.address, bit |-> a.bit]
  BY <1>8 DEF DecodeMemoryAddress
<1>10. QED BY <1>5, <1>9 DEF b

\* What a request with header h, code, address a, number n and bytes says.
Says(r, h, code, a, n, bytes) ==
  /\ r.header = DecodeHeader(h) /\ r.commandCode = Value(code)
  /\ DecodeMemoryAddress(SubSeq(r.data, 1, 4)) =
       [area |-> a.area, address |-> a.address, bit |-> a.bit]
  /\ Value(SubSeq(r.data, 5, 6)) = n /\ From(r.data, 7) = bytes

\* A command: a code, and then an address, a number and bytes.
CommandIs(c, code, p, u, bytes) == \E t : Join(c, code, t) /\ Parts(t, p, u, bytes)

\* It is put together from the left.
LEMMA CommandParts ==
  ASSUME NEW code \in Seq(Nat), NEW p \in Seq(Nat), NEW u \in Seq(Nat), NEW bytes \in Seq(Nat)
  PROVE  CommandIs(code \o p \o u \o bytes, code, p, u, bytes)
<1>1. p \o u \in Seq(Nat) /\ p \o u \o bytes \in Seq(Nat)
  BY ConcatProperties
<1>2. code \o p \o u = code \o (p \o u)
  BY Regrouped
<1>3. code \o (p \o u) \o bytes = code \o (p \o u \o bytes)
  BY <1>1, Regrouped, ZenonT(60)
<1>4. Parts(p \o u \o bytes, p, u, bytes)
  BY Parted
<1>5. Join(code \o (p \o u \o bytes), code, p \o u \o bytes)
  BY <1>1, Joined
<1>6. QED BY ONLY <1>2, <1>3, <1>4, <1>5, Zenon DEF CommandIs

\* The simulator finds in a request b what is in its header and its command.
LEMMA RequestRead ==
  ASSUME NEW h \in Seq(Nat), Len(h) = HeaderSize, NEW code \in Seq(Nat), Len(code) = 2,
         NEW a, a.area \in Nat, a.bit \in Nat, a.address \in Nat, a.address <= 65535,
         NEW n \in Nat, n <= 65535, NEW bytes \in Seq(Nat), NEW c \in Seq(Nat), NEW b,
         CommandIs(c, code, EncodeMemoryAddress(a), Uint16(n), bytes), Join(b, h, c)
  PROVE  Says(DecodeRequest(b), h, code, a, n, bytes)
<1> DEFINE p == EncodeMemoryAddress(a)
           u == Uint16(n)
<1>1. /\ p \in Seq(Nat) /\ Len(p) = 4
      /\ DecodeMemoryAddress(p) = [area |-> a.area, address |-> a.address, bit |-> a.bit]
  BY PlaceIs
<1>2. u \in Seq(Nat) /\ Len(u) = 2 /\ Value(u) = n
  BY Numbers
<1>3. PICK t : Join(c, code, t) /\ Parts(t, p, u, bytes)
  BY DEF CommandIs
<1> HIDE DEF p, u
<1>4. SubSeq(t, 1, 4) = p /\ SubSeq(t, 5, 6) = u /\ From(t, 7) = bytes
  BY <1>1, <1>2, <1>3 DEF Parts
<1>5. Len(c) \in Nat /\ Len(c) >= 2 /\ Len(b) = 10 + Len(c)
  <2>1. t \in Seq(Nat)
    BY <1>3 DEF Parts
  <2>2. Len(c) = Len(code) + Len(t) /\ Len(b) = Len(h) + Len(c)
    BY <1>3 DEF Join
  <2>3. QED BY <2>1, <2>2 DEF HeaderSize
<1>6. SubSeq(c, 1, 2) = code /\ From(c, 3) = t
  BY <1>3 DEF Join
<1>7. ASSUME NEW i \in Nat, NEW j \in Nat, 1 <= i, j <= Len(c)
      PROVE  SubSeq(b, 10 + i, 10 + j) = SubSeq(c, i, j)
  <2>1. CutAfter(b, h, c, i, j)
    <3>1. Join(b, h, c)
      OBVIOUS
    <3>2. QED BY ONLY <1>7, <3>1, CutSecond, Zenon
  <2>2. Len(h) = 10
    BY DEF HeaderSize
  <2>3. QED BY ONLY <2>1, <2>2, Zenon DEF CutAfter
<1>8. SubSeq(b, 1, 10) = h
  BY DEF Join, HeaderSize
<1>9. SubSeq(b, 11, 12) = code
  <2>1. 1 \in Nat /\ 2 \in Nat /\ 1 <= 1 /\ 2 <= Len(c) /\ 10 + 1 = 11 /\ 10 + 2 = 12
    BY <1>5
  <2>2. SubSeq(b, 10 + 1, 10 + 2) = SubSeq(c, 1, 2)
    BY ONLY <1>7, <2>1, Zenon
  <2>3. QED BY ONLY <1>6, <2>1, <2>2, Zenon
<1>10. From(b, 13) = t
  <2>1. 3 \in Nat /\ 1 <= 3 /\ Len(c) <= Len(c) /\ 10 + 3 = 13
    BY <1>5
  <2>2. SubSeq(b, 10 + 3, 10 + Len(c)) = SubSeq(c, 3, Len(c))
    BY ONLY <1>5, <1>7, <2>1, Zenon
  <2>3. From(b, 13) = From(c, 3)
    BY ONLY <1>5, <2>1, <2>2, Zenon DEF From
  <2>4. QED BY ONLY <1>6, <2>3, Zenon
<1> DEFINE r == DecodeRequest(b)
<1>11. r.header = DecodeHeader(h) /\ r.commandCode = Value(code) /\ r.data = t
  <2>1. /\ r.header = DecodeHeader(SubSeq(b, 1, 10)) /\ r.commandCode = CodeAt(b, 0)
        /\ r.data = From(b, 13)
    BY DEF DecodeRequest, HeaderSize
  <2>2. CodeAt(b, 0) = Value(SubSeq(b, 11, 12))
    BY DEF CodeAt, HeaderSize
  <2>3. QED BY ONLY <1>8, <1>9, <1>10, <2>1, <2>2, Zenon
<1> HIDE DEF r
<1>12. Says(r, h, code, a, n, bytes)
  BY ONLY <1>1, <1>2, <1>4, <1>11, Zenon DEF Says
<1>13. QED BY ONLY <1>12 DEF r

\* A write says its bytes.
LEMMA WriteRead ==
  ASSUME NEW h \in Seq(Nat), Len(h) = HeaderSize,
         NEW a, a.area \in Nat, a.bit \in Nat, a.address \in Nat, a.address <= 65535,
         NEW n \in Nat, n <= 65535, NEW bytes \in Seq(Nat)
  PROVE  Says(DecodeRequest(h \o WriteCommand(a, n, bytes)), h, <<1, 2>>, a, n, bytes)
<1> DEFINE code == <<1, 2>>
           p == EncodeMemoryAddress(a)
           u == Uint16(n)
           c == WriteCommand(a, n, bytes)
           b == h \o c
<1>1. code \in Seq(Nat) /\ Len(code) = 2 /\ p \in Seq(Nat) /\ u \in Seq(Nat)
  BY Tuples, PlaceIs, Numbers
<1>2. c = code \o p \o u \o bytes
  BY DEF WriteCommand
<1> HIDE DEF code, p, u, c
<1>3. CommandIs(c, code, p, u, bytes)
  BY <1>1, <1>2, CommandParts
<1>4. c \in Seq(Nat)
  BY <1>3 DEF CommandIs, Join
<1>5. Join(b, h, c)
  BY <1>4, Joined
<1> HIDE DEF b
<1>6. CommandIs(c, code, EncodeMemoryAddress(a), Uint16(n), bytes)
  BY <1>3 DEF p, u
<1>7. Says(DecodeRequest(b), h, code, a, n, bytes)
  BY <1>1, <1>4, <1>5, <1>6, RequestRead
<1>8. QED BY ONLY <1>7 DEF b, c, code

\* A read has none.
LEMMA ReadRead ==
  ASSUME NEW h \in Seq(Nat), Len(h) = HeaderSize,
         NEW a, a.area \in Nat, a.bit \in Nat, a.address \in Nat, a.address <= 65535,
         NEW n \in Nat, n <= 65535
  PROVE  Says(DecodeRequest(h \o ReadCommand(a, n)), h, <<1, 1>>, a, n, <<>>)
<1> DEFINE code == <<1, 1>>
           p == EncodeMemoryAddress(a)
           u == Uint16(n)
           none == <<>>
           c == ReadCommand(a, n)
           b == h \o c
<1>1. /\ code \in Seq(Nat) /\ Len(code) = 2 /\ p \in Seq(Nat) /\ u \in Seq(Nat)
      /\ none \in Seq(Nat)
  BY Tuples, PlaceIs, Numbers
<1>2. c = code \o p \o u
  BY DEF ReadCommand
<1>3. \A s \in Seq(Nat) : s \o none = s
  BY ConcatEmptySeq
<1> HIDE DEF code, p, u, none, c
<1>4. c \in Seq(Nat)
  <2>1. code \o p \in Seq(Nat)
    BY <1>1, ConcatProperties
  <2>2. QED BY <1>1, <1>2, <2>1, ConcatProperties
<1>5. c = code \o p \o u \o none
  BY ONLY <1>2, <1>3, <1>4, Zenon
<1>6. CommandIs(c, code, p, u, none)
  BY <1>1, <1>5, CommandParts
<1>7. Join(b, h, c)
  BY <1>4, Joined
<1> HIDE DEF b
<1>8. CommandIs(c, code, EncodeMemoryAddress(a), Uint16(n), none)
  BY <1>6 DEF p, u
<1>9. Says(DecodeRequest(b), h, code, a, n, none)
  BY <1>1, <1>4, <1>7, <1>8, RequestRead
<1>10. QED BY ONLY <1>9 DEF b, c, code, none

\* The client finds in a response the header, the two codes and the data.
LEMMA ResponseRead ==
  ASSUME NEW e, EncodeHeader(e.header) \in Seq(Nat), Len(EncodeHeader(e.header)) = HeaderSize,
         DecodeHeader(EncodeHeader(e.header)) = e.header, e.data \in Seq(Nat),
         e.commandCode \in Nat, e.commandCode <= 65535, e.endCode \in Nat, e.endCode <= 65535
  PROVE  DecodeResponse(EncodeResponse(e)) =
           [header |-> e.header, commandCode |-> e.commandCode, endCode |-> e.endCode,
            data |-> e.data]
<1> DEFINE h == EncodeHeader(e.header)
           s == Uint16(e.commandCode)
           t == Uint16(e.endCode)
           v == h \o s
           b == EncodeResponse(e)
<1>1. /\ s \in Seq(Nat) /\ Len(s) = 2 /\ Value(s) = e.commandCode
      /\ t \in Seq(Nat) /\ Len(t) = 2 /\ Value(t) = e.endCode
  <2> DEFINE x == e.commandCode
             y == e.endCode
  <2>1. x \in Nat /\ x <= 65535 /\ y \in Nat /\ y <= 65535
    OBVIOUS
  <2> HIDE DEF x, y
  <2>2. /\ Uint16(x) \in Seq(Nat) /\ Len(Uint16(x)) = 2 /\ Value(Uint16(x)) = x
        /\ Uint16(y) \in Seq(Nat) /\ Len(Uint16(y)) = 2 /\ Value(Uint16(y)) = y
    BY ONLY <2>1, Numbers
  <2>3. QED BY ONLY <2>2, Zenon DEF x, y
<1>2. h \in Seq(Nat) /\ Len(h) = 10 /\ DecodeHeader(h) = e.header
  BY DEF HeaderSize
<1>3. b = v \o t \o e.data
  BY DEF EncodeResponse
<1> HIDE DEF h, s, t, b
<1>4. Join(v, h, s)
  BY <1>1, <1>2, Joined
<1>5. v \in Seq(Nat) /\ Len(v) = 12
  BY <1>1, <1>2, <1>4 DEF Join
<1>6. SubSeq(v, 1, 10) = h /\ SubSeq(v, 11, 12) = s
  <2>1. SubSeq(v, 1, Len(h)) = h /\ From(v, Len(h) + 1) = s
    BY <1>4 DEF Join
  <2>2. Len(h) + 1 = 11
    BY <1>2
  <2>3. From(v, 11) = SubSeq(v, 11, 12)
    BY <1>5 DEF From
  <2>4. QED BY ONLY <1>2, <2>1, <2>2, <2>3, Zenon
<1> HIDE DEF v
<1>7. Parts(b, v, t, e.data)
  BY <1>1, <1>3, <1>5, Parted
<1>8. SubSeq(b, 1, 12) = v /\ SubSeq(b, 13, 14) = t /\ From(b, 15) = e.data
  BY <1>1, <1>5, <1>7 DEF Parts
<1>9. b \in Seq(Nat) /\ Len(b) >= 12
  BY <1>1, <1>5, <1>7 DEF Parts
<1>10. SubSeq(b, 1, 10) = SubSeq(v, 1, 10) /\ SubSeq(b, 11, 12) = SubSeq(v, 11, 12)
  <2>1. /\ SubSeq(SubSeq(b, 1, 12), 1, 10) = SubSeq(b, 1, 10)
        /\ SubSeq(SubSeq(b, 1, 12), 11, 12) = SubSeq(b, 11, 12)
    BY <1>9
  <2>2. QED BY ONLY <1>8, <2>1, Zenon
<1>11. /\ DecodeHeader(SubSeq(b, 1, 10)) = e.header /\ Value(SubSeq(b, 11, 12)) = e.commandCode
       /\ Value(SubSeq(b, 13, 14)) = e.endCode /\ From(b, 15) = e.data
  BY ONLY <1>1, <1>2, <1>6, <1>8, <1>10, Zenon
<1>12. DecodeResponse(b) = [header |-> e.header, commandCode |-> e.commandCode,
                            endCode |-> e.endCode, data |-> e.data]
  BY <1>11 DEF DecodeResponse, CodeAt, HeaderSize
<1>13. QED BY <1>12 DEF b

\* Bytes and words are numbers.
LEMMA ByteOrWord ==
  /\ \A x \in Byte : x \in Nat
  /\ \A x \in Word : x \in Nat /\ x <= 65535
BY DEF Byte, Word

\* A sequence of bytes is one of numbers.
LEMMA SeqNat ==
  ASSUME NEW s \in Seq(Byte)
  PROVE  s \in Seq(Nat)
<1>1. Byte \subseteq Nat
  BY DEF Byte
<1>2. QED BY ONLY <1>1, s \in Seq(Byte), SeqMonotonic

\* The simulator finds in a command what the client put there, and the client in a
\* response what the simulator did.
THEOREM CommandsExchanged == CommandsExact
<1>1. SUFFICES ASSUME NEW a \in Places, NEW body \in Bodies, NEW sid \in Sids
      PROVE  LET h == DefaultCommandHeader(<<0, 1, 2>>, <<3, 4, 5>>, sid)
                 n == Len(body)
                 w == DecodeRequest(EncodeHeader(h) \o WriteCommand(a, n, body))
                 r == DecodeRequest(EncodeHeader(h) \o ReadCommand(a, n))
                 e == [header |-> DefaultResponseHeader(h), commandCode |-> w.commandCode,
                       endCode |-> n, data |-> body]
             IN /\ \A q \in {w, r} : /\ DecodeMemoryAddress(SubSeq(q.data, 1, 4)) = a
                                     /\ Value(SubSeq(q.data, 5, 6)) = n
                /\ From(w.data, 7) = body /\ From(r.data, 7) = <<>>
                /\ DecodeResponse(EncodeResponse(e)) = e
  BY DEF CommandsExact
<1> DEFINE h == DefaultCommandHeader(<<0, 1, 2>>, <<3, 4, 5>>, sid)
           n == Len(body)
           w == DecodeRequest(EncodeHeader(h) \o WriteCommand(a, n, body))
           r == DecodeRequest(EncodeHeader(h) \o ReadCommand(a, n))
           g == DefaultResponseHeader(h)
           e == [header |-> g, commandCode |-> w.commandCode, endCode |-> n, data |-> body]
<1>2. /\ a \in MemoryAddresses /\ a.area \in Nat /\ a.bit \in Nat /\ a.address \in Nat
      /\ a.address <= 65535
      /\ a = [area |-> a.area, address |-> a.address, bit |-> a.bit]
  <2>1. a \in MemoryAddresses
    <3>1. a \in Places
      OBVIOUS
    <3>2. Places \subseteq MemoryAddresses
      BY ONLY InputsAssumption
    <3>3. QED BY ONLY <3>1, <3>2
  <2>2. a = [area |-> a.area, address |-> a.address, bit |-> a.bit]
    BY ONLY <2>1 DEF MemoryAddresses
  <2>3. a.area \in Nat /\ a.bit \in Nat /\ a.address \in Nat /\ a.address <= 65535
    <3>1. a.area \in Byte /\ a.address \in Word /\ a.bit \in Byte
      BY ONLY <2>1, SMT DEF MemoryAddresses
    <3>2. QED BY ONLY <3>1, ByteOrWord
  <2>4. QED BY ONLY <2>1, <2>2, <2>3
<1>3. body \in Seq(Nat) /\ n \in Nat /\ n <= 65535
  <2>1. body \in Seq(Byte) /\ Len(body) <= 65535 - 8
    BY InputsAssumption
  <2>2. body \in Seq(Nat)
    BY ONLY <2>1, SeqNat
  <2>3. QED BY <2>1, <2>2
<1>4. /\ h \in Headers /\ h.messageType = Command /\ h.responseRequired = TRUE
      /\ g \in Headers /\ g.messageType = Response /\ g.responseRequired = FALSE
  BY InputsAssumption DEF DefaultCommandHeader, DefaultResponseHeader, DefaultHeader, Headers,
                          Addresses, Byte
<1> HIDE DEF h, g, n
<1>5. \A x \in {h, g} : /\ x.dst \in Addresses /\ x.src \in Addresses /\ x.serviceID \in Nat
                        /\ x.gatewayCount \in Nat
  BY <1>4 DEF Headers, Byte
<1>6. /\ EncodeHeader(h) \in Seq(Nat) /\ Len(EncodeHeader(h)) = HeaderSize
      /\ EncodeHeader(g) \in Seq(Nat) /\ Len(EncodeHeader(g)) = HeaderSize
  BY <1>5, HeaderIs
<1>7. /\ Says(w, EncodeHeader(h), <<1, 2>>, a, n, body)
      /\ Says(r, EncodeHeader(h), <<1, 1>>, a, n, <<>>)
  BY <1>2, <1>3, <1>6, WriteRead, ReadRead
<1> HIDE DEF w, r
<1>8. w.commandCode = 258
  BY <1>7 DEF Says, Value
<1>9. DecodeHeader(EncodeHeader(g)) = g
  BY <1>4, HeaderRead
<1>10. DecodeResponse(EncodeResponse(e)) = e
  <2>1. e.header = g /\ e.commandCode = 258 /\ e.endCode = n /\ e.data = body
    BY <1>8
  <2>2. e = [header |-> e.header, commandCode |-> e.commandCode, endCode |-> e.endCode,
             data |-> e.data]
    OBVIOUS
  <2> HIDE DEF e
  <2>3. /\ EncodeHeader(e.header) \in Seq(Nat) /\ Len(EncodeHeader(e.header)) = HeaderSize
        /\ DecodeHeader(EncodeHeader(e.header)) = e.header
    BY ONLY <1>6, <1>9, <2>1, Zenon
  <2>4. 258 \in Nat /\ 258 <= 65535
    OBVIOUS
  <2>5. /\ e.data \in Seq(Nat) /\ e.commandCode \in Nat /\ e.commandCode <= 65535
        /\ e.endCode \in Nat /\ e.endCode <= 65535
    BY ONLY <1>3, <2>1, <2>4
  <2>6. DecodeResponse(EncodeResponse(e)) =
          [header |-> e.header, commandCode |-> e.commandCode, endCode |-> e.endCode,
           data |-> e.data]
    BY ONLY <2>3, <2>5, ResponseRead, SMT
  <2>7. QED BY ONLY <2>2, <2>6, Zenon
<1>11. \A q \in {w, r} : /\ DecodeMemoryAddress(SubSeq(q.data, 1, 4)) = a
                         /\ Value(SubSeq(q.data, 5, 6)) = n
  BY <1>2, <1>7 DEF Says
<1>12. From(w.data, 7) = body /\ From(r.data, 7) = <<>>
  BY <1>7 DEF Says
<1>13. QED BY <1>10, <1>11, <1>12 DEF w, r, h, g, n

--------------------------------------------------------------------------------
(* Frames *)

\* The sequence w is s, of m numbers, and then t, of n of them.
After(w, s, t, m, n) ==
  /\ w \in Seq(Nat) /\ Len(w) = m + n /\ SubSeq(w, m + 1, m + n) = t
  /\ \A i, j \in Nat : 1 <= i /\ j <= m => SubSeq(w, i, j) = SubSeq(s, i, j)

\* A sequence put after another.
LEMMA Appended ==
  ASSUME NEW s \in Seq(Nat), NEW t \in Seq(Nat), NEW m \in Nat, NEW n \in Nat,
         Len(s) = m, Len(t) = n
  PROVE  After(s \o t, s, t, m, n)
<1> DEFINE w == s \o t
<1>1. Join(w, s, t)
  BY Joined
<1> HIDE DEF w
<1>2. w \in Seq(Nat) /\ Len(w) = m + n
  BY <1>1 DEF Join
<1>3. SubSeq(w, m + 1, m + n) = t
  BY <1>1, <1>2 DEF Join, From
<1>4. \A i, j \in Nat : 1 <= i /\ j <= m => SubSeq(w, i, j) = SubSeq(s, i, j)
  BY <1>1 DEF Join
<1>5. QED BY <1>2, <1>3, <1>4 DEF After, w

\* What is cut from w within s is cut from s.
CutBefore(w, s, i, j) == SubSeq(w, i, j) = SubSeq(s, i, j)

\* So it is with s and what comes after it.
LEMMA CutFirst ==
  ASSUME NEW w, NEW s, NEW t, NEW m, NEW n, After(w, s, t, m, n),
         NEW i \in Nat, NEW j \in Nat, 1 <= i, j <= m
  PROVE  CutBefore(w, s, i, j)
BY Zenon DEF After, CutBefore

\* The beginning of a sequence, and what is cut from it.
LEMMA Prefix ==
  ASSUME NEW f \in Seq(Nat), NEW k \in Nat, k <= Len(f)
  PROVE  /\ SubSeq(f, 1, k) \in Seq(Nat) /\ Len(SubSeq(f, 1, k)) = k
         /\ \A i, j \in Nat : 1 <= i /\ j <= k => CutBefore(SubSeq(f, 1, k), f, i, j)
<1> DEFINE g == SubSeq(f, 1, k)
<1>1. g \in Seq(Nat) /\ Len(g) = k
  OBVIOUS
<1>2. \A i, j \in Nat : 1 <= i /\ j <= k => SubSeq(g, i, j) = SubSeq(f, i, j)
  OBVIOUS
<1>3. QED BY <1>1, <1>2 DEF CutBefore

\* The places of a frame's fields.
LEMMA Fields ==
  /\ 1 \in Nat /\ 4 \in Nat /\ 5 \in Nat /\ 8 \in Nat /\ 9 \in Nat /\ 12 \in Nat
  /\ 13 \in Nat /\ 16 \in Nat /\ 17 \in Nat
  /\ 1 <= 1 /\ 1 <= 5 /\ 1 <= 9 /\ 1 <= 13 /\ 1 <= 17
  /\ 4 <= 4 /\ 4 <= 8 /\ 4 <= 12 /\ 4 <= 16 /\ 8 <= 8 /\ 8 <= 12 /\ 8 <= 16
  /\ 12 <= 12 /\ 12 <= 16 /\ 16 <= 16
OBVIOUS

\* What a frame f of a command and a body says, and where.
FrameIs(f, command, body) ==
  /\ f \in Seq(Nat) /\ Len(f) = 16 + Len(body)
  /\ SubSeq(f, 1, 4) = Signature /\ Value(SubSeq(f, 5, 8)) = Len(body) + 8
  /\ Value(SubSeq(f, 9, 12)) = command /\ Value(SubSeq(f, 13, 16)) = 0
  /\ SubSeq(f, 17, 16 + Len(body)) = body

\* It is built so.
LEMMA FrameBuilt ==
  ASSUME NEW command \in Nat, command <= 65535, NEW body \in Seq(Nat), Len(body) + 8 <= 65535
  PROVE  FrameIs(Frame(command, body), command, body)
<1> DEFINE s == Signature
           a == Uint32(Len(body) + 8)
           b == Uint32(command)
           z == Uint32(0)
           u == s \o a
           v == u \o b
           w == v \o z
           f == Frame(command, body)
           n == Len(body)
<1>1. s \in Seq(Nat) /\ Len(s) = 4
  BY DEF Signature
<1>2. /\ a \in Seq(Nat) /\ Len(a) = 4 /\ Value(a) = n + 8
      /\ b \in Seq(Nat) /\ Len(b) = 4 /\ Value(b) = command
      /\ z \in Seq(Nat) /\ Len(z) = 4 /\ Value(z) = 0
  <2>1. n \in Nat /\ n + 8 \in Nat
    OBVIOUS
  <2>2. n + 8 <= 65535 /\ 0 <= 65535
    OBVIOUS
  <2> DEFINE k == n + 8
  <2>3. k \in Nat /\ k <= 65535
    BY <2>1, <2>2
  <2> HIDE DEF k
  <2>4. Uint32(k) \in Seq(Nat) /\ Len(Uint32(k)) = 4 /\ Value(Uint32(k)) = k
    BY ONLY <2>3, Numbers
  <2>5. b \in Seq(Nat) /\ Len(b) = 4 /\ Value(b) = command
    BY Numbers
  <2>6. z \in Seq(Nat) /\ Len(z) = 4 /\ Value(z) = 0
    BY ONLY <2>2, Numbers
  <2>7. QED BY ONLY <2>4, <2>5, <2>6 DEF k
<1>3. f = w \o body /\ n \in Nat /\ 4 + 4 = 8 /\ 8 + 4 = 12 /\ 12 + 4 = 16
  BY DEF Frame
<1> HIDE DEF s, a, b, z, n, f
<1>4. After(u, s, a, 4, 4)
  BY ONLY <1>1, <1>2, Appended, Fields, Zenon
<1>5. u \in Seq(Nat) /\ Len(u) = 8
  BY <1>4 DEF After
<1> HIDE DEF u
<1>6. After(v, u, b, 8, 4)
  BY ONLY <1>2, <1>5, Appended, Fields, Zenon
<1>7. v \in Seq(Nat) /\ Len(v) = 12
  BY <1>6 DEF After
<1> HIDE DEF v
<1>8. After(w, v, z, 12, 4)
  BY ONLY <1>2, <1>7, Appended, Fields, Zenon
<1>9. w \in Seq(Nat) /\ Len(w) = 16
  BY <1>8 DEF After
<1> HIDE DEF w
<1>10. Len(body) = n
  BY DEF n
<1>11. After(f, w, body, 16, n)
  BY ONLY <1>3, <1>9, <1>10, body \in Seq(Nat), Appended, Fields, Zenon
<1>12. SubSeq(u, 1, 4) = s /\ SubSeq(u, 5, 8) = a
  <2>1. SubSeq(u, 1, 4) = SubSeq(s, 1, 4)
    <3>1. CutBefore(u, s, 1, 4)
      BY ONLY <1>4, CutFirst, Fields, Zenon
    <3>2. QED BY ONLY <3>1 DEF CutBefore
  <2>2. SubSeq(s, 1, 4) = s
    BY <1>1
  <2>3. QED BY <1>4, <2>1, <2>2 DEF After
<1>13. /\ SubSeq(v, 1, 4) = s /\ SubSeq(v, 5, 8) = a /\ SubSeq(v, 9, 12) = b
  <2>1. SubSeq(v, 1, 4) = SubSeq(u, 1, 4) /\ SubSeq(v, 5, 8) = SubSeq(u, 5, 8)
    <3>1. CutBefore(v, u, 1, 4) /\ CutBefore(v, u, 5, 8)
      BY ONLY <1>6, CutFirst, Fields, Zenon
    <3>2. QED BY ONLY <3>1 DEF CutBefore
  <2>2. SubSeq(v, 9, 12) = b
    BY <1>6 DEF After
  <2>3. QED BY ONLY <1>12, <2>1, <2>2, Zenon
<1>14. /\ SubSeq(w, 1, 4) = s /\ SubSeq(w, 5, 8) = a /\ SubSeq(w, 9, 12) = b
       /\ SubSeq(w, 13, 16) = z
  <2>1. /\ SubSeq(w, 1, 4) = SubSeq(v, 1, 4) /\ SubSeq(w, 5, 8) = SubSeq(v, 5, 8)
        /\ SubSeq(w, 9, 12) = SubSeq(v, 9, 12)
    <3>1. /\ CutBefore(w, v, 1, 4) /\ CutBefore(w, v, 5, 8)
          /\ CutBefore(w, v, 9, 12)
      BY ONLY <1>8, CutFirst, Fields, Zenon
    <3>2. QED BY ONLY <3>1 DEF CutBefore
  <2>2. SubSeq(w, 13, 16) = z
    BY <1>8 DEF After
  <2>3. QED BY ONLY <1>13, <2>1, <2>2, Zenon
<1>15. /\ SubSeq(f, 1, 4) = s /\ SubSeq(f, 5, 8) = a /\ SubSeq(f, 9, 12) = b
       /\ SubSeq(f, 13, 16) = z
  <2>1. /\ SubSeq(f, 1, 4) = SubSeq(w, 1, 4) /\ SubSeq(f, 5, 8) = SubSeq(w, 5, 8)
        /\ SubSeq(f, 9, 12) = SubSeq(w, 9, 12) /\ SubSeq(f, 13, 16) = SubSeq(w, 13, 16)
    <3>1. /\ CutBefore(f, w, 1, 4) /\ CutBefore(f, w, 5, 8)
          /\ CutBefore(f, w, 9, 12) /\ CutBefore(f, w, 13, 16)
      BY ONLY <1>11, CutFirst, Fields, Zenon
    <3>2. QED BY ONLY <3>1 DEF CutBefore
  <2>2. QED BY ONLY <1>14, <2>1, Zenon
<1>16. f \in Seq(Nat) /\ Len(f) = 16 + n /\ SubSeq(f, 17, 16 + n) = body
  BY <1>11 DEF After
<1>17. /\ Value(SubSeq(f, 5, 8)) = n + 8 /\ Value(SubSeq(f, 9, 12)) = command
       /\ Value(SubSeq(f, 13, 16)) = 0
  BY ONLY <1>2, <1>15, Zenon
<1>18. QED BY ONLY <1>15, <1>16, <1>17 DEF FrameIs, f, n, s

\* Signature, length, command, error code and body are read back, and what
\* follows is left.
LEMMA FrameWhole ==
  ASSUME NEW f, NEW command \in Nat, NEW body \in Seq(Nat), FrameIs(f, command, body),
         NEW next \in Seq(Nat)
  PROVE  ReadMessage(f \o next) =
           [status |-> "ok", command |-> command, errorCode |-> 0, body |-> body, rest |-> next]
<1> DEFINE m == 16 + Len(body)
           n == Len(next)
           w == f \o next
<1>1. m \in Nat /\ m >= 16 /\ n \in Nat
  OBVIOUS
<1>2. f \in Seq(Nat) /\ Len(f) = m /\ Len(next) = n
  BY DEF FrameIs
<1> HIDE DEF m, n
<1>3. After(w, f, next, m, n)
  BY <1>1, <1>2, Appended
<1> HIDE DEF w
<1>4. w \in Seq(Nat) /\ Len(w) = m + n /\ SubSeq(w, m + 1, m + n) = next
  BY <1>3 DEF After
<1>5. 4 <= m /\ 8 <= m /\ 12 <= m /\ 16 <= m /\ m <= m
  BY <1>1
<1>6. /\ SubSeq(w, 1, 4) = SubSeq(f, 1, 4) /\ SubSeq(w, 5, 8) = SubSeq(f, 5, 8)
      /\ SubSeq(w, 9, 12) = SubSeq(f, 9, 12) /\ SubSeq(w, 13, 16) = SubSeq(f, 13, 16)
  <2>1. /\ CutBefore(w, f, 1, 4) /\ CutBefore(w, f, 5, 8)
        /\ CutBefore(w, f, 9, 12) /\ CutBefore(w, f, 13, 16)
    BY ONLY <1>3, <1>5, CutFirst, Fields, Zenon
  <2>2. QED BY ONLY <2>1 DEF CutBefore
<1>7. SubSeq(w, 17, m) = SubSeq(f, 17, m)
  <2>1. CutBefore(w, f, 17, m)
    BY ONLY <1>1, <1>3, <1>5, CutFirst, Fields, Zenon
  <2>2. QED BY ONLY <2>1 DEF CutBefore
<1>8. /\ SubSeq(w, 1, 4) = Signature /\ Value(SubSeq(w, 5, 8)) = m - 8
      /\ Value(SubSeq(w, 9, 12)) = command /\ Value(SubSeq(w, 13, 16)) = 0
      /\ SubSeq(w, 17, m) = body
  <2>1. /\ SubSeq(f, 1, 4) = Signature /\ Value(SubSeq(f, 5, 8)) = Len(body) + 8
        /\ Value(SubSeq(f, 9, 12)) = command /\ Value(SubSeq(f, 13, 16)) = 0
        /\ SubSeq(f, 17, 16 + Len(body)) = body
    BY DEF FrameIs
  <2>2. Len(body) + 8 = m - 8 /\ 16 + Len(body) = m
    BY DEF m
  <2>3. QED BY ONLY <1>6, <1>7, <2>1, <2>2, Zenon
<1>9. From(w, 9 + (m - 8)) = next
  BY <1>1, <1>4 DEF From
<1>10. /\ ~(Len(w) < 8) /\ ~(m - 8 < 8) /\ ~(Len(w) < 8 + (m - 8)) /\ 8 + (m - 8) = m
  BY <1>1, <1>4
<1>11. ReadMessage(w) = [status |-> "ok", command |-> command, errorCode |-> 0,
                         body |-> body, rest |-> next]
  BY ONLY <1>8, <1>9, <1>10, Zenon DEF ReadMessage
<1>12. QED BY ONLY <1>11 DEF w

\* Of a frame that has not all arrived the client waits for the rest.
LEMMA FrameShort ==
  ASSUME NEW f, NEW command \in Nat, NEW body \in Seq(Nat), FrameIs(f, command, body),
         NEW i \in 0..(Len(f) - 1)
  PROVE  ReadMessage(SubSeq(f, 1, i)).status = "short"
<1> DEFINE g == SubSeq(f, 1, i)
           k == Value(SubSeq(g, 5, 8))
<1>1. /\ f \in Seq(Nat) /\ Len(f) = 16 + Len(body) /\ SubSeq(f, 1, 4) = Signature
      /\ Value(SubSeq(f, 5, 8)) = Len(body) + 8
  BY DEF FrameIs
<1>2. i \in Nat /\ i < 16 + Len(body) /\ Len(body) \in Nat
  BY <1>1, SMTT(30)
<1>3. /\ g \in Seq(Nat) /\ Len(g) = i
      /\ \A x, y \in Nat : 1 <= x /\ y <= i => CutBefore(g, f, x, y)
  <2>1. i <= Len(f)
    BY <1>1, <1>2
  <2>2. QED BY <1>1, <1>2, <2>1, Prefix
<1>4. ASSUME i < 8 PROVE ReadMessage(g) = [status |-> "short"]
  BY <1>3, <1>4 DEF ReadMessage
<1>5. ASSUME i >= 8 PROVE ReadMessage(g) = [status |-> "short"]
  <2>1. SubSeq(g, 1, 4) = SubSeq(f, 1, 4) /\ SubSeq(g, 5, 8) = SubSeq(f, 5, 8)
    <3>1. 4 <= i /\ 8 <= i
      BY <1>2, <1>5
    <3>2. CutBefore(g, f, 1, 4) /\ CutBefore(g, f, 5, 8)
      BY ONLY <1>3, <3>1, Fields, Zenon
    <3>3. QED BY ONLY <3>2 DEF CutBefore
  <2> HIDE DEF g
  <2>2. SubSeq(g, 1, 4) = Signature /\ Value(SubSeq(g, 5, 8)) = Len(body) + 8
    BY <1>1, <2>1
  <2>3. ~(Len(g) < 8) /\ ~(Len(body) + 8 < 8) /\ Len(g) < 8 + (Len(body) + 8)
    BY <1>2, <1>3, <1>5
  <2>4. QED BY ONLY <2>2, <2>3, Zenon DEF ReadMessage
<1>6. ReadMessage(g) = [status |-> "short"]
  BY <1>2, <1>4, <1>5
<1>7. QED BY <1>6

\* A frame is read whole, with nothing of the next one, and no part of it is.
THEOREM FramesRead == FramesExact
<1>1. SUFFICES ASSUME NEW body \in Bodies, NEW next \in Bodies, NEW command \in {0, 2}
      PROVE  LET f == Frame(command, body)
             IN /\ ReadMessage(f \o next) = [status |-> "ok", command |-> command,
                                             errorCode |-> 0, body |-> body, rest |-> next]
                /\ \A i \in 0..(Len(f) - 1) : ReadMessage(SubSeq(f, 1, i)).status = "short"
  BY DEF FramesExact
<1> DEFINE f == Frame(command, body)
<1>2. /\ body \in Seq(Byte) /\ Len(body) <= 65535 - 8 /\ next \in Seq(Byte)
  BY InputsAssumption
<1>3. body \in Seq(Nat) /\ next \in Seq(Nat)
  BY ONLY <1>2, SeqNat
<1>4. Len(body) + 8 <= 65535 /\ command \in Nat /\ command <= 65535
  BY <1>2, <1>3
<1>5. FrameIs(f, command, body)
  BY <1>3, <1>4, FrameBuilt
<1> HIDE DEF f
<1>6. ReadMessage(f \o next) = [status |-> "ok", command |-> command, errorCode |-> 0,
                                body |-> body, rest |-> next]
  BY <1>3, <1>4, <1>5, FrameWhole
<1>7. \A i \in 0..(Len(f) - 1) : ReadMessage(SubSeq(f, 1, i)).status = "short"
  BY <1>3, <1>4, <1>5, FrameShort
<1>8. QED BY <1>6, <1>7 DEF f

--------------------------------------------------------------------------------
(* Numbers in digits *)

\* A digit put after a digit.
LEMMA PushedTwice ==
  ASSUME NEW h \in 0..9, NEW l \in 0..9
  PROVE  Push(0, h) = h /\ Push(h, l) = 10 * h + l
<1>1. Word64 \in Nat /\ Word64 > 100
  BY CodecAssumption
<1>2. ASSUME NEW x \in Nat, x < 10, NEW d \in Nat, d < 10
      PROVE  Push(x, d) = 10 * x + d
  <2>1. (4 * x + x) % Word64 = 5 * x /\ (2 * (5 * x)) % Word64 = 10 * x
    <3>1. \A k \in Nat : k < Word64 => k % Word64 = k
      BY <1>1
    <3>2. 5 * x \in Nat /\ 10 * x \in Nat /\ 5 * x < Word64 /\ 10 * x < Word64
      BY <1>1, <1>2
    <3>3. (5 * x) % Word64 = 5 * x /\ (10 * x) % Word64 = 10 * x
      BY ONLY <3>1, <3>2, Zenon
    <3>4. 4 * x + x = 5 * x /\ 2 * (5 * x) = 10 * x
      BY <1>2
    <3>5. QED BY ONLY <3>3, <3>4, Zenon
  <2>2. ~(2 * (5 * x) >= Word64) /\ ~(10 * x > (Word64 - 1) - d)
    BY <1>1, <1>2
  <2>3. TimesTenPlus(x, d) = 10 * x + d
    BY ONLY <2>1, <2>2, Zenon DEF TimesTenPlus
  <2>4. ~(x < 0) /\ ~(d > 9)
    BY <1>2
  <2>5. QED BY ONLY <2>3, <2>4, Zenon DEF Push
<1>3. h \in Nat /\ l \in Nat /\ 0 \in Nat /\ h < 10 /\ l < 10 /\ 0 < 10 /\ 10 * 0 + h = h
  OBVIOUS
<1>4. Push(0, h) = 10 * 0 + h /\ Push(h, l) = 10 * h + l
  BY ONLY <1>2, <1>3, Zenon
<1>5. QED BY <1>3, <1>4

\* A set of numbers has a least one: what inductions rest on here.
LEMMA Least ==
  ASSUME NEW T, T \subseteq Nat, T # {}
  PROVE  \E m \in T : \A k \in T : m <= k
<1>1. PICK m \in T : \A k \in T : <<k, m>> \notin OpToRel(<, Nat)
  BY NatLessThanWellFounded, WFMin
<1>2. \A k \in T : ~(k < m)
  BY <1>1, Zenon DEF OpToRel
<1>3. QED BY <1>2

\* What Digits is of k, in terms of what f is of less; f is Digits up to n.
Step(f, k)    == IF k = 0 THEN <<>> ELSE Append(f[k \div 10], k % 10)
DigitsTo(f, n) == f = [k \in 0..n |-> Step(f, k)]

\* A tenth of a number is less.
LEMMA Tenth ==
  ASSUME NEW k \in Nat, k # 0
  PROVE  k \div 10 \in Nat /\ k \div 10 < k /\ k % 10 \in 0..9 /\ k = 10 * (k \div 10) + (k % 10)
OBVIOUS

\* Two functions that are Digits as far as they go agree.
LEMMA SameDigits ==
  ASSUME NEW n \in Nat, NEW m \in Nat, n <= m, NEW f, NEW g, DigitsTo(f, n), DigitsTo(g, m)
  PROVE  \A k \in 0..n : f[k] = g[k]
<1>1. SUFFICES ASSUME NEW k \in 0..n, f[k] # g[k] PROVE FALSE
  OBVIOUS
<1> DEFINE T == {i \in 0..n : f[i] # g[i]}
<1>2. T \subseteq Nat /\ T # {}
  BY <1>1
<1>3. PICK i \in T : \A j \in T : i <= j
  BY <1>2, Least
<1>4. i \in 0..n /\ i \in 0..m /\ i \in Nat
  BY <1>3
<1>5. f[i] = Step(f, i) /\ g[i] = Step(g, i)
  BY <1>4, Zenon DEF DigitsTo
<1>6. i # 0
  BY <1>3, <1>5 DEF Step
<1>7. i \div 10 \in 0..n /\ ~(i <= i \div 10)
  BY <1>4, <1>6, Tenth
<1>8. f[i \div 10] = g[i \div 10]
  BY ONLY <1>3, <1>7, Zenon
<1>9. f[i] = g[i]
  BY ONLY <1>5, <1>8, Zenon DEF Step
<1>10. QED BY ONLY <1>3, <1>9, Zenon

\* There is one as far as wanted.
LEMMA SomeDigits == \A n \in Nat : \E f : DigitsTo(f, n)
<1>1. SUFFICES ASSUME NEW n \in Nat, ~\E f : DigitsTo(f, n) PROVE FALSE
  OBVIOUS
<1> DEFINE T == {i \in Nat : ~\E f : DigitsTo(f, i)}
<1>2. T \subseteq Nat /\ T # {}
  BY <1>1
<1>3. PICK m \in T : \A j \in T : m <= j
  BY <1>2, Least
<1>4. m \in Nat /\ ~\E f : DigitsTo(f, m)
  BY <1>3
<1>5. m # 0
  <2>1. DigitsTo([k \in 0..0 |-> <<>>], 0)
    BY DEF DigitsTo, Step
  <2>2. QED BY ONLY <1>4, <2>1, Zenon
<1>6. m - 1 \in Nat /\ ~(m <= m - 1)
  BY <1>4, <1>5
<1>7. PICK f : DigitsTo(f, m - 1)
  BY ONLY <1>3, <1>6, Zenon
<1> DEFINE g == [k \in 0..m |-> IF k = m THEN Step(f, m) ELSE f[k]]
<1>8. ASSUME NEW k \in 0..m PROVE g[k] = Step(g, k)
  <2>1. k # 0 => Step(g, k) = Step(f, k)
    <3>1. SUFFICES ASSUME k # 0 PROVE Step(g, k) = Step(f, k)
      OBVIOUS
    <3>2. k \div 10 \in 0..m /\ k \div 10 # m
      BY <3>1, Tenth
    <3>3. g[k \div 10] = f[k \div 10]
      BY <3>2
    <3> HIDE DEF g
    <3>4. QED BY ONLY <3>3, Zenon DEF Step
  <2>2. k = 0 => Step(g, k) = Step(f, k)
    BY Zenon DEF Step
  <2>3. Step(g, k) = Step(f, k)
    BY ONLY <2>1, <2>2, Zenon
  <2>4. CASE k = m
    <3>1. g[k] = Step(f, k)
      BY <2>4
    <3> QED BY ONLY <2>3, <3>1, Zenon
  <2>5. CASE k # m
    <3>1. k \in 0..(m - 1)
      BY <1>4, <2>5
    <3>2. f[k] = Step(f, k)
      BY ONLY <1>7, <3>1, Zenon DEF DigitsTo
    <3>3. g[k] = f[k]
      BY <2>5
    <3> QED BY ONLY <2>3, <3>2, <3>3, Zenon
  <2>6. QED BY <2>4, <2>5
<1>9. g = [k \in 0..m |-> g[k]]
  OBVIOUS
<1> HIDE DEF g
<1>10. DigitsTo(g, m)
  BY ONLY <1>8, <1>9, Zenon DEF DigitsTo
<1>11. QED BY ONLY <1>4, <1>10, Zenon

\* So Digits is what its definition says.
LEMMA DigitsAre ==
  /\ Digits(0) = <<>>
  /\ \A x \in Nat : x # 0 => Digits(x) = Append(Digits(x \div 10), x % 10)
<1> DEFINE Is(d) == d = [k \in Nat |-> IF k = 0 THEN <<>> ELSE Append(d[k \div 10], k % 10)]
           d == CHOOSE d : Is(d)
           To(k) == CHOOSE f : DigitsTo(f, k)
           e == [k \in Nat |-> To(k)[k]]
<1>1. \A x : Digits(x) = d[x]
  BY DEF Digits
<1>2. \A k \in Nat : DigitsTo(To(k), k)
  BY SomeDigits, Zenon
<1>3. ASSUME NEW k \in Nat PROVE e[k] = Step(e, k)
  <2>1. k \in 0..k
    OBVIOUS
  <2>2. To(k)[k] = Step(To(k), k)
    <3> DEFINE f == To(k)
    <3>1. DigitsTo(f, k)
      BY <1>2
    <3> HIDE DEF f
    <3>2. f[k] = Step(f, k)
      BY ONLY <2>1, <3>1, Zenon DEF DigitsTo
    <3>3. QED BY <3>2 DEF f
  <2>3. CASE k = 0
    <3>1. Step(To(k), k) = Step(e, k)
      BY ONLY <2>3, Zenon DEF Step
    <3>2. QED BY ONLY <2>2, <3>1, k \in Nat
  <2>4. CASE k # 0
    <3> DEFINE j == k \div 10
    <3>1. j \in Nat /\ j <= k /\ j \in 0..j
      BY <2>4, Tenth
    <3> HIDE DEF j
    <3>2. To(k)[j] = To(j)[j]
      <4> DEFINE f == To(j)
                 g == To(k)
      <4>1. DigitsTo(f, j) /\ DigitsTo(g, k)
        BY <1>2, <3>1
      <4> HIDE DEF f, g
      <4>2. f[j] = g[j]
        BY ONLY <3>1, <4>1, k \in Nat, SameDigits
      <4>3. QED BY <4>2 DEF f, g
    <3>3. e[j] = To(j)[j]
      BY <3>1
    <3>4. e[k] = To(k)[k]
      OBVIOUS
    <3> HIDE DEF e, To
    <3>5. Step(To(k), k) = Step(e, k)
      BY ONLY <3>2, <3>3, Zenon DEF Step, j
    <3>6. QED BY ONLY <2>2, <3>4, <3>5, Zenon
  <2>5. QED BY <2>3, <2>4
<1>4. Is(e)
  <2>1. e = [k \in Nat |-> e[k]]
    OBVIOUS
  <2> HIDE DEF e
  <2>2. QED BY ONLY <1>3, <2>1, Zenon DEF Step
<1> HIDE DEF e
<1>5. Is(d)
  BY ONLY <1>4, Zenon
<1> HIDE DEF d
<1>6. d[0] = <<>> /\ \A x \in Nat : x # 0 => d[x] = Append(d[x \div 10], x % 10)
  <2>1. 0 \in Nat
    OBVIOUS
  <2>2. QED BY ONLY <1>5, <2>1, Zenon
<1>7. QED BY ONLY <1>1, <1>6, Zenon

\* The decoder on the digits s, one by one: f is what it has after each.
Run(s, f) ==
  /\ f \in [0..Len(s) -> Int] /\ f[0] = 0
  /\ \A i \in 1..Len(s) : s[i] \in 0..9 /\ f[i] = Push(f[i - 1], s[i])

\* A digit more than a number that fits.
LEMMA PushFits ==
  ASSUME NEW x \in 0..(2 * Word64 - 1)
  PROVE  Push(x \div 10, x % 10) = IF x < Word64 THEN x ELSE Overflow
<1> DEFINE y == x \div 10
           q == x % 10
           half == Word64 \div 2
<1>1. Word64 \in Nat /\ Word64 > 100 /\ Word64 = 2 * half /\ half \in Nat
  BY CodecAssumption
<1>2. x \in Nat /\ x < 2 * Word64 /\ y \in Nat /\ q \in 0..9 /\ x = 10 * y + q
  BY <1>1
<1> HIDE DEF y, q, half
<1>3. 5 * y \in Nat /\ 5 * y < Word64 /\ 4 * y + y = 5 * y /\ 2 * (5 * y) = 10 * y
  BY <1>1, <1>2
<1>4. \A k \in Nat : k < Word64 => k % Word64 = k
  BY <1>1
<1>5. (5 * y) % Word64 = 5 * y
  BY ONLY <1>3, <1>4, Zenon
<1>6. ~(y < 0) /\ ~(q > 9)
  BY <1>2
<1>7. CASE 10 * y >= Word64
  <2>1. ~(x < Word64)
    BY ONLY <1>1, <1>2, <1>7
  <2>2. TimesTenPlus(y, q) = Overflow
    BY ONLY <1>3, <1>5, <1>7, Zenon DEF TimesTenPlus
  <2>3. QED BY ONLY <1>6, <2>1, <2>2, Zenon DEF Push, y, q
<1>8. CASE ~(10 * y >= Word64)
  <2>1. 10 * y \in Nat /\ 10 * y < Word64 /\ 10 * y + q = x
    BY <1>1, <1>2, <1>8
  <2>2. (10 * y) % Word64 = 10 * y
    BY ONLY <1>4, <2>1, Zenon
  <2>3. TimesTenPlus(y, q) = IF 10 * y > (Word64 - 1) - q THEN Overflow ELSE x
    BY ONLY <1>3, <1>5, <1>8, <2>1, <2>2, Zenon DEF TimesTenPlus
  <2>4. 10 * y > (Word64 - 1) - q <=> ~(x < Word64)
    BY <1>1, <1>2
  <2>5. TimesTenPlus(y, q) = IF x < Word64 THEN x ELSE Overflow
    BY ONLY <2>3, <2>4, Zenon
  <2>6. QED BY ONLY <1>6, <2>5, Zenon DEF Push, y, q
<1>9. QED BY <1>7, <1>8

\* A digit more to decode.
LEMMA RunOn ==
  ASSUME NEW s \in Seq(Nat), NEW f, Run(s, f), NEW q \in 0..9, NEW r \in Int,
         r = Push(f[Len(s)], q)
  PROVE  \E g : Run(Append(s, q), g) /\ g[Len(s) + 1] = r
<1> DEFINE n == Len(s)
           t == Append(s, q)
           g == [i \in 0..(n + 1) |-> IF i = n + 1 THEN r ELSE f[i]]
<1>1. n \in Nat /\ Len(t) = n + 1 /\ t[n + 1] = q /\ \A i \in 1..n : t[i] = s[i]
  OBVIOUS
<1>2. /\ f \in [0..n -> Int] /\ f[0] = 0
      /\ \A i \in 1..n : s[i] \in 0..9 /\ f[i] = Push(f[i - 1], s[i])
  BY DEF Run
<1> HIDE DEF n, t
<1>3. g \in [0..(n + 1) -> Int] /\ g[0] = 0 /\ g[n + 1] = r
  BY <1>1, <1>2
<1>4. ASSUME NEW i \in 1..(n + 1) PROVE t[i] \in 0..9 /\ g[i] = Push(g[i - 1], t[i])
  <2>1. i - 1 \in 0..n /\ g[i - 1] = f[i - 1]
    BY <1>1
  <2>2. CASE i = n + 1
    <3>1. t[i] = q /\ g[i] = r /\ i - 1 = n
      BY <1>1, <2>2
    <3>2. r = Push(f[n], q)
      BY DEF n
    <3>3. q \in 0..9
      OBVIOUS
    <3> HIDE DEF g
    <3>4. QED BY ONLY <2>1, <3>1, <3>2, <3>3, Zenon
  <2>3. CASE i # n + 1
    <3>1. i \in 1..n /\ g[i] = f[i]
      BY <1>1, <2>3
    <3> HIDE DEF g
    <3>2. QED BY ONLY <1>1, <1>2, <2>1, <3>1, Zenon
  <2>4. QED BY <2>2, <2>3
<1>5. Run(t, g)
  <2> HIDE DEF g
  <2>1. QED BY ONLY <1>1, <1>3, <1>4 DEF Run
<1> HIDE DEF g
<1>6. QED BY ONLY <1>3, <1>5, Zenon DEF n, t

\* Its result on the digits of x.
Ends(x) == \E f : /\ Run(Digits(x), f)
                  /\ f[Len(Digits(x))] = IF x < Word64 THEN x ELSE Overflow

\* It is x, if x fits, and an overflow if it does not.
LEMMA DigitsRead ==
  ASSUME NEW x \in 0..(2 * Word64 - 1)
  PROVE  Digits(x) \in Seq(Nat) /\ Ends(x)
<1> DEFINE Good(k) == Digits(k) \in Seq(Nat) /\ Ends(k)
           S == 0..(2 * Word64 - 1)
           T == {k \in S : ~Good(k)}
<1>1. SUFFICES ASSUME ~Good(x) PROVE FALSE
  OBVIOUS
<1>2. Word64 \in Nat /\ Word64 > 100
  BY CodecAssumption
<1> HIDE DEF Good
<1>3. T \subseteq Nat /\ T # {}
  BY <1>1, <1>2
<1>4. PICK m \in T : \A j \in T : m <= j
  BY <1>3, Least
<1>5. m \in S /\ ~Good(m) /\ m \in Nat
  BY <1>3, <1>4
<1>6. m # 0
  <2>1. Digits(0) = <<>> /\ <<>> \in Seq(Nat) /\ Len(<<>>) = 0 /\ 0 < Word64
    BY <1>2, DigitsAre
  <2> DEFINE f == [i \in 0..0 |-> 0]
  <2>2. f \in [0..0 -> Int] /\ f[0] = 0 /\ 1..0 = {}
    OBVIOUS
  <2> HIDE DEF f
  <2>3. Run(<<>>, f)
    BY ONLY <2>1, <2>2 DEF Run
  <2>4. Good(0)
    BY ONLY <2>1, <2>2, <2>3, Zenon DEF Good, Ends
  <2>5. QED BY ONLY <1>5, <2>4, Zenon
<1> DEFINE j == m \div 10
           q == m % 10
<1>7. j \in S /\ ~(m <= j) /\ q \in 0..9 /\ j \in Nat /\ j < Word64
  <2>1. j \in Nat /\ j < m /\ q \in 0..9 /\ m = 10 * j + q
    BY <1>5, <1>6, Tenth
  <2> HIDE DEF j, q
  <2>2. QED BY <1>2, <1>5, <2>1
<1>8. Good(j)
  BY ONLY <1>4, <1>7, Zenon
<1> DEFINE s == Digits(j)
           r == IF m < Word64 THEN m ELSE Overflow
<1>9. s \in Seq(Nat)
  BY <1>8 DEF Good
<1>10. PICK f : Run(s, f) /\ f[Len(s)] = j
  <2> HIDE DEF j
  <2>1. QED BY ONLY <1>7, <1>8, Zenon DEF Good, Ends
<1>11. r = Push(f[Len(s)], q) /\ r \in Int
  <2>1. Push(m \div 10, m % 10) = r
    BY <1>5, PushFits
  <2>2. r \in Int
    BY <1>5 DEF Overflow
  <2> HIDE DEF r, s
  <2>3. QED BY ONLY <1>10, <2>1, <2>2, Zenon
<1>12. Digits(m) = Append(s, q)
  BY <1>5, <1>6, DigitsAre
<1> HIDE DEF s, q, r, j
<1>13. PICK g : Run(Append(s, q), g) /\ g[Len(s) + 1] = r
  BY ONLY <1>7, <1>9, <1>10, <1>11, RunOn, Zenon
<1>14. Append(s, q) \in Seq(Nat) /\ Len(Append(s, q)) = Len(s) + 1
  BY <1>7, <1>9
<1>15. Good(m)
  BY ONLY <1>12, <1>13, <1>14, Zenon DEF Good, Ends, r
<1>16. QED BY ONLY <1>5, <1>15, Zenon

\* The bytes of digits, two to a byte, a last one without a second digit.
Packed(s) ==
  [i \in 1..((Len(s) + 1) \div 2) |->
     Nibbles(s[2*i - 1], IF 2*i <= Len(s) THEN s[2*i] ELSE 15)]

\* The decoder after i bytes of b, in terms of what x is after less.
AfterByte(x, b, i) ==
  IF i = 0 THEN 0
  ELSE LET hi == Push(x[i - 1], b[i] \div 16)
       IN IF b[i] % 16 = 15 /\ i = Len(b) THEN hi ELSE Push(hi, b[i] % 16)
Decodes(x, b) == x = [i \in 0..Len(b) |-> AfterByte(x, b, i)]

\* What it has at the end does not depend on the function that is chosen.
LEMMA SameDecoding ==
  ASSUME NEW b, NEW m \in Nat, Len(b) = m, NEW x, NEW y, Decodes(x, b), Decodes(y, b)
  PROVE  x[m] = y[m]
<1>1. SUFFICES ASSUME x[m] # y[m] PROVE FALSE
  OBVIOUS
<1> DEFINE T == {i \in 0..m : x[i] # y[i]}
<1>2. T \subseteq Nat /\ T # {}
  BY <1>1
<1>3. PICK i \in T : \A j \in T : i <= j
  BY <1>2, Least
<1>4. i \in 0..m /\ i \in Nat
  BY <1>3
<1>5. x[i] = AfterByte(x, b, i) /\ y[i] = AfterByte(y, b, i)
  <2>1. Len(b) = m /\ Decodes(x, b) /\ Decodes(y, b)
    OBVIOUS
  <2>2. QED BY ONLY <1>4, <2>1, Zenon DEF Decodes
<1>6. i # 0
  BY ONLY <1>3, <1>5, Zenon DEF AfterByte
<1>7. i - 1 \in 0..m /\ ~(i <= i - 1)
  BY <1>4, <1>6
<1>8. x[i - 1] = y[i - 1]
  BY ONLY <1>3, <1>7, Zenon
<1>9. x[i] = y[i]
  BY ONLY <1>5, <1>8, Zenon DEF AfterByte
<1>10. QED BY ONLY <1>3, <1>9, Zenon

\* The decoder on bytes has at the end what it has on their digits.
LEMMA PackedRead ==
  ASSUME NEW s \in Seq(Nat), Len(s) > 0, NEW f, Run(s, f)
  PROVE  DecodeBCD(Packed(s)) = f[Len(s)]
<1> DEFINE n == Len(s)
           b == Packed(s)
           m == Len(b)
           y == [i \in 0..m |-> IF 2*i <= n THEN f[2*i] ELSE f[n]]
           x == CHOOSE x : Decodes(x, b)
<1>1. n \in Nat /\ n > 0
  OBVIOUS
<1>2. /\ f[0] = 0 /\ \A i \in 1..n : s[i] \in 0..9 /\ f[i] = Push(f[i - 1], s[i])
  BY DEF Run
<1>3. /\ m \in Nat /\ m = (n + 1) \div 2
      /\ \A i \in 1..m : b[i] = Nibbles(s[2*i - 1], IF 2*i <= n THEN s[2*i] ELSE 15)
  <2>1. (n + 1) \div 2 \in Nat
    BY <1>1
  <2> DEFINE k == (n + 1) \div 2
  <2> HIDE DEF k
  <2>2. b = [i \in 1..k |-> Nibbles(s[2*i - 1], IF 2*i <= n THEN s[2*i] ELSE 15)]
    BY DEF Packed, k
  <2>3. m = k
    BY <2>1, <2>2 DEF k
  <2>4. QED BY <2>1, <2>2, <2>3 DEF k
<1>4. DecodeBCD(b) = x[m]
  BY DEF DecodeBCD, Decodes, AfterByte
<1> HIDE DEF n, b, m
<1>5. ASSUME NEW i \in 1..m
      PROVE  y[i] = AfterByte(y, b, i)
  <2>1. /\ i \in Nat /\ i # 0 /\ 2*i - 1 \in 1..n /\ i - 1 \in 0..m /\ 2 * (i - 1) <= n
        /\ 2*i - 1 - 1 = 2 * (i - 1) /\ (2*i <= n \/ (2*i - 1 = n /\ i = m))
    BY <1>1, <1>3
  <2>2. y[i - 1] = f[2 * (i - 1)]
    BY <2>1
  <2> DEFINE hi == s[2*i - 1]
             lo == IF 2*i <= n THEN s[2*i] ELSE 15
  <2>3. f[2*i - 1] = Push(f[2 * (i - 1)], hi) /\ hi \in 0..9
    <3>1. f[2*i - 1] = Push(f[2*i - 1 - 1], hi) /\ hi \in 0..9
      BY ONLY <1>2, <2>1, Zenon
    <3>2. 2*i - 1 - 1 = 2 * (i - 1)
      BY ONLY <2>1
    <3>3. QED BY ONLY <3>1, <3>2, SMT
  <2>4. 2*i <= n => f[2*i] = Push(f[2*i - 1], s[2*i]) /\ s[2*i] \in 0..9
    <3>1. SUFFICES ASSUME 2*i <= n PROVE f[2*i] = Push(f[2*i - 1], s[2*i]) /\ s[2*i] \in 0..9
      OBVIOUS
    <3>2. 2*i \in 1..n
      BY <1>1, <2>1, <3>1
    <3>3. QED BY ONLY <1>2, <3>2, Zenon
  <2>5. lo \in 0..15 /\ (2*i <= n => lo = s[2*i] /\ lo # 15) /\ (~(2*i <= n) => lo = 15)
    BY <2>4, SMTT(30)
  <2>6. b[i] = 16 * hi + lo
    BY <1>3 DEF Nibbles
  <2> HIDE DEF hi, lo
  <2>7. b[i] \div 16 = hi /\ b[i] % 16 = lo
    BY <2>3, <2>5, <2>6
  <2>8. y[i] = IF 2*i <= n THEN f[2*i] ELSE f[n]
    OBVIOUS
  <2> HIDE DEF y
  <2>9. CASE 2*i <= n
    <3>1. AfterByte(y, b, i) = Push(Push(f[2 * (i - 1)], hi), lo)
      BY ONLY <2>1, <2>2, <2>5, <2>7, <2>9, Zenon DEF AfterByte
    <3>2. QED BY ONLY <2>3, <2>4, <2>5, <2>8, <2>9, <3>1, Zenon
  <2>10. CASE ~(2*i <= n)
    <3>1. i = Len(b) /\ 2*i - 1 = n
      BY <2>1, <2>10 DEF m
    <3>2. AfterByte(y, b, i) = Push(f[2 * (i - 1)], hi)
      BY ONLY <2>1, <2>2, <2>5, <2>7, <2>10, <3>1, Zenon DEF AfterByte
    <3>3. QED BY ONLY <2>3, <2>8, <2>10, <3>1, <3>2, Zenon
  <2>11. QED BY <2>9, <2>10
<1>6. y[0] = AfterByte(y, b, 0)
  <2>1. y[0] = f[0]
    BY <1>1, <1>3
  <2>2. QED BY ONLY <1>2, <2>1, Zenon DEF AfterByte
<1>7. y = [i \in 0..m |-> y[i]]
  OBVIOUS
<1>8. y[m] = f[n]
  <2>1. m \in 0..m /\ (2*m <= n => 2*m = n)
    BY <1>1, <1>3
  <2>2. y[m] = IF 2*m <= n THEN f[2*m] ELSE f[n]
    BY <2>1
  <2> HIDE DEF y
  <2>3. QED BY ONLY <2>1, <2>2, Zenon
<1> HIDE DEF y
<1>9. Decodes(y, b)
  <2>1. \A i \in 0..m : i = 0 \/ i \in 1..m
    BY <1>3
  <2>2. \A i \in 0..m : y[i] = AfterByte(y, b, i)
    BY ONLY <1>5, <1>6, <2>1, Zenon
  <2>3. QED BY ONLY <1>7, <2>2, Zenon DEF Decodes, m
<1>10. Decodes(x, b)
  BY ONLY <1>9, Zenon
<1> HIDE DEF x
<1>11. x[m] = y[m]
  <2>1. Len(b) = m
    BY DEF m
  <2>2. QED BY ONLY <1>3, <1>9, <1>10, <2>1, SameDecoding, Zenon
<1>12. QED BY ONLY <1>4, <1>8, <1>11, Zenon DEF n, b

\* A number that fits is decoded to itself, one of up to twice 2^64 is refused.
THEOREM NumbersRead == BCDExact
<1>1. SUFFICES ASSUME NEW x \in 0..(2 * Word64 - 1)
      PROVE  DecodeBCD(EncodeBCD(x)) = IF x < Word64 THEN x ELSE Overflow
  BY DEF BCDExact
<1>2. CASE x = 0
  <2> DEFINE s == <<0>>
             f == [i \in 0..1 |-> 0]
  <2>1. /\ s \in Seq(Nat) /\ Len(s) = 1 /\ s[1] = 0
        /\ f \in [0..1 -> Int] /\ f[0] = 0 /\ f[1] = 0
        /\ \A i \in 1..1 : i = 1 /\ i - 1 = 0
    OBVIOUS
  <2>2. Push(0, 0) = 0
    <3>1. 0 \in 0..9
      OBVIOUS
    <3>2. QED BY ONLY <3>1, PushedTwice
  <2>3. Packed(s) = <<15>>
    BY DEF Packed, Nibbles
  <2> HIDE DEF s, f
  <2>4. \A i \in 1..1 : s[i] \in 0..9 /\ f[i] = Push(f[i - 1], s[i])
    <3>1. 0 \in 0..9
      OBVIOUS
    <3>2. QED BY ONLY <2>1, <2>2, <3>1, Zenon
  <2>5. Run(s, f)
    BY ONLY <2>1, <2>4, Zenon DEF Run
  <2>6. DecodeBCD(Packed(s)) = 0
    BY <2>1, <2>5, PackedRead
  <2>7. EncodeBCD(x) = <<15>> /\ 0 < Word64
    BY <1>2, CodecAssumption DEF EncodeBCD
  <2>8. QED BY ONLY <1>2, <2>3, <2>6, <2>7, Zenon
<1>3. CASE x # 0
  <2>1. EncodeBCD(x) = Packed(Digits(x))
    BY <1>3, Zenon DEF EncodeBCD, Packed
  <2>2. Digits(x) \in Seq(Nat) /\ Ends(x)
    BY DigitsRead
  <2>3. Len(Digits(x)) > 0
    <3>1. Digits(x) = Append(Digits(x \div 10), x % 10)
      <4>1. x \in Nat
        BY CodecAssumption
      <4>2. QED BY ONLY <1>3, <4>1, DigitsAre, Zenon
    <3>2. x \div 10 \in 0..(2 * Word64 - 1) /\ x % 10 \in Nat
      BY <1>3, CodecAssumption
    <3>3. Digits(x \div 10) \in Seq(Nat)
      BY ONLY <3>2, DigitsRead
    <3>4. QED BY ONLY <3>1, <3>2, <3>3
  <2>4. PICK f : /\ Run(Digits(x), f)
                 /\ f[Len(Digits(x))] = IF x < Word64 THEN x ELSE Overflow
    BY ONLY <2>2, Zenon DEF Ends
  <2>5. DecodeBCD(Packed(Digits(x))) = f[Len(Digits(x))]
    BY ONLY <2>2, <2>3, <2>4, PackedRead
  <2>6. QED BY ONLY <2>1, <2>4, <2>5, Zenon
<1>4. QED BY <1>2, <1>3

--------------------------------------------------------------------------------
(* The clock *)

\* A byte of two digits is decoded to their number.
LEMMA TwoDigits ==
  ASSUME NEW h \in 0..9, NEW l \in 0..9
  PROVE  DecodeBCD(<<Nibbles(h, l)>>) = 10 * h + l
<1> DEFINE s == <<Nibbles(h, l)>>
           E(x, i) == IF i = 0 THEN 0
                      ELSE LET hi == Push(x[i - 1], s[i] \div 16)
                           IN IF s[i] % 16 = 15 /\ i = Len(s) THEN hi
                              ELSE Push(hi, s[i] % 16)
           x == CHOOSE x : x = [i \in 0..Len(s) |-> E(x, i)]
           y == [i \in 0..1 |-> IF i = 0 THEN 0 ELSE 10 * h + l]
<1>1. DecodeBCD(s) = x[Len(s)]
  BY DEF DecodeBCD
<1>2. Len(s) = 1 /\ s[1] \div 16 = h /\ s[1] % 16 = l /\ l # 15
  <2>1. Len(s) = 1 /\ s[1] = 16 * h + l
    BY DEF Nibbles
  <2>2. (16 * h + l) \div 16 = h /\ (16 * h + l) % 16 = l /\ l # 15
    OBVIOUS
  <2>3. QED BY <2>1, <2>2
<1>3. \A z : z[0] = 0 => E(z, 1) = 10 * h + l
  <2>1. /\ 1 # 0 /\ 1 - 1 = 0
    OBVIOUS
  <2>2. Push(0, h) = h /\ Push(h, l) = 10 * h + l
    BY PushedTwice
  <2> HIDE DEF s
  <2>3. QED BY ONLY <1>2, <2>1, <2>2, Zenon
<1>4. y = [i \in 0..Len(s) |-> E(y, i)]
  <2>1. y[0] = 0 /\ y[1] = 10 * h + l
    OBVIOUS
  <2>2. \A i \in 0..1 : y[i] = E(y, i)
    <3>1. E(y, 0) = 0 /\ E(y, 1) = 10 * h + l
      <4>1. E(y, 1) = 10 * h + l
        BY ONLY <1>3, <2>1, Zenon
      <4>2. E(y, 0) = 0
        BY Zenon
      <4>3. QED BY <4>1, <4>2
    <3>2. \A i \in 0..1 : i = 0 \/ i = 1
      OBVIOUS
    <3> HIDE DEF E, y
    <3>3. QED BY ONLY <2>1, <3>1, <3>2, Zenon
  <2>3. y = [i \in 0..1 |-> y[i]]
    OBVIOUS
  <2> HIDE DEF E, y, s
  <2>4. QED BY ONLY <1>2, <2>2, <2>3, Zenon
<1> HIDE DEF E, y, s
<1>5. x = [i \in 0..Len(s) |-> E(x, i)]
  BY ONLY <1>4, Zenon
<1> HIDE DEF x
<1>6. x[0] = E(x, 0) /\ x[1] = E(x, 1)
  <2>1. 0 \in 0..1 /\ 1 \in 0..1
    OBVIOUS
  <2>2. QED BY ONLY <1>2, <1>5, <2>1, Zenon
<1>7. E(x, 0) = 0
  BY Zenon DEF E
<1>8. x[1] = 10 * h + l
  BY ONLY <1>3, <1>6, <1>7, Zenon
<1>9. QED BY ONLY <1>1, <1>2, <1>8, Zenon DEF s

\* The clock of the simulator arrives unchanged in the years 1950 to 2049.
THEOREM ClockRead == ClockExact
<1>1. SUFFICES ASSUME NEW t \in Dates PROVE DecodeClock(EncodeClock(t)) = t
  BY DEF ClockExact
<1> DEFINE Fields6 == (1950..2049) \X (1..12) \X (1..31) \X (0..23) \X (0..59) \X (0..59)
<1>2. t \in Fields6
  BY InputsAssumption
<1>3. /\ t[1] \in 1950..2049 /\ t[2] \in 1..12 /\ t[3] \in 1..31
      /\ t[4] \in 0..23 /\ t[5] \in 0..59 /\ t[6] \in 0..59
      /\ t = [i \in 1..6 |-> t[i]]
  BY <1>2
<1> DEFINE b == EncodeClock(t)
           v == [i \in 1..6 |-> DecodeBCD(<<b[i]>>)]
<1>4. ASSUME NEW i \in 1..6 PROVE v[i] = t[i] % 100 /\ t[i] \in Nat
  <2>1. t[i] \in Nat
    BY <1>3
  <2> DEFINE x == t[i]
             h == (x % 100) \div 10
             l == x % 10
  <2>2. h \in 0..9 /\ l \in 0..9 /\ 10 * h + l = x % 100
    <3> HIDE DEF x
    <3>1. x \in Nat
      BY <2>1 DEF x
    <3>2. QED BY ONLY <3>1
  <2>3. b[i] = Nibbles(h, l)
    BY DEF EncodeClock
  <2> HIDE DEF h, l, b
  <2>4. v[i] = DecodeBCD(<<b[i]>>)
    OBVIOUS
  <2>5. QED BY ONLY <2>1, <2>2, <2>3, <2>4, TwoDigits
<1>5. v[1] + (IF v[1] < 50 THEN 2000 ELSE 1900) = t[1]
  <2>1. v[1] = t[1] % 100 /\ t[1] \in 1950..2049
    BY <1>3, <1>4
  <2> HIDE DEF v
  <2>2. QED BY <2>1
<1>6. \A i \in 2..6 : v[i] = t[i]
  <2>1. \A i \in 2..6 : v[i] = t[i] % 100
    BY <1>4
  <2>2. \A i \in 2..6 : t[i] \in 0..99
    BY <1>3
  <2> HIDE DEF v
  <2>3. QED BY <2>1, <2>2
<1>7. DecodeClock(b) = [v EXCEPT ![1] = @ + (IF @ < 50 THEN 2000 ELSE 1900)]
  BY DEF DecodeClock
<1>8. v = [i \in 1..6 |-> v[i]]
  OBVIOUS
<1> HIDE DEF v, b
<1>9. DecodeClock(b) = [i \in 1..6 |-> t[i]]
  <2> DEFINE e == v[1] + (IF v[1] < 50 THEN 2000 ELSE 1900)
             u == DecodeClock(b)
  <2>1. u = [v EXCEPT ![1] = e]
    BY <1>7
  <2>2. e = t[1]
    BY <1>5
  <2> HIDE DEF e, u
  <2>3. u = [i \in 1..6 |-> IF i = 1 THEN e ELSE v[i]]
    BY ONLY <1>8, <2>1
  <2>4. \A i \in 1..6 : i = 1 \/ i \in 2..6
    OBVIOUS
  <2>5. \A i \in 1..6 : (IF i = 1 THEN e ELSE v[i]) = t[i]
    BY ONLY <1>6, <2>2, <2>4, Zenon
  <2>6. u = [i \in 1..6 |-> t[i]]
    BY ONLY <2>3, <2>5, SMT
  <2>7. QED BY <2>6 DEF u
<1>10. QED BY <1>3, <1>9 DEF b

--------------------------------------------------------------------------------
(* Requests *)

\* The header of a command is read back, whatever its service id.
LEMMA CommandHeader ==
  ASSUME NEW src \in Addresses, NEW dst \in Addresses, NEW sid \in Nat
  PROVE  LET b == EncodeHeader(DefaultCommandHeader(src, dst, sid))
         IN /\ b \in Seq(Nat) /\ Len(b) = HeaderSize
            /\ DecodeHeader(b).serviceID = sid /\ DecodeHeader(b).responseRequired
<1> DEFINE h == DefaultCommandHeader(src, dst, sid)
           b == EncodeHeader(h)
<1>1. /\ h.dst = dst /\ h.src = src /\ h.serviceID = sid /\ h.gatewayCount = 2
      /\ h.responseRequired = TRUE /\ h.messageType = Command
  BY DEF DefaultCommandHeader, DefaultHeader
<1> HIDE DEF h
<1>2. h.dst \in Addresses /\ h.src \in Addresses /\ h.serviceID \in Nat /\ h.gatewayCount \in Nat
  BY <1>1
<1>3. /\ b \in Seq(Nat) /\ Len(b) = HeaderSize /\ b[10] = sid
      /\ b[1] = 128 + (IF h.responseRequired THEN 0 ELSE 1)
                    + (IF h.messageType = Response THEN 64 ELSE 0)
  BY <1>1, <1>2, HeaderIs
<1>4. b[1] = 128
  BY <1>1, <1>3 DEF Command, Response
<1> HIDE DEF b
<1>5. DecodeHeader(b).serviceID = b[10] /\ DecodeHeader(b).responseRequired = (b[1] % 2 = 0)
  BY DEF DecodeHeader
<1>6. b[1] % 2 = 0
  BY <1>4
<1>7. QED BY ONLY <1>3, <1>5, <1>6, Zenon DEF b, h

\* A command's bytes w are read as the command of n items at a whose bytes are
\* payload, sent with service id sid.
ReadAs(w, write, a, n, payload, sid) ==
  LET r == DecodeRequest(w)
      p == DecodeMemoryAddress(SubSeq(r.data, 1, 4))
  IN /\ r.commandCode = Value(IF write THEN <<1, 2>> ELSE <<1, 1>>)
     /\ r.header.serviceID = sid /\ r.header.responseRequired
     /\ p.area = a.area /\ p.address = a.address /\ p.bit = a.bit
     /\ Value(SubSeq(r.data, 5, 6)) = n /\ From(r.data, 7) = payload

\* So they are.
LEMMA RequestCarried ==
  ASSUME NEW a, a.area \in Nat, a.bit \in Nat, a.address \in Nat, a.address <= 65535,
         NEW n \in Nat, n <= 65535, NEW payload \in Seq(Nat), NEW sid \in Nat,
         NEW src \in Addresses, NEW dst \in Addresses, NEW write \in BOOLEAN,
         ~write => payload = <<>>
  PROVE  ReadAs(EncodeHeader(DefaultCommandHeader(src, dst, sid))
                \o (IF write THEN WriteCommand(a, n, payload) ELSE ReadCommand(a, n)),
                write, a, n, payload, sid)
<1> DEFINE h == EncodeHeader(DefaultCommandHeader(src, dst, sid))
           code == IF write THEN <<1, 2>> ELSE <<1, 1>>
           w == h \o (IF write THEN WriteCommand(a, n, payload) ELSE ReadCommand(a, n))
           r == DecodeRequest(w)
           p == DecodeMemoryAddress(SubSeq(r.data, 1, 4))
<1>1. /\ h \in Seq(Nat) /\ Len(h) = HeaderSize
      /\ DecodeHeader(h).serviceID = sid /\ DecodeHeader(h).responseRequired
  BY CommandHeader
<1> HIDE DEF h
<1>2. ASSUME write PROVE Says(r, h, code, a, n, payload)
  <2>1. Says(DecodeRequest(h \o WriteCommand(a, n, payload)), h, <<1, 2>>, a, n, payload)
    BY <1>1, WriteRead
  <2>2. QED BY ONLY <1>2, <2>1, Zenon
<1>3. ASSUME ~write PROVE Says(r, h, code, a, n, payload)
  <2>1. Says(DecodeRequest(h \o ReadCommand(a, n)), h, <<1, 1>>, a, n, <<>>)
    BY <1>1, ReadRead
  <2>2. payload = <<>>
    BY <1>3
  <2>3. QED BY ONLY <1>3, <2>1, <2>2, Zenon
<1>4. Says(r, h, code, a, n, payload)
  BY ONLY <1>2, <1>3, Zenon
<1> HIDE DEF code, r
<1>5. /\ r.commandCode = Value(code) /\ r.header.serviceID = sid /\ r.header.responseRequired
      /\ Value(SubSeq(r.data, 5, 6)) = n /\ From(r.data, 7) = payload
      /\ p = [area |-> a.area, address |-> a.address, bit |-> a.bit]
  BY ONLY <1>1, <1>4, Zenon DEF Says
<1> HIDE DEF p
<1>6. p.area = a.area /\ p.address = a.address /\ p.bit = a.bit
  BY ONLY <1>5
<1>7. QED BY ONLY <1>5, <1>6, Zenon DEF ReadAs, p, r, w, h, code

\* Every conversion is undone by its inverse, on the values the program gives it,
\* whatever they are.
THEOREM CodecRead == CodecExact
BY HeadersRead, CommandsExchanged, FramesRead, NumbersRead, ClockRead DEF CodecExact
================================================================================
