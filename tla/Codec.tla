---------------------------------- MODULE Codec ----------------------------------
(***************************************************************************)
(* What the bytes of FINS commands and FINS/TCP frames say (driver.go,       *)
(* header.go, transport.go): pure encodings and decodings.  Bytes are        *)
(* numbers below 256.                                                        *)
(***************************************************************************)
EXTENDS Integers, Sequences

CONSTANTS
  Word64,     \* the values of the uint64 in which BCD is decoded: 2^64
  Nodes, Sids, Places, Bodies, Dates    \* inputs on which CodecExact looks

ASSUME CodecAssumption == Word64 \in Nat /\ Word64 > 100 /\ Word64 % 2 = 0

From(s, i)  == SubSeq(s, i, Len(s))
Uint16(x)   == <<(x \div 256) % 256, x % 256>>
Uint32(x)   == <<0, 0>> \o Uint16(x)             \* of lengths and small codes
Value(s)    == IF Len(s) = 2 THEN 256 * s[1] + s[2] ELSE 256 * s[3] + s[4]

--------------------------------------------------------------------------------
(* Headers *)

Byte     == 0..255
Word     == 0..65535
Command  == 0
Response == 1

\* Addresses are <<network, node, unit>>.
Addresses == Byte \X Byte \X Byte
Headers ==
  [messageType : {Command, Response}, responseRequired : BOOLEAN,
   gatewayCount : Byte, src : Addresses, dst : Addresses, serviceID : Byte]

DefaultHeader(type, required, src, dst, sid) ==
  [messageType |-> type, responseRequired |-> required, gatewayCount |-> 2,
   src |-> src, dst |-> dst, serviceID |-> sid]
DefaultCommandHeader(src, dst, sid) == DefaultHeader(Command, TRUE, src, dst, sid)
DefaultResponseHeader(h) == DefaultHeader(Response, FALSE, h.dst, h.src, h.serviceID)

EncodeHeader(h) ==
  <<128 + (IF h.responseRequired THEN 0 ELSE 1)
        + (IF h.messageType = Response THEN 64 ELSE 0), 0, h.gatewayCount>>
  \o h.dst \o h.src \o <<h.serviceID>>

\* Faulty: the addresses are read in the other order.
DecodeHeaderSwapped(b) ==
  [messageType |-> IF b[1] % 2 = 0 THEN Command ELSE Response,
   responseRequired |-> b[1] % 2 = 0, gatewayCount |-> b[3],
   src |-> SubSeq(b, 4, 6), dst |-> SubSeq(b, 7, 9), serviceID |-> b[10]]

\* icf&1<<6 is (icf&1)<<6 in Go: both flags are read from the lowest bit.
DecodeHeader(b) ==
  [messageType |-> IF b[1] % 2 = 0 THEN Command ELSE Response,
   responseRequired |-> b[1] % 2 = 0, gatewayCount |-> b[3],
   dst |-> SubSeq(b, 4, 6), src |-> SubSeq(b, 7, 9), serviceID |-> b[10]]

--------------------------------------------------------------------------------
(* Commands and responses, after the header *)

MemoryAddresses == [area : Byte, address : Word, bit : Byte]

EncodeMemoryAddress(a) == <<a.area>> \o Uint16(a.address) \o <<a.bit>>
DecodeMemoryAddress(b) ==
  [area |-> b[1], address |-> Value(SubSeq(b, 2, 3)), bit |-> b[4]]

ReadCommand(a, count) == <<1, 1>> \o EncodeMemoryAddress(a) \o Uint16(count)
WriteCommand(a, count, bytes) ==
  <<1, 2>> \o EncodeMemoryAddress(a) \o Uint16(count) \o bytes
ClockReadCommand == <<7, 1>>

\* Two-byte codes follow the header: the command's and, in a response, the end code.
HeaderSize == 10
CodeAt(b, k) == Value(SubSeq(b, HeaderSize + 2 * k + 1, HeaderSize + 2 * k + 2))

DecodeRequest(b) ==
  [header |-> DecodeHeader(SubSeq(b, 1, HeaderSize)), commandCode |-> CodeAt(b, 0),
   data |-> From(b, HeaderSize + 3)]
DecodeResponse(b) ==
  [header |-> DecodeHeader(SubSeq(b, 1, HeaderSize)), commandCode |-> CodeAt(b, 0),
   endCode |-> CodeAt(b, 1), data |-> From(b, HeaderSize + 5)]
EncodeResponse(r) ==
  EncodeHeader(r.header) \o Uint16(r.commandCode) \o Uint16(r.endCode) \o r.data

--------------------------------------------------------------------------------
(* FINS/TCP *)

Signature == <<70, 73, 78, 83>>
Frame(command, body) ==
  Signature \o Uint32(Len(body) + 8) \o Uint32(command) \o Uint32(0) \o body

\* The first message of a byte stream and what follows it; "short" if the
\* stream ends before it does.
ReadMessage(s) ==
  LET length == Value(SubSeq(s, 5, 8))
  IN IF Len(s) < 8 THEN [status |-> "short"]
     ELSE IF SubSeq(s, 1, 4) # Signature THEN [status |-> "signature"]
     ELSE IF length < 8 THEN [status |-> "length"]
     ELSE IF Len(s) < 8 + length THEN [status |-> "short"]
     ELSE [status |-> "ok", command |-> Value(SubSeq(s, 9, 12)),
           errorCode |-> Value(SubSeq(s, 13, 16)),
           body |-> SubSeq(s, 17, 8 + length), rest |-> From(s, 9 + length)]

--------------------------------------------------------------------------------
(* BCD, two digits a byte, and the clock *)

Nibbles(hi, lo) == 16 * hi + lo

\* The digits of x, the first one first; none of zero.
Digits(x) ==
  LET d[k \in Nat] == IF k = 0 THEN <<>> ELSE Append(d[k \div 10], k % 10) IN d[x]

EncodeBCD(x) ==
  IF x = 0 THEN <<15>>
  ELSE LET d == Digits(x) IN
       [i \in 1..((Len(d) + 1) \div 2) |->
          Nibbles(d[2*i - 1], IF 2*i <= Len(d) THEN d[2*i] ELSE 15)]

Overflow == -1
BadDigit == -2

\* The 64-bit product wraps before it is tested.
TimesTenPlus(x, digit) ==
  LET x5 == (4 * x + x) % Word64
  IN IF 2 * x5 >= Word64 \/ (2 * x5) % Word64 > (Word64 - 1) - digit THEN Overflow
     ELSE ((2 * x5) % Word64) + digit

\* An error stays; a digit above 9 is one.
Push(x, digit) == IF x < 0 THEN x ELSE IF digit > 9 THEN BadDigit
                                  ELSE TimesTenPlus(x, digit)

DecodeBCD(bcd) ==
  LET x[i \in 0..Len(bcd)] ==
        IF i = 0 THEN 0
        ELSE LET hi == Push(x[i - 1], bcd[i] \div 16)
             IN IF bcd[i] % 16 = 15 /\ i = Len(bcd) THEN hi
                ELSE Push(hi, bcd[i] % 16)
  IN x[Len(bcd)]

\* encodeClock and ReadClock: a clock is <<year, month, day, hour, minute, second>>.
EncodeClock(t) ==
  [i \in 1..6 |-> Nibbles((t[i] % 100) \div 10, t[i] % 10)]
DecodeClock(b) ==
  LET v == [i \in 1..6 |-> DecodeBCD(<<b[i]>>)]
  IN [v EXCEPT ![1] = @ + (IF @ < 50 THEN 2000 ELSE 1900)]
--------------------------------------------------------------------------------
(* Correctness *)

\* A frame's length fits the two low bytes of its field; four digits make a year.
ASSUME InputsAssumption ==
  /\ Nodes \subseteq Addresses /\ Sids \subseteq Byte /\ Places \subseteq MemoryAddresses
  /\ \A body \in Bodies : body \in Seq(Byte) /\ Len(body) <= 65535 - 8
  /\ \A t \in Dates : /\ t \in (1950..2049) \X (1..12) \X (1..31)
                               \X (0..23) \X (0..59) \X (0..59)

\* The headers the constructors build are read back, whatever the flag bits do.
HeadersExact ==
  \A src, dst \in Nodes : \A sid \in Sids :
    LET h == DefaultCommandHeader(src, dst, sid)
        r == DefaultResponseHeader(h)
    IN /\ DecodeHeader(EncodeHeader(h)) = h
       /\ DecodeHeader(EncodeHeader(r)) = r
       /\ r.dst = src /\ r.src = dst /\ r.serviceID = sid

\* The simulator finds in a command what the client put there, and the client in
\* a response what the simulator did.
CommandsExact ==
  \A a \in Places : \A body \in Bodies : \A sid \in Sids :
    LET h == DefaultCommandHeader(<<0, 1, 2>>, <<3, 4, 5>>, sid)
        n == Len(body)
        w == DecodeRequest(EncodeHeader(h) \o WriteCommand(a, n, body))
        r == DecodeRequest(EncodeHeader(h) \o ReadCommand(a, n))
        e == [header |-> DefaultResponseHeader(h), commandCode |-> w.commandCode,
              endCode |-> n, data |-> body]
    IN /\ \A q \in {w, r} : /\ DecodeMemoryAddress(SubSeq(q.data, 1, 4)) = a
                            /\ Value(SubSeq(q.data, 5, 6)) = n
       /\ From(w.data, 7) = body /\ From(r.data, 7) = <<>>
       /\ DecodeResponse(EncodeResponse(e)) = e

\* A frame is read whole, with nothing of the next one, and no part of it is.
FramesExact ==
  \A body, next \in Bodies : \A command \in {0, 2} :
    LET f == Frame(command, body)
    IN /\ ReadMessage(f \o next) = [status |-> "ok", command |-> command,
                                    errorCode |-> 0, body |-> body, rest |-> next]
       /\ \A i \in 0..(Len(f) - 1) : ReadMessage(SubSeq(f, 1, i)).status = "short"

\* A number that fits is decoded to itself, one of up to twice 2^64 is refused;
\* a larger one may wrap twice and be taken.
BCDExact ==
  \A x \in 0..(2 * Word64 - 1) :
    DecodeBCD(EncodeBCD(x)) = IF x < Word64 THEN x ELSE Overflow

\* The clock of the simulator arrives unchanged in the years 1950 to 2049.
ClockExact == \A t \in Dates : DecodeClock(EncodeClock(t)) = t

\* Every conversion is undone by its inverse, on the values the program gives it.
CodecExact ==
  HeadersExact /\ CommandsExact /\ FramesExact /\ BCDExact /\ ClockExact
================================================================================
