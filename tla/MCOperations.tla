------------------------------ MODULE MCOperations ------------------------------
(* Operations on a small instance: 2^16 is 16, an area has 8 bytes.  Caller c1  *)
(* makes one of the calls at a boundary, over any client and chain, caller c2   *)
(* one of those that contend with it.                                           *)
EXTENDS Operations, TLC

CONSTANTS c1, c2

Both == {c1, c2}
Call(name, area, addr, bit_, n, v) ==
  [name |-> name, area |-> area, addr |-> addr, bit |-> bit_, n |-> n, v |-> v]
On(name, places, v) == {Call(name, "dm", p[1], 0, p[2], v) : p \in places}
OnBits(name, places, v) == {Call(name, "dmbit", p[1], p[2], p[3], v) : p \in places}

Boundary ==
  On("ReadWords", {<<0, 0>>, <<0, 2>>, <<6, 1>>, <<7, 1>>, <<15, 1>>, <<0, 4>>, <<0, 8>>}, 0)
  \cup On("ReadBytes", {<<2, 3>>, <<0, 4>>, <<0, 9>>, <<2, 15>>}, 0)
  \cup OnBits("ReadBits", {<<0, 0, 0>>, <<0, 0, 2>>, <<0, 7, 1>>, <<15, 1, 1>>, <<0, 0, 8>>}, 0)
  \cup On("WriteWords", {<<0, 0>>, <<0, 1>>, <<6, 1>>, <<6, 2>>, <<0, 4>>, <<0, 8>>, <<0, 17>>}, 2)
  \cup On("WriteString", {<<0, 0>>, <<0, 3>>, <<0, 16>>}, 3)
  \cup On("WriteBytes", {<<0, 2>>, <<0, 4>>, <<6, 1>>}, 4)
  \cup OnBits("WriteBits", {<<0, 0, 0>>, <<0, 0, 2>>, <<0, 2, 5>>, <<15, 1, 1>>}, 1)
  \cup OnBits("SetBit", {<<0, 0, 1>>}, 0) \cup OnBits("ResetBit", {<<0, 7, 1>>}, 0)
  \cup OnBits("ToggleBit", {<<0, 0, 1>>, <<4, 3, 1>>}, 0)
  \cup {Call("ReadWords", "cio", 0, 0, 1, 0), Call("WriteBits", "ciobit", 0, 0, 1, 1)}
Contending ==
  OnBits("ToggleBit", {<<0, 0, 1>>}, 0) \cup OnBits("SetBit", {<<0, 0, 1>>}, 0)
  \cup On("WriteWords", {<<0, 1>>}, 5)

TheCalls  == (c1 :> Boundary) @@ (c2 :> Contending)
TheKinds  == (c1 :> {"udp", "tcp", "inline"}) @@ (c2 :> {"udp", "inline"})
TheChains == (c1 :> {<<>>, <<"metrics", "retry">>, <<"logging", "tracing", "validate">>,
                    <<"readonly", "retryTimeouts", "metrics">>,
                    <<"retry", "metrics", "range">>}) @@ (c2 :> {<<>>})
Words == {"dm", "cio"}
Bits  == {"dmbit", "ciobit"}
Dm    == {"dm"}
DmBit == {"dmbit"}
Allowed == {"dm", "dmbit"}
Low     == [x \in Allowed |-> 0]
High    == [x \in Allowed |-> IF x = "dm" THEN 2 ELSE 6]
Codes   == [x \in Words \cup Bits |-> CASE x = "dm" -> 130 [] x = "cio" -> 176
                                        [] x = "dmbit" -> 2 [] OTHER -> 48]

\* Inputs of the codec.
SomeNodes  == {<<0, 1, 0>>, <<3, 250, 255>>}
SomeSids   == {0, 1, 255}
SomePlaces == {[area |-> 130, address |-> x, bit |-> y] : x \in {0, 255, 256, 65535}, y \in {0, 15}}
SomeBodies == {<<>>, <<70>>, <<70, 73, 78, 83, 0, 0, 0, 8>>, [i \in 1..300 |-> i % 256]}
SomeDates  == {<<y, m, 28, 23, 0, 59>> : y \in {1950, 1999, 2000, 2049}, m \in {1, 12}}
================================================================================
