---------------------------------- MODULE Memory ----------------------------------
(***************************************************************************)
(* The memory of the simulator and its accesses (server.go): byte arrays    *)
(* addressed by uint16, with the arithmetic of uint16 on their bounds.       *)
(*                                                                          *)
(* A request q is what the handler finds in a command: q.write, q.area,      *)
(* q.addr, q.bit, q.count, q.payload and, if q.wire, q.room: the bytes of    *)
(* the receive buffer behind the item count, for a datagram the rest of the  *)
(* 1024, with what earlier datagrams left there, for a FINS/TCP message its  *)
(* payload.  The inline client calls the accesses directly: not q.wire.      *)
(***************************************************************************)
EXTENDS Integers, Sequences

CONSTANTS
  Wrap,        \* 2^16
  AreaSize,    \* DM_AREA_SIZE: half of it
  PayloadAt,   \* 6, the offset of the payload in a command's data
  WordAreas, BitAreas,
  Junk         \* marks a byte that an earlier datagram left in the buffer

ASSUME MemoryAssumption ==
  /\ {Wrap, AreaSize, PayloadAt} \subseteq Nat
  /\ AreaSize > 0 /\ 2 * AreaSize <= Wrap /\ PayloadAt + AreaSize < Wrap
  /\ WordAreas \cap BitAreas = {} /\ Junk \in Nat \ {0, 1}

Cells == 0..(AreaSize - 1)
Areas == WordAreas \cup BitAreas
Blank == [a \in Areas |-> [i \in Cells |-> 0]]

\* Bytes an access of q's area has for its items, as a uint16: the payload's
\* length, and what is added to the start.
ItemBytes(q) == (IF q.area \in WordAreas THEN q.count * 2 ELSE q.count) % Wrap

\* A word's address is a byte offset, the bit number of a bit is added to it.
Start(q) == IF q.area \in WordAreas THEN q.addr ELSE (q.addr + q.bit) % Wrap

EndOneMore(q) == (Start(q) + ItemBytes(q) + 1) % Wrap        \* faulty
End(q) == (Start(q) + ItemBytes(q)) % Wrap

PayloadEndTwice(q) == (PayloadAt + q.count * 2) % Wrap      \* faulty: bits, too
PayloadEnd(q) == (PayloadAt + ItemBytes(q)) % Wrap

\* The slices are taken before and after the range check; one out of order or
\* beyond the buffer ends the process.
Verdict(q) ==
  IF q.area \notin Areas THEN "unsupported"
  ELSE IF q.write /\ q.wire /\ PayloadEnd(q) \notin PayloadAt..(PayloadAt + q.room)
       THEN "panic"
  ELSE IF End(q) > AreaSize THEN "range"
  ELSE IF End(q) < Start(q) THEN "panic" ELSE "ok"

\* What an access that is "ok" reads, and what it leaves.
Data(mem, q) == [i \in 1..(End(q) - Start(q)) |-> mem[q.area][Start(q) + i - 1]]

PayloadByte(q, i) == IF i <= Len(q.payload) THEN q.payload[i] ELSE Junk

\* The cells that are copied to: a payload of its own may be shorter.
Copied(q) ==
  {i \in Start(q)..(End(q) - 1) : q.wire \/ i - Start(q) < Len(q.payload)}

Written(mem, q) ==
  [mem EXCEPT ![q.area] =
     [i \in Cells |-> IF i \in Copied(q) THEN PayloadByte(q, i - Start(q) + 1)
                      ELSE mem[q.area][i]]]
================================================================================
