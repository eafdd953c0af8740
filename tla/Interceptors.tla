------------------------------- MODULE Interceptors -------------------------------
(***************************************************************************)
(* The interceptors that decide whether an operation is attempted           *)
(* (interceptor_validation.go), and how often (interceptor_retry.go), as     *)
(* predicates on the operation's InterceptorInfo: info.name, .area, .addr,   *)
(* .count (0 but for reads) and .len, the length of the data of a write (0   *)
(* but for writes).                                                         *)
(***************************************************************************)
EXTENDS Integers, Sequences

CONSTANTS
  Width,          \* 2^16
  WordBits,       \* 16
  MaxRead, MaxWrite,       \* ValidationInterceptorWithLimits
  AllowedAreas, Lowest, Highest,   \* AddressRangeValidator, per area
  MaxRetries

ASSUME InterceptorsAssumption ==
  /\ {Width, WordBits, MaxRead, MaxWrite, MaxRetries} \subseteq Nat /\ Width > 0
  /\ {Lowest, Highest} \subseteq [AllowedAreas -> 0..(Width - 1)]

WriteOps == {"WriteWords", "WriteBytes", "WriteString", "WriteBits", "SetBit",
             "ResetBit", "ToggleBit"}

\* The limits are uint16, and so is the length of the data when it is compared.
Validated == {"ReadWords", "ReadBytes", "ReadBits", "WriteWords", "WriteBytes",
              "WriteString", "WriteBits"}
Limit(info) ==
  CASE info.name \in {"ReadWords", "ReadBytes"}     -> MaxRead
    [] info.name = "ReadBits"                       -> (MaxRead * WordBits) % Width
    [] info.name = "WriteWords"                     -> MaxWrite
    [] info.name \in {"WriteBytes", "WriteString"} -> (MaxWrite * 2) % Width
    [] info.name = "WriteBits"                      -> (MaxWrite * WordBits) % Width

\* Faulty: an empty write passes.
ValidEmpty(info) ==
  info.name \in Validated =>
    /\ info.name \notin WriteOps => info.count > 0
    /\ (info.count + info.len) % Width <= Limit(info)

Valid(info) ==
  info.name \in Validated =>
    /\ info.count + info.len > 0
    /\ (info.count + info.len) % Width <= Limit(info)

\* The extent of a write is not looked at.
InRange(info) ==
  /\ info.area \in AllowedAreas
  /\ info.addr \in Lowest[info.area]..Highest[info.area]
  /\ info.count > 0 => (info.addr + info.count - 1) % Width <= Highest[info.area]

ReadOnly(info) == info.name \notin WriteOps

Retriers == {"retry", "retryTimeouts"}

\* These log, trace or count: they invoke the rest once, with the context of the
\* call, and return what it returned.
Observers == {"logging", "tracing", "metrics"}

Names == Observers \cup Retriers \cup {"validate", "range", "readonly"}

Admits(interceptor, info) ==
  CASE interceptor = "validate" -> Valid(info)
    [] interceptor = "range"    -> InRange(info)
    [] interceptor = "readonly" -> ReadOnly(info)
    [] interceptor \in Observers \cup Retriers -> TRUE

\* ChainInterceptors: each is around those that follow it.  A chain has at most
\* one retrier, and what follows it is invoked again by each attempt.
In(i, chain) == \E k \in DOMAIN chain : chain[k] = i
RetryAt(chain) ==
  CHOOSE k \in 0..Len(chain) : IF \E i \in Retriers : In(i, chain)
                              THEN k > 0 /\ chain[k] \in Retriers ELSE k = 0
Outer(chain) == SubSeq(chain, 1, RetryAt(chain))
Inner(chain) == SubSeq(chain, RetryAt(chain) + 1, Len(chain))
Admitted(chain, info) == \A k \in DOMAIN chain : Admits(chain[k], info)

\* RetryInterceptor retries any error, the conditional one those it is told to.
RetriesOf(chain) == IF RetryAt(chain) > 0 THEN MaxRetries ELSE 0
MayRetry(chain, error) == In("retry", chain) \/ error = "timeout"

\* MetricsCollector: a call that gets as far is counted when it returns, and as an
\* error if it returns one.
NoCounts == [calls |-> 0, errors |-> 0]
Reaches(i, chain, info) ==
  \E k \in DOMAIN chain : chain[k] = i /\ \A j \in 1..(k - 1) : Admits(chain[j], info)
Counted(counts, failed) ==
  [calls |-> counts.calls + 1, errors |-> counts.errors + (IF failed THEN 1 ELSE 0)]
================================================================================
