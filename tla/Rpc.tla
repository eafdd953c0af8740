---------------------------------- MODULE Rpc ----------------------------------
(***************************************************************************)
(* What the client's request/response layer promises to its callers.       *)
(* A caller has at most one operation outstanding.  An operation is         *)
(* issued, the PLC may execute it, and the caller gets back either the      *)
(* answer of a command that was executed or an error.  The answer belongs   *)
(* to the caller's own operation unless at least Window operations were     *)
(* issued between the two: the service id of a FINS header is one byte.     *)
(* An operation that returned an error may still be executed later.         *)
(***************************************************************************)
EXTENDS Integers

CONSTANTS Callers,   \* goroutines that call operations of one client
          Window,    \* operations after which a service id is used again
          MaxIssue   \* bound: operations issued in one behaviour

VARIABLES
  issued,    \* number of operations issued; they are numbered from 1
  pending,   \* pending[c]: number of the operation c waits for, 0 if none
  executed,  \* the operations the PLC has executed
  result     \* result[c]: last answer returned to c 

rpcVars == <<issued, pending, executed, result>>

Issues  == 1..MaxIssue
\* Before the first answer; afterwards, the operation and the one answered.
NoAnswer == [call |-> 0, from |-> 0]

\* Two operations that may carry the same service id.
Apart(i, j) == i - j >= Window \/ j - i >= Window

RpcInit ==
  /\ issued   = 0
  /\ pending  = [c \in Callers |-> 0]
  /\ executed = {}
  /\ result   = [c \in Callers |-> NoAnswer]

Start(c) ==
  /\ pending[c] = 0
  /\ issued < MaxIssue
  /\ issued'  = issued + 1
  /\ pending' = [pending EXCEPT ![c] = issued + 1]
  /\ UNCHANGED <<executed, result>>

Execute(k) ==
  /\ k \in 1..issued
  /\ executed' = executed \cup {k}
  /\ UNCHANGED <<issued, pending, result>>

Return(c, j) ==
  /\ pending[c] # 0
  /\ j \in executed
  /\ j = pending[c] \/ Apart(j, pending[c])
  /\ result'  = [result EXCEPT ![c] = [call |-> pending[c], from |-> j]]
  /\ pending' = [pending EXCEPT ![c] = 0]
  /\ UNCHANGED <<issued, executed>>

Fail(c) ==
  /\ pending[c] # 0
  /\ pending' = [pending EXCEPT ![c] = 0]
  /\ UNCHANGED <<issued, executed, result>>

RpcNext ==
  \/ \E c \in Callers : Start(c) \/ Fail(c) \/ \E j \in Issues : Return(c, j)
  \/ \E k \in Issues : Execute(k)

RpcSpec == RpcInit /\ [][RpcNext]_rpcVars
================================================================================
