------------------------------- MODULE WordReads -------------------------------
(***************************************************************************)
(* What ReadWords promises, however its requests are batched: a request is   *)
(* answered once, with an error or with the words it asked for, all of them  *)
(* as they were at one moment between the request and its answer.           *)
(***************************************************************************)
EXTENDS Integers

CONSTANTS Requests,   \* calls of ReadWords
          Reads,      \* what a call may ask for: area, address and count
          MaxWrites   \* bound: changes of the PLC's memory

VARIABLES
  version,  \* number of changes of the PLC's memory so far
  state,    \* state[r]: "idle", "asked" or "done"
  read,     \* read[r]: the words call r asks for
  since,    \* since[r]: version of the memory when r was called, 0 when done
  answer    \* answer[r]: what r returned

readVars == <<version, state, read, since, answer>>

Nothing  == [area |-> 0, address |-> 0, count |-> 0]
NoAnswer == [status |-> "none", read |-> Nothing, version |-> 0]
Failed   == [status |-> "failed", read |-> Nothing, version |-> 0]
Words(q, v) == [status |-> "words", read |-> q, version |-> v]

ReadsInit ==
  /\ version = 0
  /\ state  = [r \in Requests |-> "idle"]
  /\ read   = [r \in Requests |-> Nothing]
  /\ since  = [r \in Requests |-> 0]
  /\ answer = [r \in Requests |-> NoAnswer]

Move(r, from, to) == state[r] = from /\ state' = [state EXCEPT ![r] = to]

Ask(r) ==
  /\ Move(r, "idle", "asked")
  /\ \E q \in Reads : read' = [read EXCEPT ![r] = q]
  /\ since' = [since EXCEPT ![r] = version]
  /\ UNCHANGED <<version, answer>>

Answer(r) ==
  /\ Move(r, "asked", "done")
  /\ \E v \in since[r]..version :
       answer' = [answer EXCEPT ![r] = Words(read[r], v)]
  /\ since' = [since EXCEPT ![r] = 0]
  /\ UNCHANGED <<version, read>>

Fail(r) ==
  /\ Move(r, "asked", "done")
  /\ answer' = [answer EXCEPT ![r] = Failed]
  /\ since' = [since EXCEPT ![r] = 0]
  /\ UNCHANGED <<version, read>>

Write ==
  /\ version < MaxWrites
  /\ version' = version + 1
  /\ UNCHANGED <<state, read, since, answer>>

ReadsNext == Write \/ \E r \in Requests : Ask(r) \/ Answer(r) \/ Fail(r)

ReadsSpec == ReadsInit /\ [][ReadsNext]_readVars
================================================================================
