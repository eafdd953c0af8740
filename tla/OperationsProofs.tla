---------------------------- MODULE OperationsProofs ----------------------------
(***************************************************************************)
(* Proofs about the operations of the clients, for any callers, calls,       *)
(* chains, areas and sizes: their inductive invariant and what follows from   *)
(* it.  RequestProofs has the lemmas about a request and its execution.       *)
(***************************************************************************)
EXTENDS RequestProofs, CodecProofs, FiniteSetTheorems

--------------------------------------------------------------------------------
(* The inductive invariant *)

\* The requests of a caller that are under way, and with them those executed.
NetOf(c) == {q \in net : q.from = c}
Mine(c)  == did[c] \cup NetOf(c)

\* One of its attempts so far.
Sent(c, q) == q.try \in 1..try[c] /\ Asked(c, q)

Stages  == {"idle", "ready", "waiting", "done", "panicked"}
Answers == [verdict : {"ok", "range", "unsupported", "panic"}, try : Nat, data : Seq(Nat)]

\* TypeOK, but for the number of attempts, and what requests and answers are.
Types ==
  /\ CallInv
  /\ st \in [Callers -> Stages] /\ phase \in [Callers -> 1..2]
  /\ left \in [Callers -> 0..MaxRetries] /\ try \in [Callers -> Nat]
  /\ bit \in [Callers -> 0..1] /\ out \in [Callers -> {"none", "ok"} \cup Errors]
  /\ counts \in [Callers -> [calls : Nat, errors : Nat]]
  /\ live \in [Callers -> BOOLEAN] /\ gaveUp \in [Callers -> BOOLEAN]
  /\ touched \in [Callers -> BOOLEAN] /\ up \in BOOLEAN /\ closed \in BOOLEAN
  /\ mem \in Memories /\ net \subseteq RequestSet
  /\ did \in [Callers -> SUBSET RequestSet] /\ ans \in [Callers -> {NoAnswer} \cup Answers]

--------------------------------------------------------------------------------
(* What a step is to a caller *)

Noted(d, chains, failed) ==
  counts'[d] = IF \E s \in chains : Reaches("metrics", s, Info(d))
               THEN Counted(counts[d], failed) ELSE counts[d]
Quiet(d)  == ans'[d] = ans[d] /\ did'[d] = did[d] /\ NetOf(d)' = NetOf(d)
Placed(d) == phase'[d] = phase[d] /\ bit'[d] = bit[d]

\* Somebody else's step, or one that leaves it alone.
Still(d) ==
  /\ st'[d] = st[d] /\ left'[d] = left[d] /\ try'[d] = try[d] /\ counts'[d] = counts[d]
  /\ out'[d] = out[d] /\ gaveUp'[d] = gaveUp[d] /\ Placed(d) /\ Quiet(d)

Invoked(d) ==
  /\ st[d] = "idle" /\ try'[d] = try[d] /\ gaveUp'[d] = gaveUp[d] /\ Placed(d) /\ Quiet(d)
  /\ \/ /\ Admitted(Outer(ItsChain(d)), Info(d)) /\ st'[d] = "ready"
        /\ left'[d] = RetriesOf(ItsChain(d)) /\ counts'[d] = counts[d] /\ out'[d] = out[d]
     \/ /\ ~Admitted(Outer(ItsChain(d)), Info(d)) /\ st'[d] = "done"
        /\ left'[d] = left[d] /\ Noted(d, {Outer(ItsChain(d))}, TRUE) /\ out'[d] = "refused"

\* An attempt fails: there is another, or an error is returned.
Failed(d) ==
  /\ st[d] \in {"ready", "waiting"} /\ try'[d] = try[d] /\ Placed(d) /\ Quiet(d)
  /\ gaveUp[d] => gaveUp'[d]
  /\ st[d] = "waiting" => \/ gaveUp'[d] /\ kind[d] # "inline"
                          \/ ans[d] # NoAnswer /\ ans[d].verdict # "ok"
  /\ \/ /\ left[d] > 0 /\ st'[d] = "ready" /\ left'[d] = left[d] - 1
        /\ Noted(d, {Inner(ItsChain(d))}, TRUE) /\ out'[d] = out[d]
     \/ /\ st'[d] = "done" /\ left'[d] = left[d] /\ out'[d] \in Errors
        /\ Noted(d, {Outer(ItsChain(d)), Inner(ItsChain(d))}, TRUE)

Died(d) ==
  /\ st[d] = "ready" \/ Answered(d)
  /\ st'[d] = "panicked"
  /\ left'[d] = left[d] /\ try'[d] = try[d] /\ counts'[d] = counts[d]
  /\ out'[d] = out[d] /\ gaveUp'[d] = gaveUp[d] /\ Placed(d) /\ Quiet(d)

Attempting(d) ==
  /\ Ready(d) /\ ~MakesNoRequest(d) /\ try'[d] = try[d] + 1
  /\ left'[d] = left[d] /\ counts'[d] = counts[d] /\ out'[d] = out[d]
  /\ gaveUp'[d] = gaveUp[d] /\ Placed(d)
SentOff(d) ==
  /\ Attempting(d) /\ kind[d] # "inline" /\ st'[d] = "waiting" /\ ans'[d] = NoAnswer
  /\ NetOf(d)' = NetOf(d) \cup {Request(d)} /\ did'[d] = did[d]
Accessed(d) ==
  /\ Attempting(d) /\ kind[d] = "inline" /\ ans'[d] = Result(Request(d), Verdict(Request(d)))
  /\ st'[d] = IF Verdict(Request(d)) = "panic" THEN "panicked" ELSE "waiting"
  /\ NetOf(d)' = NetOf(d)
  /\ did'[d] = IF Verdict(Request(d)) = "ok" THEN did[d] \cup {Request(d)} ELSE did[d]

Returned(d) ==
  /\ Usable(d) /\ ~Toggling(d) /\ st'[d] = "done" /\ out'[d] = "ok"
  /\ left'[d] = left[d] /\ try'[d] = try[d] /\ gaveUp'[d] = gaveUp[d]
  /\ Noted(d, {Outer(ItsChain(d)), Inner(ItsChain(d))}, FALSE) /\ Placed(d) /\ Quiet(d)
ToggledOn(d) ==
  /\ Usable(d) /\ Toggling(d) /\ st'[d] = "idle" /\ phase'[d] = 2 /\ bit'[d] = TakenBit(d)
  /\ left'[d] = left[d] /\ try'[d] = try[d] /\ out'[d] = out[d] /\ gaveUp'[d] = gaveUp[d]
  /\ Quiet(d)

\* The simulator took its request q.
Served(d, q) ==
  /\ q \in NetOf(d) /\ NetOf(d)' = NetOf(d) \ {q}
  /\ st'[d] = st[d] /\ left'[d] = left[d] /\ try'[d] = try[d] /\ counts'[d] = counts[d]
  /\ out'[d] = out[d] /\ gaveUp'[d] = gaveUp[d] /\ Placed(d)
  /\ did'[d] = IF Verdict(q) = "ok" THEN did[d] \cup {q} ELSE did[d]
  /\ ans'[d] = IF q.try = try[d] /\ Verdict(q) # "panic" THEN Result(q, Verdict(q)) ELSE ans[d]

Stepped(d) ==
  \/ Still(d) \/ Invoked(d) \/ Failed(d) \/ Died(d) \/ SentOff(d) \/ Accessed(d)
  \/ Returned(d) \/ ToggledOn(d) \/ \E q \in net : Served(d, q)

\* A call and its client stay what they are.
LEMMA SameCalls == [Next]_vars => callVars' = callVars
BY DEF Next, vars, CallNext, Invoke, Refuse, CallerPanics, Send, Access, ReturnError,
       ReturnPanics, Return, ToggleOn, Timeout, GiveUp, Expire, Close, Serve, Die, Untouched

\* A failure, and the collector's note, are the caller's own.
LEMMA FailIs ==
  ASSUME Types, NEW c \in Callers, NEW error \in Errors, NEW alive, Fail(c, error, alive),
         st[c] \in {"ready", "waiting"}
  PROVE  /\ try' = try /\ phase' = phase /\ bit' = bit
         /\ \A d \in Callers \ {c} : /\ st'[d] = st[d] /\ left'[d] = left[d]
                                     /\ counts'[d] = counts[d] /\ out'[d] = out[d]
         /\ \/ /\ left[c] > 0 /\ st'[c] = "ready" /\ left'[c] = left[c] - 1
               /\ Noted(c, {Inner(ItsChain(c))}, TRUE) /\ out'[c] = out[c]
            \/ /\ st'[c] = "done" /\ left'[c] = left[c] /\ out'[c] \in Errors
               /\ Noted(c, {Outer(ItsChain(c)), Inner(ItsChain(c))}, TRUE)
<1>1. CASE TryAgain(c) /\ left[c] > 0
  BY <1>1 DEF TryAgain, Types, Note, Noted
<1>2. CASE Finish(c, error)
  <2>1. (error # "ok") = TRUE
    BY DEF Errors, Refusals
  <2>2. QED BY <1>2, <2>1 DEF Finish, Types, Note, Noted
<1>3. QED BY <1>1, <1>2 DEF Fail

\* What other callers' steps leave alone.
LEMMA Others ==
  ASSUME Types, [Next]_vars, NEW d \in Callers,
         ~CallNext(d), ~\E q \in NetOf(d) : Serve(q)
  PROVE  Still(d)
<1> USE DEF Types, Still, Placed, Quiet
<1>1. ASSUME NEW c \in Callers, CallNext(c) PROVE Still(d)
  <2>0. c # d
    BY <1>1
  <2>1. CASE Invoke(c)
    <3>1. counts'[d] = counts[d]
      <4>1. counts' = counts \/ Note(c, {Outer(ItsChain(c))}, TRUE)
        BY <2>1 DEF Invoke
      <4>2. QED BY <2>0, <4>1 DEF Note
    <3>2. /\ st'[d] = st[d] /\ left'[d] = left[d] /\ out'[d] = out[d]
          /\ phase' = phase /\ try' = try /\ bit' = bit
      BY <2>0, <2>1 DEF Invoke
    <3>3. gaveUp' = gaveUp /\ ans' = ans /\ did' = did /\ net' = net
      BY <2>1 DEF Invoke, simVars
    <3>4. QED BY <3>1, <3>2, <3>3 DEF NetOf
  <2>2. ASSUME NEW error \in Errors, NEW alive, Fail(c, error, alive), st[c] \in {"ready", "waiting"},
               gaveUp'[d] = gaveUp[d], ans' = ans, did' = did, net' = net
        PROVE  Still(d)
    BY <2>0, <2>2, FailIs DEF NetOf
  <2>3. CASE Refuse(c)
    <3>1. \E error \in Errors, alive \in BOOLEAN : Fail(c, error, alive)
      BY <2>3 DEF Refuse, Errors, Refusals
    <3>2. st[c] \in {"ready", "waiting"} /\ gaveUp' = gaveUp /\ ans' = ans /\ did' = did /\ net' = net
      BY <2>3 DEF Refuse, Attempted, simVars
    <3>3. QED BY <2>2, <3>1, <3>2
  <2>4. CASE CallerPanics(c) \/ ReturnPanics(c)
    BY <2>0, <2>4 DEF CallerPanics, ReturnPanics, Die, NetOf
  <2>5. CASE Send(c)
    <3>1. Request(c).from = c
      BY DEF Request
    <3>2. QED BY <2>0, <2>5, <3>1 DEF Send, simVars, NetOf
  <2>6. CASE Access(c)
    <3>1. Request(c).from = c
      BY DEF Request
    <3> DEFINE q == Request(c)
    <3>2. did'[d] = did[d]
      <4> HIDE DEF q
      <4>1. Execute(q, Verdict(q)) /\ q.from = c
        BY <2>6, <3>1 DEF Access, q
      <4>2. QED BY <2>0, <4>1 DEF Execute
    <3>3. QED BY <2>0, <2>6, <3>2 DEF Access, NetOf
  <2>7. CASE ReturnError(c)
    <3>1. "endcode" \in Errors
      BY DEF Errors
    <3>2. QED BY <2>2, <2>7, <3>1 DEF ReturnError, Untouched, Answered, simVars
  <2>8. CASE Return(c)
    BY <2>0, <2>8 DEF Return, Finish, Note, Untouched, simVars, NetOf
  <2>9. CASE ToggleOn(c)
    BY <2>0, <2>9 DEF ToggleOn, Note, Untouched, simVars, NetOf
  <2>10. CASE Timeout(c)
    <3>1. "timeout" \in Errors
      BY DEF Errors
    <3>2. QED BY <2>0, <2>2, <2>10, <3>1 DEF Timeout, simVars
  <2>11. CASE GiveUp(c)
    <3>1. "context" \in Errors
      BY DEF Errors, Refusals
    <3>2. QED BY <2>0, <2>2, <2>11, <3>1 DEF GiveUp, simVars
  <2>12. CASE Expire(c)
    BY <2>12 DEF Expire, tryVars, simVars, NetOf
  <2>13. QED BY <1>1, <2>1, <2>3, <2>4, <2>5, <2>6, <2>7, <2>8, <2>9, <2>10, <2>11, <2>12 DEF CallNext
<1>2. ASSUME NEW q \in net, Serve(q) PROVE Still(d)
  <2>1. q.from # d
    BY <1>2 DEF NetOf
  <2>2. NetOf(d)' = NetOf(d)
    BY <1>2, <2>1 DEF Serve, NetOf
  <2>3. did'[d] = did[d] /\ ans'[d] = ans[d]
    BY <1>2, <2>1 DEF Serve, Execute
  <2>4. QED BY <1>2, <2>2, <2>3 DEF Serve, tryVars
<1>3. CASE Close \/ UNCHANGED vars
  BY <1>3 DEF Close, vars, tryVars, simVars, NetOf
<1>4. QED BY <1>1, <1>2, <1>3 DEF Next

\* What its own steps are.
LEMMA Own ==
  ASSUME Types, NEW d \in Callers, CallNext(d)
  PROVE  Stepped(d)
<1> USE DEF Types, Placed, Quiet
<1>1. CASE Invoke(d)
  <2>1. Invoked(d)
    <3>1. st[d] = "idle" /\ try' = try /\ phase' = phase /\ bit' = bit
      BY <1>1 DEF Invoke
    <3>2. gaveUp' = gaveUp /\ Quiet(d)
      BY <1>1 DEF Invoke, simVars, NetOf
    <3>3. CASE Admitted(Outer(ItsChain(d)), Info(d))
      <4>1. /\ st'[d] = "ready" /\ left'[d] = RetriesOf(ItsChain(d))
            /\ counts'[d] = counts[d] /\ out'[d] = out[d]
        BY <1>1, <3>3 DEF Invoke
      <4>2. QED BY <3>1, <3>2, <3>3, <4>1 DEF Invoked
    <3>4. CASE ~Admitted(Outer(ItsChain(d)), Info(d))
      <4>1. st'[d] = "done" /\ left'[d] = left[d] /\ out'[d] = "refused"
        BY <1>1, <3>4 DEF Invoke
      <4>2. Noted(d, {Outer(ItsChain(d))}, TRUE)
        BY <1>1, <3>4 DEF Invoke, Note, Noted
      <4>3. QED BY <3>1, <3>2, <3>4, <4>1, <4>2 DEF Invoked
    <3>5. QED BY <3>3, <3>4
  <2>2. QED BY <2>1 DEF Stepped
<1>2. ASSUME NEW error \in Errors, NEW alive, Fail(d, error, alive), st[d] \in {"ready", "waiting"},
             gaveUp[d] => gaveUp'[d], ans' = ans, did' = did, net' = net,
             st[d] = "waiting" => \/ gaveUp'[d] /\ kind[d] # "inline"
                                  \/ ans[d] # NoAnswer /\ ans[d].verdict # "ok"
      PROVE  Stepped(d)
  <2>1. Failed(d)
    <3>1. Quiet(d)
      BY <1>2 DEF NetOf
    <3>2. QED BY <1>2, <3>1, FailIs DEF Failed
  <2>2. QED BY <2>1 DEF Stepped
<1>3. CASE Refuse(d)
  <2>1. \E error \in Errors, alive \in BOOLEAN : Fail(d, error, alive)
    BY <1>3 DEF Refuse, Errors, Refusals
  <2>2. st[d] = "ready" /\ gaveUp' = gaveUp /\ ans' = ans /\ did' = did /\ net' = net
    BY <1>3 DEF Refuse, Attempted, simVars
  <2>3. QED BY <1>2, <2>1, <2>2
<1>4. CASE CallerPanics(d) \/ ReturnPanics(d)
  <2>1. Died(d)
    BY <1>4 DEF CallerPanics, ReturnPanics, Die, NetOf, Died, Ready, Attempted, Answered
  <2>2. QED BY <2>1 DEF Stepped
<1>5. CASE Send(d)
  <2>1. Request(d).from = d
    BY DEF Request
  <2>2. SentOff(d)
    BY <1>5, <2>1 DEF Send, simVars, NetOf, SentOff, Attempting
  <2>3. QED BY <2>2 DEF Stepped
<1>6. CASE Access(d)
  <2>1. Request(d).from = d
    BY DEF Request
  <2> DEFINE q == Request(d)
  <2>2. did'[d] = IF Verdict(q) = "ok" THEN did[d] \cup {q} ELSE did[d]
    <3> HIDE DEF q
    <3>1. Execute(q, Verdict(q)) /\ q.from = d
      BY <1>6, <2>1 DEF Access, q
    <3>2. QED BY <3>1 DEF Execute
  <2>3. Accessed(d)
    BY <1>6, <2>2 DEF Access, NetOf, Accessed, Attempting
  <2>4. QED BY <2>3 DEF Stepped
<1>7. CASE ReturnError(d)
  <2>1. "endcode" \in Errors
    BY DEF Errors
  <2>2. QED BY <1>2, <1>7, <2>1 DEF ReturnError, Untouched, Answered, simVars
<1>8. CASE Return(d)
  <2>1. Returned(d)
    <3>1. ("ok" # "ok") = FALSE
      OBVIOUS
    <3>2. QED BY <1>8, <3>1 DEF Return, Finish, Note, Noted, Untouched, simVars, NetOf, Returned
  <2>2. QED BY <2>1 DEF Stepped
<1>9. CASE ToggleOn(d)
  <2>1. ToggledOn(d)
    BY <1>9 DEF ToggleOn, Untouched, simVars, NetOf, ToggledOn
  <2>2. QED BY <2>1 DEF Stepped
<1>10. CASE Timeout(d)
  <2>1. "timeout" \in Errors
    BY DEF Errors
  <2>2. QED BY <1>2, <1>10, <2>1 DEF Timeout, simVars
<1>11. CASE GiveUp(d)
  <2>1. "context" \in Errors
    BY DEF Errors, Refusals
  <2>2. QED BY <1>2, <1>11, <2>1 DEF GiveUp, simVars
<1>12. CASE Expire(d)
  <2>1. Still(d)
    BY <1>12 DEF Expire, tryVars, simVars, NetOf, Still
  <2>2. QED BY <2>1 DEF Stepped
<1>13. QED BY <1>1, <1>3, <1>4, <1>5, <1>6, <1>7, <1>8, <1>9, <1>10, <1>11, <1>12 DEF CallNext

\* What a step is to a caller.
LEMMA Steps ==
  ASSUME Types, [Next]_vars, NEW d \in Callers
  PROVE  Stepped(d)
<1>1. CASE CallNext(d)
  BY <1>1, Own
<1>2. ASSUME NEW q \in NetOf(d), Serve(q) PROVE Stepped(d)
  <2>1. q \in net /\ q.from = d
    BY <1>2 DEF NetOf
  <2>2. NetOf(d)' = NetOf(d) \ {q}
    BY <1>2, <2>1 DEF Serve, NetOf
  <2>3. /\ did'[d] = IF Verdict(q) = "ok" THEN did[d] \cup {q} ELSE did[d]
        /\ ans'[d] = IF q.try = try[d] /\ Verdict(q) # "panic" THEN Result(q, Verdict(q)) ELSE ans[d]
    BY <1>2, <2>1 DEF Serve, Execute, Types
  <2>4. Served(d, q)
    BY <1>2, <2>2, <2>3 DEF Serve, tryVars, Served, Placed
  <2>5. QED BY <2>1, <2>4 DEF Stepped
<1>3. CASE ~CallNext(d) /\ ~\E q \in NetOf(d) : Serve(q)
  BY <1>3, Others DEF Stepped
<1>4. QED BY <1>1, <1>2, <1>3

--------------------------------------------------------------------------------
(* What stays what it is *)

\* As long as a toggle does not go on, a call means the same.
LEMMA SameCall ==
  ASSUME callVars' = callVars, NEW d \in Callers, phase'[d] = phase[d]
  PROVE  /\ Name(d)' = Name(d) /\ Toggling(d)' = Toggling(d) /\ Writing(d)' = Writing(d)
         /\ ItsChain(d)' = ItsChain(d) /\ Info(d)' = Info(d) /\ Count(d)' = Count(d)
         /\ AreaOk(d)' = AreaOk(d) /\ MakesNoRequest(d)' = MakesNoRequest(d)
         /\ Intercepted(d)' = Intercepted(d)
         /\ bit'[d] = bit[d] => Request(d).payload' = Request(d).payload
                                /\ Request(d).room' = Request(d).room
<1>1. kind' = kind /\ chain' = chain /\ call' = call
  BY DEF callVars
<1>2. Toggling(d)' = Toggling(d)
  BY <1>1 DEF Toggling
<1>3. Name(d)' = Name(d)
  BY <1>1, <1>2 DEF Name
<1>4. Count(d)' = Count(d)
  BY <1>1, <1>2, <1>3 DEF Count
<1>5. Intercepted(d)' = Intercepted(d)
  BY <1>1, <1>3 DEF Intercepted
<1>6. ItsChain(d)' = ItsChain(d)
  BY <1>1, <1>5 DEF ItsChain
<1>7. Info(d)' = Info(d)
  BY <1>1, <1>2, <1>3 DEF Info
<1>8. AreaOk(d)' = AreaOk(d)
  BY <1>1, <1>3 DEF AreaOk
<1>9. MakesNoRequest(d)' = MakesNoRequest(d) /\ Writing(d)' = Writing(d)
  BY <1>3, <1>4 DEF MakesNoRequest, Writing
<1>10. ASSUME bit'[d] = bit[d]
       PROVE  Request(d).payload' = Request(d).payload /\ Request(d).room' = Request(d).room
  <2>1. Payload(d)' = Payload(d)
    BY <1>1, <1>3, <1>4, <1>10 DEF Payload
  <2>2. QED BY <1>1, <2>1 DEF Request
<1>11. QED BY <1>2, <1>3, <1>4, <1>5, <1>6, <1>7, <1>8, <1>9, <1>10

\* A step leaves phase and bit alone or goes on with a toggle; it may make an attempt.
LEMMA StepIs ==
  ASSUME Types, NEW d \in Callers, Stepped(d)
  PROVE  /\ Placed(d) \/ ToggledOn(d)
         /\ try'[d] = try[d] \/ Attempting(d)
         /\ Attempting(d) => st'[d] \in {"waiting", "panicked"}
         /\ try'[d] \in Nat /\ try[d] \in Nat /\ try[d] <= try'[d]
         /\ NetOf(d)' \subseteq NetOf(d) \/ SentOff(d)
         /\ \A q \in Mine(d)' : q \in Mine(d) \/ (q = Request(d) /\ Attempting(d))
         /\ st[d] = "done" => Still(d) \/ \E q \in net : Served(d, q)
<1>1. try[d] \in Nat
  BY DEF Types
<1>2. Placed(d) \/ ToggledOn(d)
  BY DEF Stepped, Still, Invoked, Failed, Died, SentOff, Accessed, Attempting, Returned, Served
<1>3. try'[d] = try[d] \/ Attempting(d)
  BY DEF Stepped, Still, Invoked, Failed, Died, SentOff, Accessed, Returned, Served, ToggledOn
<1>4. try'[d] = try[d] \/ try'[d] = try[d] + 1
  BY <1>3 DEF Attempting
<1>5. /\ NetOf(d)' \subseteq NetOf(d) \/ SentOff(d)
      /\ \A q \in Mine(d)' : q \in Mine(d) \/ (q = Request(d) /\ Attempting(d))
  <2>1. CASE Quiet(d)
    BY <2>1 DEF Quiet, Mine
  <2>2. CASE SentOff(d)
    BY <2>2 DEF SentOff, Mine
  <2>3. CASE Accessed(d)
    BY <2>3 DEF Accessed, Mine
  <2>4. CASE \E q \in net : Served(d, q)
    BY <2>4 DEF Served, Mine
  <2>5. QED BY <2>1, <2>2, <2>3, <2>4 DEF Stepped, Still, Invoked, Failed, Died, Returned, ToggledOn
<1>6. st[d] = "done" => Still(d) \/ \E q \in net : Served(d, q)
  BY DEF Stepped, Invoked, Failed, Died, SentOff, Accessed, Attempting, Ready, Attempted, Returned,
         ToggledOn, Usable, Answered
<1>7. try'[d] \in Nat /\ try[d] <= try'[d]
  BY <1>1, <1>4
<1>8. Attempting(d) => st'[d] \in {"waiting", "panicked"}
  <2>1. Attempting(d) => try'[d] # try[d]
    BY <1>1 DEF Attempting
  <2>2. try'[d] = try[d] \/ SentOff(d) \/ Accessed(d)
    BY DEF Stepped, Still, Invoked, Failed, Died, Returned, ToggledOn, Served
  <2>3. QED BY <2>1, <2>2 DEF SentOff, Accessed
<1>9. QED BY <1>1, <1>2, <1>3, <1>5, <1>6, <1>7, <1>8, Zenon

--------------------------------------------------------------------------------
(* The requests *)

NetInv(c) ==
  /\ \A q \in Mine(c) : Sent(c, q)
  /\ \A q \in did[c] : Verdict(q) = "ok"
  /\ NetOf(c) # {} => kind[c] # "inline"

\* A caller's requests are requests.
LEMMA Own2 ==
  ASSUME Types, NEW c \in Callers
  PROVE  Mine(c) \subseteq RequestSet
BY DEF Types, Mine, NetOf

\* What has been said of a request stays true of it.
LEMMA AskedStays ==
  ASSUME Types, callVars' = callVars, NEW d \in Callers, Stepped(d), NEW q, Asked(d, q)
  PROVE  Asked(d, q)'
<1>1. kind' = kind /\ chain' = chain /\ call' = call
  BY DEF callVars
<1>2. CASE Placed(d)
  <2>1. /\ Count(d)' = Count(d) /\ MakesNoRequest(d)' = MakesNoRequest(d) /\ Writing(d)' = Writing(d)
        /\ Request(d).payload' = Request(d).payload /\ Request(d).room' = Request(d).room
    BY <1>2, SameCall DEF Placed
  <2>2. QED BY <1>1, <2>1 DEF Asked
<1>3. CASE ToggledOn(d)
  <2>1. Toggling(d) /\ call[d].name = "ToggleBit" /\ Name(d) = "ReadBits" /\ phase'[d] = 2
    BY <1>3, NameIs DEF ToggledOn
  <2>2. ~q.write
    BY <2>1 DEF Asked, Writing, Reads
  <2>3. Count(d) = 1 /\ Count(d)' = 1 /\ ~MakesNoRequest(d)'
    BY <1>1, <2>1 DEF Count, Name, Toggling, Twiddles, MakesNoRequest
  <2>4. QED BY <1>1, <2>1, <2>2, <2>3 DEF Asked
<1>4. QED BY <1>2, <1>3, StepIs

\* The request of an attempt is one of its caller.
LEMMA RequestSent ==
  ASSUME Types, NEW d \in Callers, Attempting(d)
  PROVE  /\ Asked(d, Request(d)) /\ Request(d) \in RequestSet
         /\ Request(d).try = try[d] + 1 /\ Request(d).try = try'[d] /\ Request(d).from = d
         /\ (Request(d).write <=> Writing(d))
<1>1. bit[d] \in 0..1 /\ try[d] \in Nat /\ CallInv
  BY DEF Types
<1>2. /\ Request(d) \in RequestSet
      /\ Request(d).from = d /\ Request(d).try = try[d] + 1
      /\ Request(d).write <=> Writing(d)
      /\ Request(d).area = call[d].area /\ Request(d).addr = call[d].addr
      /\ Request(d).bit = (IF call[d].name \in BitCalls THEN call[d].bit ELSE 0)
      /\ Request(d).count = Count(d) /\ Request(d).wire = (kind[d] # "inline")
      /\ ~Writing(d) => Request(d).payload = <<>>
  BY <1>1, RequestIs
<1> DEFINE q == Request(d)
<1>3. /\ q.area \in (IF call[d].name \in BitCalls THEN ClientBitAreas ELSE ClientWordAreas)
      /\ ~MakesNoRequest(d)
  BY <1>2, NameIs DEF Attempting, Ready, AreaOk
<1>4. ~Writing(d) => call[d].name \in Reads \cup {"ToggleBit"}
  BY DEF Writing, Name, Toggling
<1>5. q.payload = Request(d).payload /\ q.room = Request(d).room
  OBVIOUS
<1>6. try'[d] = try[d] + 1
  BY DEF Attempting
<1> HIDE DEF q
<1>7. Asked(d, q)
  BY <1>2, <1>3, <1>4, <1>5 DEF Asked, q
<1>8. QED BY <1>2, <1>6, <1>7 DEF q

\* What the requests are, and what is executed of them.
LEMMA NetStep ==
  ASSUME Types, callVars' = callVars, NEW d \in Callers, Stepped(d), NetInv(d)
  PROVE  NetInv(d)'
<1>1. ASSUME NEW q \in Mine(d)' PROVE Sent(d, q)'
  <2>1. CASE q \in Mine(d)
    <3>1. Asked(d, q) /\ q.try \in 1..try[d]
      BY <2>1 DEF NetInv, Sent
    <3>2. q.try \in 1..try'[d]
      BY <3>1, StepIs
    <3>3. QED BY <3>1, <3>2, AskedStays DEF Sent
  <2>2. CASE q = Request(d) /\ Attempting(d)
    <3>1. Asked(d, q) /\ q.try = try[d] + 1 /\ q.try = try'[d]
      BY <2>2, RequestSent
    <3>2. q.try \in 1..try'[d]
      BY <3>1, StepIs
    <3>3. QED BY <3>1, <3>2, AskedStays DEF Sent
  <2>3. QED BY <2>1, <2>2, StepIs
<1>2. ASSUME NEW q \in did'[d] PROVE Verdict(q) = "ok"
  <2>1. CASE Quiet(d) \/ SentOff(d)
    BY <2>1 DEF Quiet, SentOff, NetInv
  <2>2. CASE Accessed(d) \/ \E r \in net : Served(d, r)
    BY <2>2 DEF Accessed, Served, NetInv
  <2>3. QED BY <2>1, <2>2 DEF Stepped, Still, Invoked, Failed, Died, Returned, ToggledOn
<1>3. NetOf(d)' # {} => kind'[d] # "inline"
  BY StepIs DEF NetInv, callVars, SentOff
<1>4. QED BY <1>1, <1>2, <1>3 DEF NetInv

--------------------------------------------------------------------------------
(* Stages and attempts *)

StageInv(c) ==
  /\ phase[c] = 2 => call[c].name = "ToggleBit"
  /\ st[c] \in {"ready", "waiting"} => Admitted(Outer(ItsChain(c)), Info(c))
  /\ st[c] = "waiting" => try[c] > 0
  /\ st[c] \in {"ready", "waiting"} => left[c] <= RetriesOf(chain[c])

\* There are as many attempts as the retries allow, in each phase of a toggle.
TriesInv(c) ==
  /\ phase[c] = 1 =>
       /\ try[c] <= RetriesOf(ItsChain(c)) + 1
       /\ st[c] = "idle" => try[c] = 0
       /\ st[c] = "ready" => try[c] + left[c] <= RetriesOf(ItsChain(c))
       /\ st[c] = "waiting" => try[c] + left[c] <= RetriesOf(ItsChain(c)) + 1
  /\ phase[c] = 2 /\ kind[c] # "inline" =>
       /\ st[c] \in {"ready", "waiting"} => left[c] = 0
       /\ st[c] \in {"idle", "ready"} => try[c] <= MaxRetries + 1
       /\ try[c] <= MaxRetries + 2

\* An inline client, which alone intercepts the write of a toggle, repeats neither
\* phase: what lies in its area succeeds, what does not never will.
Lies(c) == InBounds([area |-> call[c].area, addr |-> call[c].addr, bit |-> call[c].bit, count |-> 1])
LocalInv(c) ==
  kind[c] = "inline" /\ call[c].name = "ToggleBit" =>
    /\ st[c] = "waiting" => ans[c] # NoAnswer /\ (ans[c].verdict = "ok" <=> Lies(c))
    /\ phase[c] = 1 => /\ st[c] = "ready" /\ try[c] > 0 => ~Lies(c)
                       /\ st[c] = "waiting" /\ try[c] > 1 => ~Lies(c)
    /\ phase[c] = 2 => /\ Lies(c) /\ try[c] <= 2
                       /\ st[c] \in {"idle", "ready"} => try[c] = 1

\* What a caller has got to.
LEMMA StageStep ==
  ASSUME Types, callVars' = callVars, NEW d \in Callers, Stepped(d), StageInv(d)
  PROVE  StageInv(d)'
<1>1. kind' = kind /\ chain' = chain /\ call' = call /\ try[d] \in Nat /\ chain[d] \in Seq(Names)
  BY DEF callVars, Types, CallInv
<1>2. CASE ToggledOn(d)
  BY <1>1, <1>2 DEF ToggledOn, Toggling, StageInv
<1>3. CASE Placed(d)
  <2>1. ItsChain(d)' = ItsChain(d) /\ Info(d)' = Info(d) /\ phase'[d] = phase[d]
    BY <1>3, SameCall DEF Placed
  <2>2. \/ st'[d] = st[d] /\ try'[d] = try[d]
        \/ st'[d] = "ready" /\ Admitted(Outer(ItsChain(d)), Info(d))
        \/ st'[d] = "waiting" /\ Attempting(d)
        \/ st'[d] \in {"done", "panicked"}
        \/ ToggledOn(d)
    BY DEF Stepped, Still, Invoked, Failed, Died, SentOff, Accessed, Returned, Served, StageInv
  <2>3. Attempting(d) => try'[d] > 0 /\ st[d] = "ready"
    BY <1>1 DEF Attempting, Ready, Attempted
  <2>4. ASSUME st'[d] \in {"ready", "waiting"} PROVE left'[d] <= RetriesOf(chain[d])
    <3>1. RetriesOf(ItsChain(d)) \in Nat /\ RetriesOf(ItsChain(d)) <= RetriesOf(chain[d])
      BY <1>1, Retries DEF ItsChain
    <3>2. \/ st[d] \in {"ready", "waiting"} /\ (left'[d] = left[d] \/ left'[d] = left[d] - 1)
          \/ left'[d] = RetriesOf(ItsChain(d))
      BY <1>2, <2>4 DEF Stepped, Still, Invoked, Failed, Died, SentOff, Accessed, Returned, Served,
                        Attempting, Ready, Attempted, ToggledOn
    <3>3. left[d] \in Nat /\ RetriesOf(chain[d]) \in Nat
      BY <1>1, Retries, Sizes, SMTT(30) DEF Types
    <3>4. QED BY <3>1, <3>2, <3>3 DEF StageInv
  <2>5. /\ phase'[d] = 2 => call'[d].name = "ToggleBit"
        /\ st'[d] \in {"ready", "waiting"} => Admitted(Outer(ItsChain(d)), Info(d))
        /\ st'[d] = "waiting" => try'[d] > 0
    BY <1>1, <1>2, <2>1, <2>2, <2>3 DEF StageInv, ToggledOn
  <2>6. QED BY <1>1, <2>1, <2>4, <2>5 DEF StageInv
<1>4. QED BY <1>2, <1>3, StepIs

\* How many attempts it has made.
LEMMA TriesStep ==
  ASSUME Types, callVars' = callVars, NEW d \in Callers, Stepped(d), StageInv(d), TriesInv(d)
  PROVE  TriesInv(d)'
<1>1. /\ kind' = kind /\ chain' = chain /\ call' = call /\ try[d] \in Nat
      /\ left[d] \in 0..MaxRetries /\ phase[d] \in 1..2 /\ chain[d] \in Seq(Names)
  BY DEF callVars, Types, CallInv
<1> DEFINE R == RetriesOf(ItsChain(d))
<1>2. R \in Nat /\ R <= MaxRetries /\ left[d] \in Nat
  BY <1>1, Retries, Sizes, SMTT(30) DEF ItsChain
<1>3. phase[d] = 2 /\ kind[d] # "inline" => R = 0
  <2>1. ASSUME phase[d] = 2, kind[d] # "inline" PROVE ItsChain(d) = <<>>
    <3>1. call[d].name = "ToggleBit" /\ ~Toggling(d)
      BY <2>1 DEF StageInv, Toggling
    <3>2. QED BY <2>1, <3>1 DEF Name, ItsChain, Intercepted, Bare, Twiddles
  <2>2. RetriesOf(<<>>) = 0
    BY <1>1, Retries
  <2>3. QED BY <2>1, <2>2
<1>4. CASE ToggledOn(d)
  <2>1. phase[d] = 1 /\ phase'[d] = 2 /\ st'[d] = "idle" /\ try'[d] = try[d]
    BY <1>4 DEF ToggledOn, Toggling
  <2> HIDE DEF R
  <2>2. try[d] <= R + 1
    BY <2>1 DEF TriesInv, R
  <2>3. QED BY <1>1, <1>2, <2>1, <2>2, Sizes DEF TriesInv
<1>5. CASE Placed(d)
  <2>1. RetriesOf(ItsChain(d))' = R /\ phase'[d] = phase[d]
    BY <1>5, SameCall DEF Placed
  <2>2. \/ st'[d] = st[d] /\ try'[d] = try[d] /\ left'[d] = left[d]
        \/ st[d] = "idle" /\ st'[d] = "ready" /\ try'[d] = try[d] /\ left'[d] = R
        \/ /\ st[d] \in {"ready", "waiting"} /\ st'[d] = "ready" /\ try'[d] = try[d]
           /\ left[d] > 0 /\ left'[d] = left[d] - 1
        \/ st[d] = "ready" /\ try'[d] = try[d] + 1 /\ left'[d] = left[d] /\ st'[d] \in {"waiting", "panicked"}
        \/ try'[d] = try[d] /\ st'[d] \in {"done", "panicked"}
        \/ ToggledOn(d)
    BY DEF Stepped, Still, Invoked, Failed, Died, SentOff, Accessed, Returned, Served, Attempting,
           Ready, Attempted
  <2> HIDE DEF R
  <2>3. /\ phase[d] = 1 =>
             /\ try[d] <= R + 1
             /\ st[d] = "idle" => try[d] = 0
             /\ st[d] = "ready" => try[d] + left[d] <= R
             /\ st[d] = "waiting" => try[d] + left[d] <= R + 1
        /\ phase[d] = 2 /\ kind[d] # "inline" =>
             /\ st[d] \in {"ready", "waiting"} => left[d] = 0
             /\ st[d] \in {"idle", "ready"} => try[d] <= MaxRetries + 1
             /\ try[d] <= MaxRetries + 2
    BY DEF TriesInv, R
  <2>4. CASE phase[d] = 1
    <3>1. /\ try'[d] <= R + 1
          /\ st'[d] = "idle" => try'[d] = 0
          /\ st'[d] = "ready" => try'[d] + left'[d] <= R
          /\ st'[d] = "waiting" => try'[d] + left'[d] <= R + 1
      BY <1>1, <1>2, <2>1, <2>2, <2>3, <2>4 DEF ToggledOn
    <3>2. QED BY <2>1, <2>4, <3>1 DEF TriesInv
  <2>5. CASE phase[d] = 2
    <3>1. kind[d] # "inline" =>
             /\ st'[d] \in {"ready", "waiting"} => left'[d] = 0
             /\ st'[d] \in {"idle", "ready"} => try'[d] <= MaxRetries + 1
             /\ try'[d] <= MaxRetries + 2
      BY <1>1, <1>2, <1>3, <2>2, <2>3, <2>5, Sizes DEF ToggledOn, Toggling
    <3>2. QED BY <1>1, <2>1, <2>5, <3>1 DEF TriesInv
  <2>6. QED BY <1>1, <2>4, <2>5
<1>6. QED BY <1>4, <1>5, StepIs

\* The request of a toggle is done if its bit lies in its area.
LEMMA LiesIs ==
  ASSUME Types, NEW c \in Callers, call[c].name = "ToggleBit", Attempting(c)
  PROVE  InBounds(Request(c)) <=> Lies(c)
<1>1. bit[c] \in 0..1 /\ try[c] \in Nat /\ CallInv
  BY DEF Types
<1>2. /\ Request(c).area = call[c].area /\ Request(c).addr = call[c].addr
      /\ Request(c).bit = call[c].bit /\ Request(c).count = 1
  BY <1>1, RequestIs, CountIs DEF BitCalls, Twiddles
<1>3. QED BY <1>2 DEF InBounds, Lies, Start, End, ItemBytes

\* What the toggle of an inline client has got to.
LEMMA LocalStep ==
  ASSUME Types, callVars' = callVars, NEW d \in Callers, Stepped(d), StageInv(d), TriesInv(d),
         NetInv(d), LocalInv(d)
  PROVE  LocalInv(d)'
<1>1. kind' = kind /\ chain' = chain /\ call' = call /\ try[d] \in Nat /\ phase[d] \in 1..2
  BY DEF callVars, Types
<1>2. SUFFICES ASSUME kind[d] = "inline", call[d].name = "ToggleBit"
               PROVE  LocalInv(d)'
  BY <1>1 DEF LocalInv
<1>3. Lies(d)' = Lies(d)
  BY <1>1 DEF Lies, InBounds, Start, End, ItemBytes
<1>4. ~\E q \in net : Served(d, q)
  BY <1>2 DEF NetInv, Served
<1>5. CASE ToggledOn(d)
  <2>1. Lies(d) /\ phase[d] = 1 /\ st[d] = "waiting"
    BY <1>2, <1>5 DEF ToggledOn, Usable, Answered, LocalInv, Toggling
  <2>2. try[d] = 1
    BY <1>1, <1>2, <2>1 DEF LocalInv, StageInv
  <2>3. QED BY <1>1, <1>2, <1>3, <1>5, <2>1, <2>2 DEF ToggledOn, LocalInv
<1>6. CASE Accessed(d)
  <2>1. Request(d) \in RequestSet /\ (InBounds(Request(d)) <=> Lies(d)) /\ ~Request(d).wire
    <3>1. Attempting(d)
      BY <1>6 DEF Accessed
    <3>2. bit[d] \in 0..1 /\ CallInv
      BY DEF Types
    <3>3. QED BY <1>1, <1>2, <3>1, <3>2, LiesIs, RequestIs
  <2>2. Verdict(Request(d)) = "ok" <=> Lies(d)
    BY <2>1, InlineVerdict
  <2>3. ans'[d].verdict = Verdict(Request(d)) /\ ans'[d] # NoAnswer
    BY <1>6, Verdicts DEF Accessed, Result, NoAnswer
  <2>4. st[d] = "ready" /\ try'[d] = try[d] + 1 /\ phase'[d] = phase[d] /\ st'[d] \in {"waiting", "panicked"}
    BY <1>6 DEF Accessed, Attempting, Ready, Attempted, Placed
  <2>5. QED BY <1>1, <1>2, <1>3, <2>2, <2>3, <2>4 DEF LocalInv
<1>7. CASE Failed(d)
  <2>1. try'[d] = try[d] /\ phase'[d] = phase[d] /\ st'[d] \in {"ready", "done"}
    BY <1>7 DEF Failed, Placed
  <2>2. st[d] = "ready" \/ (st[d] = "waiting" /\ ~Lies(d))
    BY <1>2, <1>7 DEF Failed, LocalInv
  <2>3. QED BY <1>1, <1>2, <1>3, <2>1, <2>2 DEF LocalInv
<1>8. CASE Still(d) \/ Invoked(d) \/ Died(d) \/ Returned(d)
  <2>1. /\ try'[d] = try[d] /\ phase'[d] = phase[d] /\ ans'[d] = ans[d]
        /\ \/ st'[d] = st[d] \/ st'[d] \in {"done", "panicked"}
           \/ st[d] = "idle" /\ st'[d] = "ready"
    BY <1>8 DEF Still, Invoked, Died, Returned, Placed, Quiet
  <2>2. st[d] = "idle" /\ phase[d] = 1 => try[d] = 0
    BY DEF TriesInv
  <2>3. QED BY <1>1, <1>2, <1>3, <2>1, <2>2 DEF LocalInv
<1>9. QED BY <1>2, <1>4, <1>5, <1>6, <1>7, <1>8 DEF Stepped, SentOff

--------------------------------------------------------------------------------
(* Requests and their answers *)

\* Each attempt is one request, which is under way or was executed.
OnceInv(c) ==
  /\ \A q, r \in Mine(c) : q.try = r.try => q = r
  /\ NetOf(c) \cap did[c] = {}

\* The answer is to the last attempt; it says ok if and only if that was executed.
PairInv(c) ==
  /\ \A q \in NetOf(c) : q.try = try[c] => ans[c] = NoAnswer
  /\ \A q \in did[c] : q.try = try[c] => ans[c] # NoAnswer /\ ans[c].verdict = "ok"
  /\ ans[c] # NoAnswer =>
        /\ ans[c].try = try[c]
        /\ ans[c].verdict = "ok" =>
             \E q \in did[c] : /\ q.try = try[c]
                               /\ Len(ans[c].data) = IF q.write THEN 0 ELSE ItemBytes(q)

\* What a caller waits for is what it now asks for.
FreshInv(c) ==
  st[c] = "waiting" => \A q \in Mine(c) : q.try = try[c] => (q.write <=> Writing(c))

\* Unless an attempt was given up, only the last one is under way.
CalmInv(c) ==
  ~gaveUp[c] => \A q \in NetOf(c) : q.try = try[c] /\ st[c] = "waiting"

\* Without retries, or as long as nothing is given up, one read and one write.
SingleInv(c) ==
  ~gaveUp[c] \/ RetriesOf(chain[c]) = 0 =>
    /\ \A q, r \in Mine(c) : (q.write <=> r.write) => q.try = r.try
    /\ st[c] \in {"idle", "ready"} => \A q \in Mine(c) : ~(q.write <=> Writing(c))
    /\ st[c] = "waiting" => \A q \in Mine(c) : (q.write <=> Writing(c)) => q.try = try[c]

\* A toggle writes once.
TurnInv(c) ==
  phase[c] = 2 =>
    /\ st[c] \in {"idle", "ready"} => \A q \in Mine(c) : ~q.write
    /\ \A q \in Mine(c) : q.write => q.try = try[c]

\* A call that succeeded, and a toggle that goes on, was executed.
DoneInv(c) == out[c] = "ok" \/ phase[c] = 2 => did[c] # {}

\* What is in an answer.
LEMMA ResultIs ==
  ASSUME Types, NEW q \in RequestSet
  PROVE  /\ Result(q, Verdict(q)) # NoAnswer /\ Result(q, Verdict(q)) \in Answers
         /\ Result(q, Verdict(q)).verdict = Verdict(q) /\ Result(q, Verdict(q)).try = q.try
         /\ Verdict(q) = "ok" =>
              Len(Result(q, Verdict(q)).data) = IF q.write THEN 0 ELSE ItemBytes(q)
         /\ Verdict(q) = "ok" /\ ~q.write => Result(q, Verdict(q)).data = Data(mem, q)
<1> DEFINE v == Verdict(q)
           d == IF v = "ok" /\ ~q.write THEN Data(mem, q) ELSE <<>>
<1>1. v \in {"ok", "range", "unsupported", "panic"} /\ q.try \in Nat
  BY Verdicts, RequestTypes
<1>2. d \in Seq(Nat) /\ (v = "ok" => Len(d) = IF q.write THEN 0 ELSE ItemBytes(q))
  <2>1. CASE v = "ok" /\ ~q.write
    <3>1. Data(mem, q) \in Seq(Nat) /\ Len(Data(mem, q)) = ItemBytes(q)
      BY <2>1, DoneInBounds, DataIs DEF Types
    <3>2. QED BY <2>1, <3>1
  <2>2. CASE ~(v = "ok" /\ ~q.write)
    BY <2>2
  <2>3. QED BY <2>1, <2>2
<1>3. Result(q, v) = [verdict |-> v, try |-> q.try, data |-> d]
  BY DEF Result
<1>4. v = "ok" /\ ~q.write => d = Data(mem, q)
  OBVIOUS
<1> HIDE DEF d, v
<1>5. Result(q, v) \in Answers
  BY <1>1, <1>2, <1>3 DEF Answers
<1>6. Result(q, v) # NoAnswer
  BY <1>1, <1>3 DEF NoAnswer
<1>7. Result(q, v).verdict = v /\ Result(q, v).try = q.try /\ Result(q, v).data = d
  BY <1>3
<1>8. QED BY <1>2, <1>4, <1>5, <1>6, <1>7 DEF v

\* The attempts of the requests are behind it; a new request is none of them.
LEMMA Older ==
  ASSUME Types, NEW d \in Callers, NetInv(d)
  PROVE  /\ \A q \in Mine(d) : q.try \in Nat /\ q.try <= try[d]
         /\ Attempting(d) => /\ Request(d).try = try'[d]
                             /\ \A q \in Mine(d) : q.try # try'[d] /\ q # Request(d)
<1>1. try[d] \in Nat
  BY DEF Types
<1>2. \A q \in Mine(d) : q.try \in Nat /\ q.try <= try[d]
  BY <1>1 DEF NetInv, Sent, Asked
<1>3. Attempting(d) => Request(d).try = try'[d]
  BY DEF Attempting, Request
<1>4. Attempting(d) => \A q \in Mine(d) : q.try # try'[d]
  BY <1>1, <1>2 DEF Attempting
<1>5. QED BY <1>2, <1>3, <1>4

\* A request is executed once.
LEMMA OnceStep ==
  ASSUME Types, callVars' = callVars, NEW d \in Callers, Stepped(d), NetInv(d), OnceInv(d)
  PROVE  OnceInv(d)'
<1>1. \A q, r \in Mine(d)' : q.try = r.try => q = r
  BY StepIs, Older DEF OnceInv
<1>2. NetOf(d)' \cap did'[d] = {}
  <2>1. CASE Quiet(d)
    BY <2>1 DEF Quiet, OnceInv
  <2>2. CASE SentOff(d)
    <3>1. Request(d) \notin Mine(d)
      BY <2>2, Older DEF SentOff
    <3>2. QED BY <2>2, <3>1 DEF SentOff, OnceInv, Mine
  <2>3. CASE Accessed(d)
    BY <2>3 DEF Accessed, NetInv
  <2>4. CASE \E q \in net : Served(d, q)
    BY <2>4 DEF Served, OnceInv
  <2>5. QED BY <2>1, <2>2, <2>3, <2>4 DEF Stepped, Still, Invoked, Failed, Died, Returned, ToggledOn
<1>3. QED BY <1>1, <1>2 DEF OnceInv

\* An answer is to the last attempt.
LEMMA PairStep ==
  ASSUME Types, callVars' = callVars, NEW d \in Callers, Stepped(d), NetInv(d), OnceInv(d), PairInv(d)
  PROVE  PairInv(d)'
<1>1. \A q : ItemBytes(q)' = ItemBytes(q)
  OBVIOUS
<1>2. CASE Quiet(d) /\ try'[d] = try[d]
  BY <1>1, <1>2 DEF Quiet, PairInv
<1>3. CASE SentOff(d)
  <2>1. Attempting(d) /\ ans'[d] = NoAnswer /\ did'[d] = did[d]
    BY <1>3 DEF SentOff
  <2>2. \A q \in did'[d] : q.try # try'[d]
    BY <2>1, Older DEF Mine
  <2>3. QED BY <2>1, <2>2 DEF PairInv
<1>4. CASE Accessed(d)
  <2> DEFINE q == Request(d)
  <2>1. Attempting(d) /\ NetOf(d)' = {} /\ ans'[d] = Result(q, Verdict(q))
    BY <1>4 DEF Accessed, NetInv
  <2>2. q \in RequestSet /\ q.try = try'[d]
    BY <2>1, RequestSent, Older
  <2>3. /\ Verdict(q) = "ok" => did'[d] = did[d] \cup {q}
        /\ Verdict(q) # "ok" => did'[d] = did[d]
    BY <1>4 DEF Accessed
  <2>4. \A r \in did[d] : r.try # try'[d]
    BY <2>1, Older DEF Mine
  <2> HIDE DEF q
  <2>5. /\ ans'[d] # NoAnswer /\ ans'[d].verdict = Verdict(q) /\ ans'[d].try = try'[d]
        /\ Verdict(q) = "ok" => Len(ans'[d].data) = IF q.write THEN 0 ELSE ItemBytes(q)
    BY <2>1, <2>2, ResultIs
  <2>6. QED BY <2>1, <2>2, <2>3, <2>4, <2>5 DEF PairInv
<1>5. ASSUME NEW q \in net, Served(d, q) PROVE PairInv(d)'
  <2>1. /\ q \in NetOf(d) /\ NetOf(d)' = NetOf(d) \ {q} /\ try'[d] = try[d] /\ q \in RequestSet
        /\ did'[d] = IF Verdict(q) = "ok" THEN did[d] \cup {q} ELSE did[d]
    BY <1>5 DEF Served, Types
  <2>2. CASE q.try = try[d] /\ Verdict(q) # "panic"
    <3>1. ans'[d] = Result(q, Verdict(q))
      BY <1>5, <2>2 DEF Served
    <3>2. /\ ans'[d] # NoAnswer /\ ans'[d].verdict = Verdict(q) /\ ans'[d].try = try'[d]
          /\ Verdict(q) = "ok" => Len(ans'[d].data) = IF q.write THEN 0 ELSE ItemBytes(q)
      BY <2>1, <2>2, <3>1, ResultIs
    <3>3. \A r \in Mine(d) : r.try = try[d] => r = q
      BY <2>1, <2>2 DEF OnceInv, Mine
    <3>4. q \notin did[d]
      BY <2>1 DEF OnceInv
    <3>5. \A r \in NetOf(d)' : r.try # try'[d]
      BY <2>1, <3>3 DEF Mine
    <3>6. \A r \in did'[d] : r.try = try'[d] => Verdict(q) = "ok"
      BY <2>1, <3>3, <3>4 DEF Mine
    <3>7. QED BY <2>1, <2>2, <3>2, <3>5, <3>6 DEF PairInv
  <2>3. CASE ~(q.try = try[d] /\ Verdict(q) # "panic")
    <3>1. ans'[d] = ans[d] /\ (q.try # try[d] \/ Verdict(q) # "ok")
      BY <1>5, <2>3 DEF Served
    <3>2. QED BY <2>1, <3>1 DEF PairInv
  <2>4. QED BY <2>2, <2>3
<1>6. QED BY <1>2, <1>3, <1>4, <1>5 DEF Stepped, Still, Invoked, Failed, Died, Returned, ToggledOn

\* A caller waits for what it asks for.
LEMMA FreshStep ==
  ASSUME Types, callVars' = callVars, NEW d \in Callers, Stepped(d), NetInv(d), FreshInv(d)
  PROVE  FreshInv(d)'
<1>1. SUFFICES ASSUME st'[d] = "waiting", NEW q \in Mine(d)', q.try = try'[d]
               PROVE  q.write <=> Writing(d)'
  BY DEF FreshInv
<1>2. Placed(d)
  BY <1>1, StepIs DEF ToggledOn
<1>3. Writing(d)' = Writing(d)
  BY <1>2, SameCall DEF Placed
<1>4. CASE Attempting(d)
  BY <1>1, <1>3, <1>4, StepIs, Older, RequestSent
<1>5. CASE ~Attempting(d)
  <2>1. st[d] = "waiting" /\ try'[d] = try[d]
    BY <1>1, <1>5 DEF Stepped, Still, Invoked, Failed, Died, SentOff, Accessed, Returned, ToggledOn, Served
  <2>2. q \in Mine(d)
    BY <1>5, StepIs
  <2>3. QED BY <1>1, <1>3, <2>1, <2>2 DEF FreshInv
<1>6. QED BY <1>4, <1>5

\* What is under way is the last attempt, unless one was given up.
LEMMA CalmStep ==
  ASSUME Types, NEW d \in Callers, Stepped(d), NetInv(d), PairInv(d), CalmInv(d)
  PROVE  CalmInv(d)'
<1>1. SUFFICES ASSUME ~gaveUp'[d], NEW q \in NetOf(d)' PROVE q.try = try'[d] /\ st'[d] = "waiting"
  BY DEF CalmInv
<1>2. ~gaveUp[d]
  BY <1>1 DEF Stepped, Still, Invoked, Failed, Died, SentOff, Accessed, Attempting, Returned, ToggledOn, Served
<1>3. \A r \in NetOf(d) : r.try = try[d] /\ st[d] = "waiting" /\ ans[d] = NoAnswer
  BY <1>2 DEF CalmInv, PairInv
<1>4. CASE SentOff(d)
  <2>1. NetOf(d) = {}
    BY <1>3, <1>4 DEF SentOff, Attempting, Ready, Attempted
  <2>2. q = Request(d) /\ Request(d).try = try'[d]
    BY <1>1, <1>4, <2>1, Older DEF SentOff
  <2>3. QED BY <1>4, <2>2 DEF SentOff
<1>5. CASE ~SentOff(d)
  <2>1. q \in NetOf(d)
    BY <1>1, <1>5, StepIs
  <2>2. st[d] = "waiting" /\ ans[d] = NoAnswer
    BY <1>3, <2>1
  <2>3. Still(d) \/ \E r \in net : Served(d, r)
    BY <1>1, <1>5, <2>2 DEF Stepped, Invoked, Failed, Died, Accessed, Attempting, Ready, Attempted,
                            Returned, ToggledOn, Usable, Answered
  <2>4. QED BY <1>3, <2>1, <2>3 DEF Still, Served
<1>6. QED BY <1>4, <1>5

\* A call makes one request of a kind, unless one was given up and it may retry.
LEMMA SingleStep ==
  ASSUME Types, callVars' = callVars, NEW d \in Callers, Stepped(d), StageInv(d), NetInv(d),
         PairInv(d), SingleInv(d)
  PROVE  SingleInv(d)'
<1>1. chain' = chain /\ left[d] \in Nat /\ RetriesOf(chain[d]) \in Nat
  BY Retries, Sizes DEF callVars, Types, CallInv
<1>2. SUFFICES ASSUME ~gaveUp'[d] \/ RetriesOf(chain[d]) = 0
               PROVE  /\ \A q, r \in Mine(d)' : (q.write <=> r.write) => q.try = r.try
                      /\ st'[d] \in {"idle", "ready"} => \A q \in Mine(d)' : ~(q.write <=> Writing(d)')
                      /\ st'[d] = "waiting" =>
                           \A q \in Mine(d)' : (q.write <=> Writing(d)') => q.try = try'[d]
  BY <1>1 DEF SingleInv
<1>3. ~gaveUp[d] \/ RetriesOf(chain[d]) = 0
  BY <1>2 DEF Stepped, Still, Invoked, Failed, Died, SentOff, Accessed, Attempting, Returned, ToggledOn, Served
<1>4. /\ \A q, r \in Mine(d) : (q.write <=> r.write) => q.try = r.try
      /\ st[d] \in {"idle", "ready"} => \A q \in Mine(d) : ~(q.write <=> Writing(d))
      /\ st[d] = "waiting" => \A q \in Mine(d) : (q.write <=> Writing(d)) => q.try = try[d]
  BY <1>3 DEF SingleInv
<1>5. CASE Attempting(d)
  <2>1. Writing(d)' = Writing(d) /\ (Request(d).write <=> Writing(d)) /\ Request(d).try = try'[d]
    BY <1>5, SameCall, RequestSent, Older DEF Attempting, Placed
  <2>2. \A q \in Mine(d) : ~(q.write <=> Writing(d))
    BY <1>4, <1>5 DEF Attempting, Ready, Attempted
  <2>3. \A q \in Mine(d)' : q \in Mine(d) \/ q = Request(d)
    BY StepIs
  <2>4. \A q \in Mine(d)' : (q.write <=> Writing(d)') => q.try = try'[d]
    BY <2>1, <2>2, <2>3
  <2>5. \A q, r \in Mine(d)' : (q.write <=> r.write) => q.try = r.try
    BY <1>4, <2>1, <2>2, <2>3
  <2>6. st'[d] \notin {"idle", "ready"}
    BY <1>5, StepIs
  <2>7. QED BY <2>4, <2>5, <2>6
<1>6. CASE ToggledOn(d)
  <2>1. \A q \in Mine(d)' : q \in Mine(d)
    BY <1>6 DEF ToggledOn, Quiet, Mine
  <2>2. ~Writing(d) /\ Writing(d)'
    BY <1>6 DEF ToggledOn, Writing, Name, Toggling, Reads, callVars
  <2>3. \A q \in Mine(d) : ~q.write
    BY <2>2 DEF NetInv, Sent, Asked
  <2>4. QED BY <1>4, <1>6, <2>1, <2>2, <2>3 DEF ToggledOn
<1>7. CASE ~Attempting(d) /\ ~ToggledOn(d)
  <2>1. Writing(d)' = Writing(d) /\ try'[d] = try[d] /\ \A q \in Mine(d)' : q \in Mine(d)
    BY <1>7, StepIs, SameCall DEF Placed
  <2>2. \/ st'[d] = st[d] \/ st'[d] \in {"done", "panicked"}
        \/ st[d] = "idle" /\ st'[d] = "ready"
        \/ Failed(d) /\ st[d] = "ready" /\ st'[d] = "ready"
        \/ Failed(d) /\ st[d] = "waiting" /\ st'[d] = "ready" /\ left[d] > 0
    BY <1>7 DEF Stepped, Still, Invoked, Failed, Died, SentOff, Accessed, Returned, Served
  <2>3. CASE Failed(d) /\ st[d] = "waiting" /\ st'[d] = "ready" /\ left[d] > 0
    <3>1. ~gaveUp'[d]
      BY <1>1, <1>2, <2>3 DEF StageInv
    <3>2. ans[d] # NoAnswer /\ ans[d].verdict # "ok"
      BY <2>3, <3>1 DEF Failed
    <3>3. \A q \in Mine(d) : q.try # try[d]
      BY <3>2 DEF PairInv, Mine
    <3>4. QED BY <1>4, <2>1, <2>3, <3>3
  <2>4. QED BY <1>4, <2>1, <2>2, <2>3
<1>8. QED BY <1>5, <1>6, <1>7

\* A toggle writes once.
LEMMA TurnStep ==
  ASSUME Types, callVars' = callVars, NEW d \in Callers, Stepped(d), StageInv(d), TriesInv(d), LocalInv(d),
         NetInv(d), TurnInv(d)
  PROVE  TurnInv(d)'
<1>1. SUFFICES ASSUME phase'[d] = 2
               PROVE  /\ st'[d] \in {"idle", "ready"} => \A q \in Mine(d)' : ~q.write
                      /\ \A q \in Mine(d)' : q.write => q.try = try'[d]
  BY DEF TurnInv
<1>2. CASE ToggledOn(d)
  <2>1. \A q \in Mine(d)' : q \in Mine(d)
    BY <1>2 DEF ToggledOn, Quiet, Mine
  <2>2. ~Writing(d)
    BY <1>2 DEF ToggledOn, Writing, Name, Toggling, Reads
  <2>3. \A q \in Mine(d) : ~q.write
    BY <2>2 DEF NetInv, Sent, Asked
  <2>4. QED BY <2>1, <2>3
<1>3. CASE Placed(d)
  <2>1. /\ phase[d] = 2 /\ call[d].name = "ToggleBit"
        /\ st[d] \in {"idle", "ready"} => \A q \in Mine(d) : ~q.write
        /\ \A q \in Mine(d) : q.write => q.try = try[d]
    BY <1>1, <1>3 DEF TurnInv, Placed, StageInv
  <2>2. CASE Attempting(d)
    <3>1. \A q \in Mine(d) : ~q.write
      BY <2>1, <2>2 DEF Attempting, Ready, Attempted
    <3>2. st'[d] \notin {"idle", "ready"}
      BY <2>2, StepIs
    <3>3. QED BY <2>2, <3>1, <3>2, StepIs, Older
  <2>3. CASE ~Attempting(d)
    <3>1. try'[d] = try[d] /\ \A q \in Mine(d)' : q \in Mine(d)
      BY <2>3, StepIs
    <3>2. CASE st'[d] \in {"idle", "ready"}
      <4>1. st[d] \in {"idle", "ready"} \/ (Failed(d) /\ st[d] = "waiting" /\ left[d] > 0)
        <5>1. ~ToggledOn(d)
          BY <2>1 DEF ToggledOn, Toggling
        <5>2. QED BY <2>3, <3>2, <5>1 DEF Stepped, Still, Invoked, Failed, Died, SentOff, Accessed,
                                         Returned, Served
      <4>2. ~(Failed(d) /\ st[d] = "waiting" /\ left[d] > 0)
        <5>1. CASE kind[d] # "inline"
          <6>1. st[d] = "waiting" => left[d] = 0
            BY <2>1, <5>1 DEF TriesInv
          <6>2. QED BY <6>1
        <5>2. CASE kind[d] = "inline"
          BY <2>1, <5>2 DEF LocalInv, Failed
        <5>3. QED BY <5>1, <5>2
      <4>3. QED BY <2>1, <3>1, <4>1, <4>2
    <3>3. QED BY <2>1, <3>1, <3>2
  <2>4. QED BY <2>2, <2>3
<1>4. QED BY <1>2, <1>3, StepIs

\* A call that succeeded was executed.
LEMMA DoneStep ==
  ASSUME Types, NEW d \in Callers, Stepped(d), PairInv(d), DoneInv(d)
  PROVE  DoneInv(d)'
<1>1. did[d] \subseteq did'[d]
  BY DEF Stepped, Still, Invoked, Failed, Died, SentOff, Accessed, Returned, ToggledOn, Served, Quiet
<1>2. out'[d] = "ok" => out[d] = "ok" \/ Returned(d)
  BY DEF Stepped, Still, Invoked, Failed, Died, SentOff, Accessed, Attempting, ToggledOn, Served,
         Errors, Refusals
<1>3. phase'[d] = 2 => phase[d] = 2 \/ ToggledOn(d)
  BY StepIs DEF Placed
<1>4. Returned(d) \/ ToggledOn(d) => did[d] # {}
  BY DEF Returned, ToggledOn, Usable, Answered, PairInv
<1>5. QED BY <1>1, <1>2, <1>3, <1>4 DEF DoneInv

--------------------------------------------------------------------------------
(* Interceptors *)

\* A collector around the retries counts the call when it ends, one within them
\* each attempt; until then all are errors.
MetricsInv(c) ==
  call[c].name # "ToggleBit" /\ Intercepted(c) =>
    LET around == Reaches("metrics", Outer(chain[c]), Info(c))
        within == Reaches("metrics", Inner(chain[c]), Info(c))
        calls  == counts[c].calls
        errors == counts[c].errors
    IN /\ st[c] = "idle" => calls = 0 /\ errors = 0
       /\ st[c] \in {"ready", "waiting"} =>
            /\ around => calls = 0
            /\ within => calls + (IF st[c] = "ready" THEN 0 ELSE 1) >= try[c]
            /\ calls = errors
       /\ st[c] = "done" =>
            /\ around => calls = 1
            /\ within => calls >= try[c]
            /\ (around \/ within) /\ Admitted(Outer(chain[c]), Info(c)) =>
                 calls - errors = (IF out[c] = "ok" THEN 1 ELSE 0)

\* What the interceptors are told of a request.
InfoOf(c, q) ==
  LET name == IF ~q.write /\ call[c].name = "ToggleBit" THEN "ReadBits" ELSE call[c].name
  IN [name |-> name, area |-> call[c].area, addr |-> call[c].addr,
      count |-> IF q.write THEN 0 ELSE IF call[c].name = "ToggleBit" THEN 1 ELSE call[c].n,
      len |-> IF q.write THEN call[c].n ELSE 0]

CheckInv(c) == \A q \in Mine(c) : Guarded(c, q) => Admitted(chain[c], InfoOf(c, q))

\* What a note does to the counts.
LEMMA NotedIs ==
  ASSUME NEW d \in Callers, NEW s, NEW t, NEW failed \in BOOLEAN, Noted(d, {s, t}, failed)
  PROVE  /\ Reaches("metrics", s, Info(d)) \/ Reaches("metrics", t, Info(d)) =>
              /\ counts'[d].calls = counts[d].calls + 1
              /\ failed => counts'[d].errors = counts[d].errors + 1
              /\ ~failed => counts'[d].errors = counts[d].errors + 0
         /\ ~(Reaches("metrics", s, Info(d)) \/ Reaches("metrics", t, Info(d))) =>
              counts'[d] = counts[d]
<1>1. CASE Reaches("metrics", s, Info(d)) \/ Reaches("metrics", t, Info(d))
  <2>1. counts'[d] = Counted(counts[d], failed)
    BY <1>1 DEF Noted
  <2>2. QED BY <1>1, <2>1 DEF Counted
<1>2. CASE ~(Reaches("metrics", s, Info(d)) \/ Reaches("metrics", t, Info(d)))
  BY <1>2 DEF Noted
<1>3. QED BY <1>1, <1>2

\* What the collector has counted.
LEMMA MetricsStep ==
  ASSUME Types, callVars' = callVars, NEW d \in Callers, Stepped(d), StageInv(d), TriesInv(d),
         MetricsInv(d)
  PROVE  MetricsInv(d)'
<1>1. /\ kind' = kind /\ chain' = chain /\ call' = call /\ try[d] \in Nat /\ phase[d] \in 1..2
      /\ counts[d].calls \in Nat /\ counts[d].errors \in Nat
      /\ chain[d] \in Seq(Names) /\ chain[d] \in Chains[d] /\ st[d] \in Stages
  BY DEF callVars, Types, CallInv
<1>2. CASE call[d].name = "ToggleBit"
  BY <1>1, <1>2 DEF MetricsInv
<1>3. CASE call[d].name # "ToggleBit"
  <2>1. phase[d] = 1 /\ ~Toggling(d)
    BY <1>1, <1>3 DEF StageInv, Toggling
  <2>2. Placed(d)
    BY <2>1, StepIs DEF ToggledOn
  <2>3. Info(d)' = Info(d) /\ Intercepted(d)' = Intercepted(d)
    BY <2>2, SameCall DEF Placed
  <2>4. SUFFICES ASSUME Intercepted(d) PROVE MetricsInv(d)'
    BY <2>3 DEF MetricsInv
  <2> DEFINE A == Reaches("metrics", Outer(chain[d]), Info(d))
             W == Reaches("metrics", Inner(chain[d]), Info(d))
             P == Admitted(Outer(chain[d]), Info(d))
             k == counts[d].calls
             e == counts[d].errors
             k2 == counts'[d].calls
             e2 == counts'[d].errors
  <2>5. ItsChain(d) = chain[d]
    BY <2>4 DEF ItsChain
  <2>6. ~(A /\ W)
    <3>1. Distinct(chain[d])
      BY <1>1, OperationsAssumption DEF Distinct
    <3>2. QED BY <1>1, <3>1, CollectorAt
  <2>7. /\ st[d] = "idle" => k = 0 /\ e = 0
        /\ st[d] \in {"ready", "waiting"} =>
             /\ A => k = 0
             /\ W => k + (IF st[d] = "ready" THEN 0 ELSE 1) >= try[d]
             /\ k = e
        /\ st[d] = "done" =>
             /\ A => k = 1
             /\ W => k >= try[d]
             /\ (A \/ W) /\ P => k - e = (IF out[d] = "ok" THEN 1 ELSE 0)
    BY <1>3, <2>4 DEF MetricsInv
  <2>8. SUFFICES
        /\ st'[d] = "idle" => k2 = 0 /\ e2 = 0
        /\ st'[d] \in {"ready", "waiting"} =>
             /\ A => k2 = 0
             /\ W => k2 + (IF st'[d] = "ready" THEN 0 ELSE 1) >= try'[d]
             /\ k2 = e2
        /\ st'[d] = "done" =>
             /\ A => k2 = 1
             /\ W => k2 >= try'[d]
             /\ (A \/ W) /\ P => k2 - e2 = (IF out'[d] = "ok" THEN 1 ELSE 0)
    BY <1>1, <2>3 DEF MetricsInv
  <2>9. CASE Invoked(d)
    <3>1. st[d] = "idle" /\ try'[d] = 0
      BY <2>1, <2>9 DEF Invoked, TriesInv
    <3>2. CASE P
      <4>1. st'[d] = "ready" /\ counts'[d] = counts[d]
        BY <2>5, <2>9, <3>2 DEF Invoked
      <4> HIDE DEF A, W, P
      <4>2. QED BY <2>7, <3>1, <4>1
    <3>3. CASE ~P
      <4>1. st'[d] = "done" /\ Noted(d, {Outer(chain[d]), Outer(chain[d])}, TRUE)
        <5>1. {Outer(chain[d])} = {Outer(chain[d]), Outer(chain[d])}
          OBVIOUS
        <5>2. QED BY <2>5, <2>9, <3>3, <5>1 DEF Invoked
      <4>2. /\ A => k2 = k + 1
            /\ ~A => k2 = k
        BY <4>1, NotedIs, Zenon
      <4> HIDE DEF A, W, P, k, k2
      <4>3. QED BY <2>7, <3>1, <3>3, <4>1, <4>2
    <3>4. QED BY <3>2, <3>3
  <2>10. CASE Failed(d)
    <3>1. st[d] \in {"ready", "waiting"} /\ try'[d] = try[d]
      BY <2>10 DEF Failed
    <3>2. CASE st'[d] = "ready"
      <4>1. Noted(d, {Inner(chain[d]), Inner(chain[d])}, TRUE)
        <5>1. {Inner(chain[d])} = {Inner(chain[d]), Inner(chain[d])}
          OBVIOUS
        <5>2. QED BY <2>5, <2>10, <3>2, <5>1 DEF Failed
      <4>2. /\ W => k2 = k + 1 /\ e2 = e + 1
            /\ ~W => k2 = k /\ e2 = e
        BY <4>1, NotedIs, Zenon
      <4>3. k \in Nat /\ e \in Nat
        BY <1>1
      <4> HIDE DEF A, W, P, k, k2, e, e2
      <4>4. QED BY <1>1, <2>6, <2>7, <3>1, <3>2, <4>2, <4>3
    <3>3. CASE st'[d] = "done" /\ out'[d] # "ok"
      <4>1. Noted(d, {Outer(chain[d]), Inner(chain[d])}, TRUE)
        BY <2>5, <2>10, <3>3 DEF Failed
      <4>2. /\ A \/ W => k2 = k + 1 /\ e2 = e + 1
            /\ ~(A \/ W) => k2 = k /\ e2 = e
        BY <4>1, NotedIs, Zenon
      <4>3. k \in Nat /\ e \in Nat
        BY <1>1
      <4> HIDE DEF A, W, P, k, k2, e, e2
      <4>4. QED BY <1>1, <2>7, <3>1, <3>3, <4>2, <4>3
    <3>4. QED BY <2>10, <3>2, <3>3 DEF Failed, Errors, Refusals
  <2>11. CASE SentOff(d) \/ Accessed(d)
    <3>1. /\ st[d] = "ready" /\ try'[d] = try[d] + 1 /\ counts'[d] = counts[d]
          /\ st'[d] \in {"waiting", "panicked"}
      BY <2>11 DEF SentOff, Accessed, Attempting, Ready, Attempted
    <3>2. k2 = k /\ e2 = e /\ k \in Nat /\ e \in Nat
      BY <1>1, <3>1
    <3> HIDE DEF A, W, P, k, k2, e, e2
    <3>3. QED BY <1>1, <2>7, <3>1, <3>2
  <2>12. CASE Returned(d)
    <3>1. st[d] = "waiting" /\ try'[d] = try[d] /\ st'[d] = "done" /\ out'[d] = "ok"
      BY <2>12 DEF Returned, Usable, Answered
    <3>2. Noted(d, {Outer(chain[d]), Inner(chain[d])}, FALSE)
      BY <2>5, <2>12 DEF Returned
    <3>3. /\ A \/ W => k2 = k + 1 /\ e2 = e + 0
          /\ ~(A \/ W) => k2 = k /\ e2 = e
      BY <3>2, NotedIs, Zenon
    <3>4. k \in Nat /\ e \in Nat
      BY <1>1
    <3> HIDE DEF A, W, P, k, k2, e, e2
    <3>5. QED BY <1>1, <2>7, <3>1, <3>3, <3>4
  <2>13. CASE Still(d) \/ \E q \in net : Served(d, q)
    <3>1. st'[d] = st[d] /\ try'[d] = try[d] /\ counts'[d] = counts[d] /\ out'[d] = out[d]
      BY <2>13 DEF Still, Served
    <3> HIDE DEF A, W, P
    <3>2. QED BY <2>7, <3>1
  <2>14. CASE Died(d)
    BY <2>14 DEF Died
  <2>15. QED BY <2>1, <2>9, <2>10, <2>11, <2>12, <2>13, <2>14 DEF Stepped, ToggledOn
<1>4. QED BY <1>2, <1>3

\* What is requested was admitted.
LEMMA CheckStep ==
  ASSUME Types, callVars' = callVars, NEW d \in Callers, Stepped(d), StageInv(d), CheckInv(d)
  PROVE  CheckInv(d)'
<1>1. /\ kind' = kind /\ chain' = chain /\ call' = call /\ chain[d] \in Seq(Names) /\ CallInv
      /\ phase[d] \in 1..2
  BY DEF callVars, Types, CallInv
<1>2. SUFFICES ASSUME NEW q \in Mine(d)', Guarded(d, q) PROVE Admitted(chain[d], InfoOf(d, q))
  BY <1>1 DEF CheckInv, Guarded, InfoOf
<1>3. CASE q \in Mine(d)
  BY <1>2, <1>3 DEF CheckInv
<1>4. CASE q = Request(d) /\ Attempting(d)
  <2>1. q.write <=> Writing(d)
    BY <1>4, RequestSent
  <2>2. Info(d) = InfoOf(d, q)
    <3>1. CASE Writing(d)
      <4>1. ~Toggling(d) /\ Name(d) = call[d].name /\ Name(d) \notin Reads
        BY <3>1 DEF Writing, Name, Toggling, Reads
      <4>2. QED BY <2>1, <3>1, <4>1 DEF Info, InfoOf
    <3>2. CASE ~Writing(d)
      <4>1. Name(d) \in Reads /\ (Toggling(d) <=> call[d].name = "ToggleBit")
        BY <3>2 DEF Writing, Name, Toggling, Reads
      <4>2. Name(d) = IF call[d].name = "ToggleBit" THEN "ReadBits" ELSE call[d].name
        BY <4>1 DEF Name
      <4>3. QED BY <2>1, <3>2, <4>1, <4>2 DEF Info, InfoOf
    <3>3. QED BY <3>1, <3>2
  <2>3. Intercepted(d)
    BY <1>2, <2>1 DEF Guarded, Intercepted, Writing, Name, Reads, Bare, Twiddles
  <2>4. Admitted(Outer(chain[d]), Info(d)) /\ Admitted(Inner(chain[d]), Info(d))
    BY <1>4, <2>3 DEF Attempting, Ready, Attempted, StageInv, ItsChain
  <2>5. QED BY <1>1, <2>2, <2>4, AdmittedParts
<1>5. QED BY <1>3, <1>4, StepIs

--------------------------------------------------------------------------------
(* Executions *)

CallerInv(c) ==
  /\ StageInv(c) /\ TriesInv(c) /\ LocalInv(c) /\ NetInv(c) /\ OnceInv(c) /\ PairInv(c)
  /\ FreshInv(c) /\ CalmInv(c) /\ SingleInv(c) /\ TurnInv(c) /\ DoneInv(c)
  /\ MetricsInv(c) /\ CheckInv(c)

\* The request q of caller c is executed in this step.
Executed(c, q) ==
  /\ Served(c, q) \/ (Accessed(c) /\ q = Request(c))
  /\ Verdict(q) = "ok" /\ q \in RequestSet /\ q.from = c /\ q \notin did[c]
  /\ did'[c] = did[c] \cup {q} /\ \A d \in Callers \ {c} : did'[d] = did[d] /\ Still(d)
  /\ mem' = (IF q.write THEN Written(mem, q) ELSE mem) /\ Observe(q)

\* The memory changes, and is watched, when a request is executed.
LEMMA Executions ==
  ASSUME Types, [Next]_vars, \A c \in Callers : NetInv(c) /\ OnceInv(c)
  PROVE  \/ UNCHANGED <<mem, did, touched>>
         \/ \E c \in Callers : \E q \in RequestSet : Executed(c, q)
<1>1. ASSUME NEW c \in Callers, Access(c), Verdict(Request(c)) = "ok"
      PROVE  Executed(c, Request(c))
  <2> DEFINE q == Request(c)
  <2>1. Accessed(c)
    <3>1. did'[c] = IF Verdict(q) = "ok" THEN did[c] \cup {q} ELSE did[c]
      <4>1. q.from = c
        BY DEF Request
      <4> HIDE DEF q
      <4>2. Execute(q, Verdict(q))
        BY <1>1 DEF Access, q
      <4>3. QED BY <4>1, <4>2 DEF Execute, Types
    <3>2. ans'[c] = Result(q, Verdict(q)) /\ try'[c] = try[c] + 1
      BY <1>1 DEF Access, Types
    <3>3. st'[c] = IF Verdict(q) = "panic" THEN "panicked" ELSE "waiting"
      BY <1>1 DEF Access, Types
    <3>4. /\ left' = left /\ counts' = counts /\ out' = out /\ gaveUp' = gaveUp /\ phase' = phase
          /\ bit' = bit /\ net' = net /\ Ready(c) /\ ~MakesNoRequest(c) /\ kind[c] = "inline"
      BY <1>1 DEF Access
    <3> HIDE DEF q
    <3>5. QED BY <3>1, <3>2, <3>3, <3>4 DEF Accessed, Attempting, Placed, NetOf, q
  <2>2. callVars' = callVars
    BY <1>1 DEF Access
  <2>3. q \in RequestSet /\ q.from = c
    BY <2>1, <2>2, RequestSent DEF Accessed
  <2>4. q \notin did[c]
    BY <2>1, Older DEF Accessed, Mine
  <2> HIDE DEF q
  <2>5. Execute(q, "ok")
    BY <1>1 DEF Access, q
  <2>6. \A d \in Callers \ {c} : did'[d] = did[d]
    BY <2>3, <2>5 DEF Execute, Types
  <2>7. \A d \in Callers \ {c} : Still(d)
    <3>1. SUFFICES ASSUME NEW d \in Callers \ {c} PROVE Still(d)
      OBVIOUS
    <3>2. try'[d] = try[d] /\ ans'[d] = ans[d] /\ st'[d] = st[d] /\ did'[d] = did[d]
      BY <1>1, <2>6 DEF Access, Types
    <3>3. /\ left' = left /\ counts' = counts /\ out' = out /\ gaveUp' = gaveUp /\ phase' = phase
          /\ bit' = bit /\ net' = net
      BY <1>1 DEF Access
    <3>4. QED BY <3>2, <3>3 DEF Still, Placed, Quiet, NetOf
  <2>8. /\ did'[c] = did[c] \cup {q}
        /\ mem' = (IF q.write THEN Written(mem, q) ELSE mem) /\ Observe(q)
    BY <2>3, <2>5 DEF Execute, Types
  <2>9. QED BY <1>1, <2>1, <2>3, <2>4, <2>6, <2>7, <2>8 DEF Executed, q
<1>2. ASSUME NEW q \in net, Serve(q), Verdict(q) = "ok" PROVE Executed(q.from, q)
  <2> DEFINE c == q.from
  <2>1. q \in RequestSet /\ c \in Callers /\ q \in NetOf(c)
    BY RequestTypes DEF Types, NetOf
  <2>2. Execute(q, "ok") /\ net' = net \ {q} /\ tryVars' = tryVars /\ gaveUp' = gaveUp
    BY <1>2 DEF Serve
  <2>3. /\ did'[c] = did[c] \cup {q} /\ \A d \in Callers \ {c} : did'[d] = did[d]
        /\ mem' = (IF q.write THEN Written(mem, q) ELSE mem) /\ Observe(q)
    BY <2>1, <2>2 DEF Execute, Types
  <2>4. /\ ans'[c] = IF q.try = try[c] THEN Result(q, "ok") ELSE ans[c]
        /\ \A d \in Callers \ {c} : ans'[d] = ans[d]
    BY <1>2, <2>1 DEF Serve, Types
  <2>5. NetOf(c)' = NetOf(c) \ {q} /\ \A d \in Callers \ {c} : NetOf(d)' = NetOf(d)
    BY <2>2 DEF NetOf
  <2>6. q \notin did[c]
    BY <2>1 DEF OnceInv
  <2> HIDE DEF c
  <2>7. Served(c, q)
    BY <1>2, <2>1, <2>2, <2>3, <2>4, <2>5 DEF Served, Placed, tryVars
  <2>8. \A d \in Callers \ {c} : Still(d)
    BY <2>2, <2>3, <2>4, <2>5 DEF Still, Placed, Quiet, tryVars
  <2>9. QED BY <1>2, <2>1, <2>3, <2>6, <2>7, <2>8 DEF Executed, c
<1>3. CASE \E q \in net : Serve(q)
  <2>1. PICK q \in net : Serve(q)
    BY <1>3
  <2>2. q \in RequestSet /\ q.from \in Callers
    BY RequestTypes DEF Types
  <2>3. Verdict(q) # "ok" => UNCHANGED <<mem, did, touched>>
    BY <2>1 DEF Serve, Execute
  <2>4. QED BY <1>2, <2>1, <2>2, <2>3
<1>4. CASE \E c \in Callers : Access(c)
  <2>1. PICK c \in Callers : Access(c)
    BY <1>4
  <2> DEFINE q == Request(c)
  <2>2. Verdict(q) # "ok" => UNCHANGED <<mem, did, touched>>
    <3> HIDE DEF q
    <3>1. Execute(q, Verdict(q))
      BY <2>1 DEF Access, q
    <3>2. QED BY <3>1 DEF Execute
  <2>3. Verdict(q) = "ok" => q \in RequestSet /\ Executed(c, q)
    BY <1>1, <2>1 DEF Executed
  <2>4. QED BY <2>2, <2>3
<1>5. ASSUME NEW c \in Callers, CallNext(c), ~Access(c) PROVE UNCHANGED <<mem, did, touched>>
  BY <1>5 DEF CallNext, Invoke, Refuse, CallerPanics, Send, ReturnError, ReturnPanics, Return, ToggleOn,
              Timeout, GiveUp, Expire, Die, Untouched, simVars
<1>6. CASE Close \/ UNCHANGED vars
  BY <1>6 DEF Close, vars, simVars
<1>7. QED BY <1>3, <1>4, <1>5, <1>6 DEF Next

\* What is executed is a request of its caller, within its area.
LEMMA ExecutedIs ==
  ASSUME Types, callVars' = callVars, NEW c \in Callers, NetInv(c), NEW q \in RequestSet, Executed(c, q)
  PROVE  /\ Asked(c, q) /\ InBounds(q) /\ q \in Mine(c)' /\ Placed(c)
         /\ q.write /\ call[c].name = "ToggleBit" => phase[c] = 2
         /\ mem' \in Memories
<1>1. Asked(c, q) /\ Placed(c)
  <2>1. ASSUME Served(c, q) PROVE Asked(c, q) /\ Placed(c)
    BY <2>1 DEF Served, NetInv, Mine, Sent
  <2>2. ASSUME Accessed(c), q = Request(c) PROVE Asked(c, q) /\ Placed(c)
    BY <2>2, RequestSent DEF Accessed, Attempting
  <2>3. QED BY <2>1, <2>2 DEF Executed
<1>2. InBounds(q) /\ q \in Mine(c)'
  BY DoneInBounds DEF Executed, Mine
<1>3. q.write /\ call[c].name = "ToggleBit" => phase[c] = 2
  BY <1>1 DEF Asked, Writing, Name, Toggling, Reads, Types
<1>4. mem' \in Memories
  BY <1>2, WrittenIs DEF Executed, Types
<1>5. QED BY <1>1, <1>2, <1>3, <1>4

--------------------------------------------------------------------------------
(* The bit of a toggle *)

Cell(c) == (call[c].addr + call[c].bit) % Wrap

\* Nobody else wrote the bit: what the toggle read of it is still there.
BitInv(c) ==
  call[c].name = "ToggleBit" /\ ~touched[c] =>
    /\ phase[c] = 2 /\ (\A q \in did[c] : ~q.write) =>
         bit[c] = mem[call[c].area][Cell(c)] % 2
    /\ phase[c] = 1 /\ ans[c] # NoAnswer /\ ans[c].verdict = "ok" =>
         ans[c].data[1] % 2 = mem[call[c].area][Cell(c)] % 2

\* Where a toggle's requests go.
LEMMA CellIs ==
  ASSUME Types, NEW d \in Callers, call[d].name = "ToggleBit", NEW q \in RequestSet, Asked(d, q),
         InBounds(q)
  PROVE  /\ q.area = call[d].area /\ call[d].area \in Areas /\ Cell(d) \in Cells
         /\ Start(q) = Cell(d) /\ ItemBytes(q) = 1
<1>1. CallInv
  BY DEF Types
<1>2. Start(q) = Cell(d) /\ ItemBytes(q) = 1 /\ q.area \in Areas /\ q.area = call[d].area
  BY <1>1, SentAccess, CountIs DEF BitCalls, Twiddles, Cell, Asked
<1>3. Start(q) \in Nat /\ Start(q) + 1 <= AreaSize
  BY <1>2, Bounds DEF InBounds
<1>4. Start(q) \in Cells
  BY <1>3, Sizes DEF Cells
<1>5. QED BY <1>2, <1>4

\* Once it knows the bit, it has one that lies in its area.
LEMMA CellKnown ==
  ASSUME Types, NEW d \in Callers, call[d].name = "ToggleBit", NetInv(d), did[d] # {}
  PROVE  call[d].area \in Areas /\ Cell(d) \in Cells
<1>1. PICK q \in did[d] : TRUE
  OBVIOUS
<1>2. q \in RequestSet /\ Asked(d, q) /\ Verdict(q) = "ok"
  BY Own2 DEF NetInv, Sent, Mine
<1>3. QED BY <1>2, DoneInBounds, CellIs

\* A request of another caller that does not write the bit leaves it alone.
LEMMA BitLeft ==
  ASSUME Types, NEW d \in Callers, call[d].area \in Areas, Cell(d) \in Cells,
         NEW q \in RequestSet, q.from # d, InBounds(q), ~WritesOver(q, d),
         mem' = (IF q.write THEN Written(mem, q) ELSE mem)
  PROVE  mem'[call[d].area][Cell(d)] = mem[call[d].area][Cell(d)]
<1>1. CASE q.write
  <2>1. ~(q.area = call[d].area /\ Cell(d) \in Copied(q))
    BY <1>1 DEF WritesOver, Cell
  <2>2. QED BY <1>1, <2>1, WrittenIs DEF Types
<1>2. CASE ~q.write
  BY <1>2
<1>3. QED BY <1>1, <1>2

\* What a toggle knows of its bit.
LEMMA BitStep ==
  ASSUME Types, [Next]_vars, \A c \in Callers : CallerInv(c), NEW d \in Callers, Stepped(d), BitInv(d)
  PROVE  BitInv(d)'
<1>1. /\ callVars' = callVars /\ kind' = kind /\ chain' = chain /\ call' = call
      /\ NetInv(d) /\ PairInv(d) /\ OnceInv(d) /\ DoneInv(d) /\ phase[d] \in 1..2
  BY SameCalls DEF callVars, CallerInv, Types
<1> DEFINE C == Cell(d)
           a == call[d].area
<1>2. SUFFICES ASSUME call[d].name = "ToggleBit", ~touched'[d]
               PROVE  /\ phase'[d] = 2 /\ (\A q \in did'[d] : ~q.write) => bit'[d] = mem'[a][C] % 2
                      /\ phase'[d] = 1 /\ ans'[d] # NoAnswer /\ ans'[d].verdict = "ok" =>
                           ans'[d].data[1] % 2 = mem'[a][C] % 2
  BY <1>1 DEF BitInv, Cell
<1>3. ~touched[d] => /\ phase[d] = 2 /\ (\A q \in did[d] : ~q.write) => bit[d] = mem[a][C] % 2
                     /\ phase[d] = 1 /\ ans[d] # NoAnswer /\ ans[d].verdict = "ok" =>
                          ans[d].data[1] % 2 = mem[a][C] % 2
  BY <1>2 DEF BitInv
<1>4. CASE UNCHANGED <<mem, did, touched>>
  <2>1. CASE Placed(d)
    <3>1. ans'[d] = ans[d] \/ ans'[d] = NoAnswer \/ ans'[d].verdict # "ok"
      <4>1. CASE Accessed(d)
        <5>1. Request(d) \notin did[d] /\ Request(d) \in RequestSet
          BY <1>1, <4>1, Older, RequestSent DEF Accessed, Mine
        <5>2. Verdict(Request(d)) # "ok"
          BY <1>4, <4>1, <5>1 DEF Accessed
        <5>3. QED BY <4>1, <5>1, <5>2, ResultIs DEF Accessed
      <4>2. CASE \E q \in net : Served(d, q)
        <5>1. PICK q \in net : Served(d, q)
          BY <4>2
        <5>2. q \in RequestSet /\ q \notin did[d]
          BY <1>1, <5>1 DEF Served, OnceInv, Types
        <5>3. Verdict(q) # "ok"
          BY <1>4, <5>1, <5>2 DEF Served
        <5>4. QED BY <5>1, <5>2, <5>3, ResultIs DEF Served
      <4>3. CASE SentOff(d)
        BY <4>3 DEF SentOff
      <4>4. CASE Quiet(d)
        BY <4>4 DEF Quiet
      <4>5. QED BY <4>1, <4>2, <4>3, <4>4 DEF Stepped, Still, Invoked, Failed, Died, Returned, ToggledOn
    <3>2. QED BY <1>2, <1>3, <1>4, <2>1, <3>1 DEF Placed
  <2>2. CASE ToggledOn(d)
    <3>1. phase[d] = 1 /\ ans[d] # NoAnswer /\ ans[d].verdict = "ok" /\ phase'[d] = 2
      BY <2>2 DEF ToggledOn, Usable, Answered, Toggling
    <3>2. bit'[d] = ans[d].data[1] % 2
      BY <2>2 DEF ToggledOn, TakenBit
    <3>3. QED BY <1>2, <1>3, <1>4, <3>1, <3>2
  <2>3. QED BY <2>1, <2>2, StepIs
<1>5. ASSUME NEW c \in Callers, NEW q \in RequestSet, Executed(c, q), c # d
      PROVE  /\ phase'[d] = 2 /\ (\A r \in did'[d] : ~r.write) => bit'[d] = mem'[a][C] % 2
             /\ phase'[d] = 1 /\ ans'[d] # NoAnswer /\ ans'[d].verdict = "ok" =>
                  ans'[d].data[1] % 2 = mem'[a][C] % 2
  <2>1. Still(d) /\ did'[d] = did[d] /\ q.from # d /\ Observe(q)
        /\ mem' = (IF q.write THEN Written(mem, q) ELSE mem)
    BY <1>5 DEF Executed
  <2>2. InBounds(q)
    BY <1>1, <1>5, ExecutedIs DEF CallerInv
  <2>3. ~touched[d] /\ ~WritesOver(q, d)
    BY <1>2, <2>1 DEF Observe, ReadsFor
  <2>4. CASE did[d] # {}
    <3>1. mem'[a][C] = mem[a][C]
      BY <1>1, <1>2, <2>1, <2>2, <2>3, <2>4, CellKnown, BitLeft
    <3>2. QED BY <1>3, <2>1, <2>3, <3>1 DEF Still, Placed, Quiet
  <2>5. CASE did[d] = {}
    <3>1. phase[d] # 2 /\ ~(ans[d] # NoAnswer /\ ans[d].verdict = "ok")
      BY <1>1, <2>5 DEF DoneInv, PairInv
    <3>2. QED BY <2>1, <3>1 DEF Still, Placed, Quiet
  <2>6. QED BY <2>4, <2>5
<1>6. ASSUME NEW q \in RequestSet, Executed(d, q)
      PROVE  /\ phase'[d] = 2 /\ (\A r \in did'[d] : ~r.write) => bit'[d] = mem'[a][C] % 2
             /\ phase'[d] = 1 /\ ans'[d] # NoAnswer /\ ans'[d].verdict = "ok" =>
                  ans'[d].data[1] % 2 = mem'[a][C] % 2
  <2>1. /\ did'[d] = did[d] \cup {q} /\ q.from = d /\ Verdict(q) = "ok" /\ Observe(q)
        /\ mem' = (IF q.write THEN Written(mem, q) ELSE mem)
        /\ Served(d, q) \/ (Accessed(d) /\ q = Request(d))
    BY <1>6 DEF Executed
  <2>2. /\ Asked(d, q) /\ InBounds(q) /\ phase'[d] = phase[d] /\ bit'[d] = bit[d]
        /\ q.write => phase[d] = 2
    BY <1>1, <1>2, <1>6, ExecutedIs DEF Placed
  <2>3. CASE q.write
    BY <2>1, <2>2, <2>3
  <2>4. CASE ~q.write
    <3>1. mem' = mem
      BY <2>1, <2>4
    <3>2. (~ReadsFor(q, d) /\ ~touched[d])
      \/ ReadsFor(q, d)
      BY <1>2, <2>1 DEF Observe
    <3>3. CASE phase[d] = 2
      <4>1. ~touched[d]
        BY <3>2, <3>3 DEF ReadsFor, Toggling
      <4>2. QED BY <1>3, <2>1, <2>2, <3>1, <3>3, <4>1
    <3>4. CASE phase[d] = 1 /\ ReadsFor(q, d)
      <4>1. ans'[d] = Result(q, Verdict(q))
        BY <2>1, <3>4 DEF Served, Accessed, ReadsFor
      <4>2. ans'[d].data = Data(mem, q)
        BY <2>1, <2>4, <4>1, ResultIs
      <4>3. ItemBytes(q) = 1 /\ Start(q) = C /\ q.area = a /\ C \in Nat
        BY <1>2, <2>2, CellIs, Bounds
      <4>4. Data(mem, q)[1] = mem[a][C + 1 - 1]
        <5> HIDE DEF C, a
        <5>1. mem \in Memories
          BY DEF Types
        <5>2. 1 \in 1..ItemBytes(q)
          BY <4>3
        <5>3. QED BY <2>2, <4>3, <5>1, <5>2, DataIs
      <4>5. C + 1 - 1 = C
        BY <4>3
      <4>6. QED BY <2>2, <3>1, <3>4, <4>2, <4>4, <4>5
    <3>5. CASE phase[d] = 1 /\ ~ReadsFor(q, d)
      <4>1. q.try # try'[d]
        BY <1>2, <2>1, <2>4, <3>5 DEF ReadsFor, Toggling
      <4>2. ~Accessed(d) \/ q # Request(d)
        BY <4>1, Older, <1>1 DEF Accessed
      <4>3. ans'[d] = ans[d]
        BY <2>1, <4>1, <4>2 DEF Served
      <4>4. QED BY <1>3, <2>2, <3>1, <3>2, <3>5, <4>3
    <3>6. QED BY <1>1, <3>3, <3>4, <3>5
  <2>5. QED BY <2>3, <2>4
<1>7. CASE \E c \in Callers : \E q \in RequestSet : Executed(c, q)
  BY <1>5, <1>6, <1>7
<1>8. QED BY <1>4, <1>7, Executions DEF CallerInv

--------------------------------------------------------------------------------
(* Panics *)

\* A call that makes no request is larger than an area.
LEMMA NoRequestUnfit ==
  ASSUME Types, NEW c \in Callers, MakesNoRequest(c)
  PROVE  ~Fits(c)
<1>1. call[c].name = "WriteWords" /\ 2 * Count(c) >= Wrap
  BY NameIs DEF MakesNoRequest
<1>2. Count(c) = call[c].n % Wrap /\ Count(c) \in Nat
  BY <1>1, CountIs DEF Types, Twiddles
<1>3. call[c].n \in Nat /\ Count(c) <= call[c].n /\ First(c) \in Nat
  BY <1>2, CallTypes, Wraps DEF Types, First
<1>4. Size(c) = 2 * call[c].n
  BY <1>1 DEF Size, Twiddles
<1>5. QED BY <1>1, <1>2, <1>3, <1>4, Sizes DEF Fits

\* An answer that is indexed beyond its data: a call larger than an area, or than
\* the client's receive buffer.
LEMMA IndexUnfit ==
  ASSUME Types, NEW c \in Callers, CallerInv(c), Answered(c), ans[c].verdict = "ok",
         Indexed(c) > IndexRoom(c)
  PROVE  ~Fits(c) \/ (kind[c] = "udp" /\ call[c].name \in Reads /\ Size(c) > ReadRoom)
<1>1. /\ CallInv /\ ans[c] \in Answers /\ ans[c].data \in Seq(Nat)
      /\ kind[c] \in {"udp", "tcp", "inline"}
  BY DEF Answered, Types, CallInv, Answers
<1>2. PICK q \in did[c] : /\ q.try = try[c]
                          /\ Len(ans[c].data) = IF q.write THEN 0 ELSE ItemBytes(q)
  BY DEF Answered, CallerInv, PairInv
<1>3. q \in RequestSet /\ Asked(c, q) /\ (q.write <=> Writing(c))
  BY <1>2, Own2 DEF CallerInv, NetInv, FreshInv, Answered, Mine, Sent
<1>4. /\ ItemBytes(q) \in Nat /\ ItemBytes(q) = (IF call[c].name \in BitCalls THEN Count(c)
                                                 ELSE (2 * Count(c)) % Wrap)
      /\ First(c) \in Nat /\ call[c].n \in Nat /\ Count(c) \in Nat
  BY <1>1, <1>3, SentAccess, Bounds, CallTypes, CountIs DEF First
<1> DEFINE L == Len(ans[c].data)
<1>5. L \in Nat
  BY <1>1
<1>6. Len(Received(c)) = IF kind[c] = "udp" /\ L > ReadRoom THEN ReadRoom ELSE L
  <2>1. CASE kind[c] = "udp" /\ L > ReadRoom
    <3>1. Received(c) = SubSeq(ans[c].data, 1, ReadRoom)
      BY <2>1 DEF Received, Tailed
    <3>2. Len(SubSeq(ans[c].data, 1, ReadRoom)) = ReadRoom
      BY <1>1, <2>1, Cut, Sizes
    <3>3. QED BY <2>1, <3>1, <3>2
  <2>2. CASE ~(kind[c] = "udp" /\ L > ReadRoom)
    BY <2>2 DEF Received, Tailed
  <2>3. QED BY <2>1, <2>2
<1> HIDE DEF L
<1>7. CASE Name(c) = "ReadWords"
  <2>1. call[c].name = "ReadWords" /\ ~Writing(c)
    BY <1>7, NameIs DEF Writing, Reads
  <2>2. Indexed(c) = 2 * Count(c) /\ Count(c) = call[c].n /\ L = (2 * Count(c)) % Wrap
    BY <1>1, <1>2, <1>3, <1>4, <1>7, <2>1, CountIs DEF Indexed, L, BitCalls, Twiddles, Reads
  <2>3. Size(c) = 2 * call[c].n /\ call[c].name \in Reads
    BY <2>1 DEF Size, Reads, Twiddles
  <2>4. CASE kind[c] = "udp"
    <3>1. IndexRoom(c) = ReadRoom
      BY <1>7, <2>4 DEF IndexRoom
    <3>2. QED BY <2>2, <2>3, <2>4, <3>1
  <2>5. CASE kind[c] # "udp"
    <3>1. IndexRoom(c) = L
      BY <1>6, <2>5 DEF IndexRoom
    <3>2. 2 * Count(c) > (2 * Count(c)) % Wrap
      BY <2>2, <3>1
    <3>3. 2 * Count(c) >= Wrap
      <4>1. 2 * Count(c) \in Nat
        BY <1>4
      <4>2. ~(2 * Count(c) < Wrap)
        <5>1. 2 * Count(c) < Wrap => (2 * Count(c)) % Wrap = 2 * Count(c)
          BY <4>1, Wraps, Zenon
        <5>2. QED BY <3>2, <4>1, <5>1
      <4>3. QED BY <4>1, <4>2, Sizes
    <3>4. QED BY <1>4, <2>2, <2>3, <3>3, Sizes DEF Fits
  <2>6. QED BY <2>4, <2>5
<1>8. CASE Name(c) = "ReadBits" /\ kind[c] # "inline"
  <2>1. Indexed(c) = Count(c) /\ IndexRoom(c) = Len(Received(c)) /\ ~Writing(c)
    BY <1>8 DEF Indexed, IndexRoom, Writing, Reads
  <2>2. call[c].name \in BitCalls /\ L = Count(c)
    BY <1>2, <1>3, <1>4, <1>8, <2>1, NameIs DEF L, BitCalls
  <2>3. kind[c] = "udp" /\ Count(c) > ReadRoom
    BY <1>4, <1>5, <1>6, <2>1, <2>2, Sizes
  <2>4. call[c].name = "ReadBits"
    <3>1. Toggling(c) => Count(c) = 1
      BY <1>1, NameIs, CountIs DEF Twiddles
    <3>2. ~Toggling(c)
      BY <2>3, <3>1, Sizes
    <3>3. QED BY <1>8, <3>2, NameIs
  <2>5. Size(c) = call[c].n /\ Count(c) = call[c].n /\ call[c].name \in Reads
    BY <1>1, <2>4, CountIs DEF Size, Reads, Twiddles
  <2>6. QED BY <2>3, <2>5
<1>9. CASE Name(c) # "ReadWords" /\ ~(Name(c) = "ReadBits" /\ kind[c] # "inline")
  <2>1. Indexed(c) = 0 /\ IndexRoom(c) = Len(Received(c))
    BY <1>9 DEF Indexed, IndexRoom
  <2>2. QED BY <1>5, <1>6, <2>1, Sizes
<1>10. QED BY <1>7, <1>8, <1>9

\* An answer that leaves a tail is one to a read larger than the client's receive
\* buffer.
LEMMA TailUnfit ==
  ASSUME Types, NEW c \in Callers, CallerInv(c), Answered(c), ans[c].verdict = "ok",
         Tailed(c)
  PROVE  kind[c] = "udp" /\ call[c].name \in Reads /\ Size(c) > ReadRoom
<1>1. CallInv /\ ans[c] \in Answers /\ ans[c].data \in Seq(Nat)
  BY DEF Answered, Types, CallInv, Answers
<1>2. /\ kind[c] = "udp" /\ Len(ans[c].data) > ReadRoom /\ Len(ans[c].data) \in Nat
      /\ Len(ans[c].data) > 0
  <2>1. Len(ans[c].data) \in Nat /\ ReadRoom \in Nat
    BY <1>1, Sizes
  <2>2. kind[c] = "udp" /\ Len(ans[c].data) > ReadRoom
    BY DEF Tailed
  <2>3. Len(ans[c].data) > 0
    BY <2>1, <2>2
  <2>4. QED BY <2>1, <2>2, <2>3
<1>3. PICK q \in did[c] : /\ q.try = try[c]
                          /\ Len(ans[c].data) = IF q.write THEN 0 ELSE ItemBytes(q)
  BY DEF Answered, CallerInv, PairInv
<1>4. q \in RequestSet /\ Asked(c, q) /\ (q.write <=> Writing(c))
  BY <1>3, Own2 DEF CallerInv, NetInv, FreshInv, Answered, Mine, Sent
<1>5. ~Writing(c) /\ ItemBytes(q) > ReadRoom
  BY <1>2, <1>3, <1>4
<1>6. /\ ItemBytes(q) = (IF call[c].name \in BitCalls THEN Count(c) ELSE (2 * Count(c)) % Wrap)
      /\ call[c].n \in Nat /\ Count(c) \in Nat /\ ReadRoom \in Nat /\ ReadRoom > 0
  BY <1>1, <1>4, SentAccess, CallTypes, CountIs, Sizes
<1>7. call[c].name \in Reads
  <2>1. ~Toggling(c)
    <3>1. Toggling(c) => Count(c) = 1 /\ call[c].name \in BitCalls
      BY <1>1, NameIs, CountIs DEF Toggling, Twiddles, BitCalls
    <3>2. QED BY <1>5, <1>6, <3>1
  <2>2. QED BY <1>5, <2>1 DEF Writing, Name
<1>8. Count(c) = call[c].n
  BY <1>1, <1>7, CountIs
<1>9. CASE call[c].name = "ReadBits"
  <2>1. Size(c) = call[c].n /\ call[c].name \in BitCalls
    BY <1>9 DEF Size, Twiddles, BitCalls
  <2>2. QED BY <1>2, <1>5, <1>6, <1>7, <1>8, <2>1
<1>10. CASE call[c].name \in {"ReadWords", "ReadBytes"}
  <2>1. Size(c) = 2 * call[c].n /\ call[c].name \notin BitCalls
    BY <1>10 DEF Size, Twiddles, BitCalls
  <2>2. 2 * Count(c) \in Nat
    BY <1>6
  <2>3. (2 * Count(c)) % Wrap \in Nat /\ (2 * Count(c)) % Wrap <= 2 * Count(c)
    BY <2>2, Wraps
  <2>4. QED BY <1>2, <1>5, <1>6, <1>7, <1>8, <2>1, <2>2, <2>3
<1>11. QED BY <1>7, <1>9, <1>10 DEF Reads

\* Who ends a process.
LEMMA PanicStep ==
  ASSUME Types, [Next]_vars, \A c \in Callers : CallerInv(c), PanicsOnlyWhen
  PROVE  PanicsOnlyWhen'
<1> DEFINE Blamed(c) == ~Fits(c) \/ (call[c].name = "WriteBytes" /\ kind[c] # "inline")
           Excused(c) == ~Fits(c) \/ (kind[c] = "udp" /\ call[c].name \in Reads /\ Size(c) > ReadRoom)
<1>1. /\ kind' = kind /\ call' = call
      /\ \A c \in Callers : (Fits(c)' <=> Fits(c)) /\ Size(c)' = Size(c)
  BY SameCalls DEF callVars, Fits, First, Size
<1>2. /\ up \/ \E c \in Callers : killer.from = c /\ Blamed(c)
      /\ \A c \in Callers : st[c] = "panicked" => Excused(c)
  BY DEF PanicsOnlyWhen
<1>3. SUFFICES /\ up' \/ \E c \in Callers : killer'.from = c /\ Blamed(c)
               /\ \A c \in Callers : st'[c] = "panicked" => Excused(c)
  BY <1>1 DEF PanicsOnlyWhen
<1>4. \A c \in Callers : (Excused(c) /\ kind[c] = "inline" => Blamed(c)) /\ (~Fits(c) => Excused(c) /\ Blamed(c))
  OBVIOUS
<1>5. \A c \in Callers : Request(c).from = c
  BY DEF Request
<1>6. ASSUME NEW c \in Callers, NEW q \in RequestSet, Asked(c, q), Verdict(q) = "panic"
      PROVE  Blamed(c)
  <2>1. CallInv /\ bit[c] \in 0..1 /\ try[c] \in Nat
    BY DEF Types
  <2>2. QED BY <1>6, <2>1, FitsNoPanic
<1> HIDE DEF Blamed, Excused
<1>7. ASSUME NEW c \in Callers, Excused(c), Die(c)
      PROVE  /\ up' \/ \E d \in Callers : killer'.from = d /\ Blamed(d)
             /\ \A d \in Callers : st'[d] = "panicked" => Excused(d)
  <2>1. \A d \in Callers : st'[d] = "panicked" => Excused(d)
    BY <1>2, <1>7 DEF Die, Types
  <2>2. CASE kind[c] = "inline"
    <3>1. killer' = Request(c)
      BY <1>7, <2>2 DEF Die
    <3>2. QED BY <1>4, <1>5, <1>7, <2>1, <2>2, <3>1
  <2>3. CASE kind[c] # "inline"
    <3>1. (up' <=> up) /\ killer' = killer
      BY <1>7, <2>3 DEF Die
    <3>2. QED BY <1>2, <2>1, <3>1
  <2>4. QED BY <2>2, <2>3
<1>8. ASSUME NEW c \in Callers, CallerPanics(c)
      PROVE  Excused(c) /\ Die(c)
  BY <1>4, <1>8, NoRequestUnfit DEF CallerPanics
<1>9. ASSUME NEW c \in Callers, ReturnPanics(c)
      PROVE  Excused(c) /\ Die(c)
  BY <1>9, IndexUnfit, TailUnfit DEF ReturnPanics, Excused
<1>10. ASSUME NEW c \in Callers, Access(c)
       PROVE  /\ up' \/ \E d \in Callers : killer'.from = d /\ Blamed(d)
              /\ \A d \in Callers : st'[d] = "panicked" => Excused(d)
  <2> DEFINE q == Request(c)
  <2>1. Attempting(c)
    BY <1>10 DEF Access, Attempting, Placed, Types
  <2>2. Verdict(q) = "panic" => Blamed(c) /\ Excused(c)
    BY <1>6, <1>10, <2>1, RequestSent DEF Access, Blamed, Excused
  <2>3. /\ kind[c] = "inline" /\ (up' <=> Verdict(q) # "panic")
        /\ Verdict(q) = "panic" => killer' = q
    <3> HIDE DEF q
    <3>1. Execute(q, Verdict(q)) /\ kind[c] = "inline"
      BY <1>10 DEF Access, q
    <3>2. QED BY <3>1 DEF Execute
  <2>4. \A d \in Callers : st'[d] = "panicked" => st[d] = "panicked" \/ (d = c /\ Verdict(q) = "panic")
    BY <1>10 DEF Access, Types
  <2>5. q.from = c
    BY <1>5
  <2> HIDE DEF q
  <2>6. QED BY <1>2, <2>2, <2>3, <2>4, <2>5
<1>11. ASSUME NEW q \in net, Serve(q)
       PROVE  /\ up' \/ \E d \in Callers : killer'.from = d /\ Blamed(d)
              /\ \A d \in Callers : st'[d] = "panicked" => Excused(d)
  <2>1. /\ (up' <=> Verdict(q) # "panic") /\ (Verdict(q) = "panic" => killer' = q) /\ st' = st
    BY <1>11 DEF Serve, Execute, tryVars
  <2>2. q \in RequestSet /\ q.from \in Callers
    BY RequestTypes DEF Types
  <2>3. Asked(q.from, q)
    BY <2>2 DEF CallerInv, NetInv, Mine, NetOf, Sent
  <2>4. QED BY <1>2, <1>6, <2>1, <2>2, <2>3
<1>12. ASSUME NEW c \in Callers, CallNext(c), ~CallerPanics(c), ~ReturnPanics(c), ~Access(c)
       PROVE  up' = up /\ killer' = killer /\ \A d \in Callers : st'[d] = "panicked" => st[d] = "panicked"
  <2>1. up' = up /\ killer' = killer
    BY <1>12 DEF CallNext, Invoke, Refuse, Send, ReturnError, Return, ToggleOn, Timeout, GiveUp,
                 Expire, Untouched, simVars
  <2>2. \A d \in Callers : st'[d] = "panicked" => st[d] = "panicked"
    BY <1>12 DEF CallNext, Invoke, Refuse, Send, ReturnError, Return, ToggleOn, Timeout, GiveUp,
                 Expire, Fail, TryAgain, Finish, tryVars, Types
  <2>3. QED BY <2>1, <2>2
<1>13. CASE Close \/ UNCHANGED vars
  BY <1>2, <1>13 DEF Close, vars, tryVars, simVars
<1>14. ASSUME NEW c \in Callers, CallNext(c)
       PROVE  /\ up' \/ \E d \in Callers : killer'.from = d /\ Blamed(d)
              /\ \A d \in Callers : st'[d] = "panicked" => Excused(d)
  <2>1. CASE CallerPanics(c) \/ ReturnPanics(c)
    BY <1>7, <1>8, <1>9, <2>1
  <2>2. CASE Access(c)
    BY <1>10, <2>2
  <2>3. CASE ~CallerPanics(c) /\ ~ReturnPanics(c) /\ ~Access(c)
    BY <1>2, <1>12, <1>14, <2>3
  <2>4. QED BY <2>1, <2>2, <2>3
<1>15. QED BY <1>11, <1>13, <1>14 DEF Next

--------------------------------------------------------------------------------
(* Types *)

\* What a toggle takes for its bit is one.
LEMMA TakenIs ==
  ASSUME Types, NEW c \in Callers, CallerInv(c), Usable(c), Toggling(c)
  PROVE  TakenBit(c) \in 0..1
<1>1. ans[c] \in Answers /\ ans[c].data \in Seq(Nat) /\ ans[c].verdict = "ok" /\ CallInv
  BY DEF Usable, Answered, Types, Answers
<1>2. PICK q \in did[c] : /\ q.try = try[c]
                          /\ Len(ans[c].data) = IF q.write THEN 0 ELSE ItemBytes(q)
  BY DEF Usable, Answered, CallerInv, PairInv
<1>3. call[c].name = "ToggleBit" /\ ~Writing(c)
  BY NameIs DEF Toggling, Writing, Reads
<1>4. /\ q \in RequestSet /\ Asked(c, q) /\ ~q.write /\ Verdict(q) = "ok"
  BY <1>2, <1>3, Own2 DEF CallerInv, NetInv, FreshInv, Usable, Answered, Mine, Sent
<1>5. ItemBytes(q) = 1
  BY <1>3, <1>4, DoneInBounds, CellIs
<1>6. Len(ans[c].data) = 1
  BY <1>2, <1>4, <1>5
<1>7. ans[c].data[1] \in Nat
  BY <1>1, <1>6
<1>8. ans[c].data[1] % 2 \in 0..1
  BY <1>7
<1>9. QED BY <1>8 DEF TakenBit

\* Notes leave counts.
LEMMA NoteTypes ==
  ASSUME Types, NEW c \in Callers, NEW chains, NEW failed \in BOOLEAN, Note(c, chains, failed)
  PROVE  counts' \in [Callers -> [calls : Nat, errors : Nat]]
<1>1. /\ counts \in [Callers -> [calls : Nat, errors : Nat]]
      /\ counts[c].calls \in Nat /\ counts[c].errors \in Nat
  BY DEF Types
<1>2. Counted(counts[c], failed) \in [calls : Nat, errors : Nat]
  BY <1>1 DEF Counted
<1>3. counts' = [counts EXCEPT ![c] = Counted(counts[c], failed)] \/ counts' = counts
  BY DEF Note
<1>4. QED BY <1>1, <1>2, <1>3

\* The variables of the attempts have their types.
TryTypes ==
  /\ st \in [Callers -> Stages] /\ phase \in [Callers -> 1..2]
  /\ left \in [Callers -> 0..MaxRetries] /\ try \in [Callers -> Nat]
  /\ bit \in [Callers -> 0..1] /\ out \in [Callers -> {"none", "ok"} \cup Errors]
  /\ counts \in [Callers -> [calls : Nat, errors : Nat]]

\* They keep them when a call ends or an attempt fails.
LEMMA FinishTypes ==
  ASSUME Types, NEW c \in Callers, NEW how \in {"ok"} \cup Errors, Finish(c, how)
  PROVE  TryTypes'
<1>1. (how # "ok") \in BOOLEAN
  OBVIOUS
<1>2. counts' \in [Callers -> [calls : Nat, errors : Nat]]
  BY <1>1, NoteTypes DEF Finish
<1>3. QED BY <1>2 DEF Finish, Types, TryTypes, Stages

\* A failed attempt leaves the types.
LEMMA FailTypes ==
  ASSUME Types, NEW c \in Callers, NEW error \in Errors, NEW alive, Fail(c, error, alive)
  PROVE  TryTypes'
<1>1. CASE Finish(c, error)
  BY <1>1, FinishTypes
<1>2. CASE TryAgain(c) /\ left[c] > 0
  <2>1. counts' \in [Callers -> [calls : Nat, errors : Nat]]
    BY <1>2, NoteTypes DEF TryAgain
  <2>2. left[c] - 1 \in 0..MaxRetries
    BY <1>2, Sizes DEF Types
  <2>3. QED BY <1>2, <2>1, <2>2 DEF TryAgain, Types, TryTypes, Stages
<1>3. QED BY <1>1, <1>2 DEF Fail

\* The attempts of the callers.
LEMMA TryTypesStep ==
  ASSUME Types, [Next]_vars, \A c \in Callers : CallerInv(c)
  PROVE  TryTypes'
<1>1. TryTypes
  BY DEF Types, TryTypes
<1>2. {"refused", "context", "closed", "area", "endcode", "timeout"} \subseteq Errors
  BY DEF Errors, Refusals
<1>3. ASSUME NEW c \in Callers, CallNext(c) PROVE TryTypes'
  <2>1. CASE Invoke(c)
    <3>1. CASE Admitted(Outer(ItsChain(c)), Info(c))
      <4>1. RetriesOf(ItsChain(c)) \in 0..MaxRetries
        BY Retries, Sizes DEF ItsChain, Types, CallInv
      <4>2. QED BY <1>1, <2>1, <3>1, <4>1 DEF Invoke, TryTypes, Stages
    <3>2. CASE ~Admitted(Outer(ItsChain(c)), Info(c))
      <4>1. Note(c, {Outer(ItsChain(c))}, TRUE)
        BY <2>1, <3>2 DEF Invoke
      <4>2. counts' \in [Callers -> [calls : Nat, errors : Nat]]
        BY <4>1, NoteTypes
      <4>3. QED BY <1>1, <1>2, <2>1, <3>2, <4>2, ZenonT(60) DEF Invoke, TryTypes, Stages
    <3>3. QED BY <3>1, <3>2
  <2>2. CASE Refuse(c) \/ ReturnError(c) \/ Timeout(c) \/ GiveUp(c)
    <3>1. \E error \in Errors, alive \in BOOLEAN : Fail(c, error, alive)
      <4>1. live[c] \in BOOLEAN
        BY DEF Types
      <4>2. QED BY <1>2, <2>2, <4>1 DEF Refuse, ReturnError, Timeout, GiveUp
    <3>2. QED BY <3>1, FailTypes
  <2>3. CASE CallerPanics(c) \/ ReturnPanics(c)
    BY <1>1, <2>3 DEF CallerPanics, ReturnPanics, Die, TryTypes, Stages
  <2>4. CASE Send(c)
    BY <1>1, <2>4 DEF Send, TryTypes, Stages
  <2>5. CASE Access(c)
    <3>1. /\ try' = [try EXCEPT ![c] = @ + 1] /\ phase' = phase /\ left' = left /\ bit' = bit
          /\ counts' = counts /\ out' = out
          /\ (st' = [st EXCEPT ![c] = "panicked"] \/ st' = [st EXCEPT ![c] = "waiting"])
      BY <2>5 DEF Access
    <3>2. QED BY <1>1, <3>1 DEF TryTypes, Stages
  <2>6. CASE Return(c)
    BY <2>6, FinishTypes DEF Return
  <2>7. CASE ToggleOn(c)
    <3>1. TakenBit(c) \in 0..1
      BY <2>7, TakenIs DEF ToggleOn
    <3>2. counts' \in [Callers -> [calls : Nat, errors : Nat]]
      BY <2>7, NoteTypes DEF ToggleOn
    <3>3. /\ bit' = [bit EXCEPT ![c] = TakenBit(c)] /\ phase' = [phase EXCEPT ![c] = 2]
          /\ st' = [st EXCEPT ![c] = "idle"] /\ left' = left /\ try' = try /\ out' = out
      BY <2>7 DEF ToggleOn
    <3>4. QED BY <1>1, <3>1, <3>2, <3>3 DEF TryTypes, Stages
  <2>8. CASE Expire(c)
    BY <1>1, <2>8 DEF Expire, tryVars, TryTypes
  <2>9. QED BY <1>3, <2>1, <2>2, <2>3, <2>4, <2>5, <2>6, <2>7, <2>8 DEF CallNext
<1>4. CASE (\E q \in net : Serve(q)) \/ Close \/ UNCHANGED vars
  BY <1>1, <1>4 DEF Serve, Close, vars, tryVars, TryTypes
<1>5. QED BY <1>3, <1>4 DEF Next

\* The requests and the answers.
LEMMA NetTypesStep ==
  ASSUME Types, [Next]_vars, \A c \in Callers : CallerInv(c)
  PROVE  /\ net' \subseteq RequestSet /\ did' \in [Callers -> SUBSET RequestSet]
         /\ ans' \in [Callers -> {NoAnswer} \cup Answers] /\ mem' \in Memories
<1>1. /\ net \subseteq RequestSet /\ did \in [Callers -> SUBSET RequestSet]
      /\ ans \in [Callers -> {NoAnswer} \cup Answers] /\ mem \in Memories
  BY DEF Types
<1>2. mem' \in Memories
  <2>1. \A c \in Callers : \A q \in RequestSet : Executed(c, q) => mem' \in Memories
    BY SameCalls, ExecutedIs DEF CallerInv
  <2>2. QED BY <1>1, <2>1, Executions DEF CallerInv
<1>3. ASSUME NEW q \in RequestSet, Execute(q, Verdict(q)), q.from \in Callers
      PROVE  did' \in [Callers -> SUBSET RequestSet]
  BY <1>1, <1>3 DEF Execute
<1>4. ASSUME NEW c \in Callers, CallNext(c)
      PROVE  /\ net' \subseteq RequestSet /\ did' \in [Callers -> SUBSET RequestSet]
             /\ ans' \in [Callers -> {NoAnswer} \cup Answers]
  <2>1. CASE Send(c)
    <3>1. bit[c] \in 0..1 /\ try[c] \in Nat /\ CallInv
      BY DEF Types
    <3>2. Request(c) \in RequestSet
      BY <3>1, RequestIs
    <3>3. QED BY <1>1, <2>1, <3>2 DEF Send, simVars
  <2>2. CASE Access(c)
    <3> DEFINE q == Request(c)
    <3>1. bit[c] \in 0..1 /\ try[c] \in Nat /\ CallInv
      BY DEF Types
    <3>2. q \in RequestSet /\ q.from = c
      BY <3>1, RequestIs
    <3> HIDE DEF q
    <3>3. Result(q, Verdict(q)) \in Answers
      BY <3>2, ResultIs
    <3>4. Execute(q, Verdict(q)) /\ net' = net /\ ans' = [ans EXCEPT ![c] = Result(q, Verdict(q))]
      BY <2>2 DEF Access, q
    <3>5. QED BY <1>1, <1>3, <3>2, <3>3, <3>4
  <2>3. CASE ~Send(c) /\ ~Access(c)
    BY <1>1, <1>4, <2>3 DEF CallNext, Invoke, Refuse, CallerPanics, ReturnError, ReturnPanics, Return,
          ToggleOn, Timeout, GiveUp, Expire, Die, Untouched, simVars
  <2>4. QED BY <2>1, <2>2, <2>3
<1>5. ASSUME NEW q \in net, Serve(q)
      PROVE  /\ net' \subseteq RequestSet /\ did' \in [Callers -> SUBSET RequestSet]
             /\ ans' \in [Callers -> {NoAnswer} \cup Answers]
  <2>1. q \in RequestSet /\ q.from \in Callers
    BY <1>1, RequestTypes
  <2>2. Result(q, Verdict(q)) \in Answers
    BY <2>1, ResultIs
  <2>3. /\ Execute(q, Verdict(q)) /\ net' = net \ {q}
        /\ ans' = [ans EXCEPT ![q.from] = Result(q, Verdict(q))] \/ ans' = ans
    BY <1>5 DEF Serve
  <2>4. QED BY <1>1, <1>3, <2>1, <2>2, <2>3
<1>6. CASE Close \/ UNCHANGED vars
  BY <1>1, <1>6 DEF Close, vars, simVars
<1>7. QED BY <1>2, <1>4, <1>5, <1>6 DEF Next

\* The flags.
LEMMA FlagTypesStep ==
  ASSUME Types, [Next]_vars
  PROVE  /\ live' \in [Callers -> BOOLEAN] /\ gaveUp' \in [Callers -> BOOLEAN]
         /\ touched' \in [Callers -> BOOLEAN] /\ up' \in BOOLEAN /\ closed' \in BOOLEAN
<1>1. /\ live \in [Callers -> BOOLEAN] /\ gaveUp \in [Callers -> BOOLEAN]
      /\ touched \in [Callers -> BOOLEAN] /\ up \in BOOLEAN /\ closed \in BOOLEAN
  BY DEF Types
<1>2. ASSUME NEW q, NEW v, Execute(q, v) PROVE touched' \in [Callers -> BOOLEAN] /\ up' \in BOOLEAN
  BY <1>1, <1>2 DEF Execute, Observe
<1>3. ASSUME NEW c \in Callers, CallNext(c)
      PROVE  /\ live' \in [Callers -> BOOLEAN] /\ gaveUp' \in [Callers -> BOOLEAN]
             /\ touched' \in [Callers -> BOOLEAN] /\ up' \in BOOLEAN /\ closed' \in BOOLEAN
  <2>1. CASE Access(c)
    <3>1. live' = live /\ gaveUp' = gaveUp /\ closed' = closed /\ \E q, v : Execute(q, v)
      BY <2>1 DEF Access
    <3>2. QED BY <1>1, <1>2, <3>1
  <2>2. CASE ~Access(c)
    <3>1. live' = live \/ live' = [live EXCEPT ![c] = FALSE]
      BY <1>3, <2>2 DEF CallNext, Invoke, Refuse, CallerPanics, Send, ReturnError, ReturnPanics, Return,
            ToggleOn, Timeout, GiveUp, Expire, Die, Untouched
    <3>2. gaveUp' = gaveUp \/ gaveUp' = [gaveUp EXCEPT ![c] = TRUE]
      BY <1>3, <2>2 DEF CallNext, Invoke, Refuse, CallerPanics, Send, ReturnError, ReturnPanics, Return,
            ToggleOn, Timeout, GiveUp, Expire, Die, Untouched
    <3>3. touched' = touched /\ closed' = closed /\ up' \in BOOLEAN
      BY <1>1, <1>3, <2>2 DEF CallNext, Invoke, Refuse, CallerPanics, Send, ReturnError, ReturnPanics, Return,
            ToggleOn, Timeout, GiveUp, Expire, Die, Untouched, simVars
    <3>4. QED BY <1>1, <3>1, <3>2, <3>3
  <2>3. QED BY <2>1, <2>2
<1>4. ASSUME NEW q \in net, Serve(q)
      PROVE  /\ live' \in [Callers -> BOOLEAN] /\ gaveUp' \in [Callers -> BOOLEAN]
             /\ touched' \in [Callers -> BOOLEAN] /\ up' \in BOOLEAN /\ closed' \in BOOLEAN
  BY <1>1, <1>2, <1>4 DEF Serve
<1>5. CASE Close \/ UNCHANGED vars
  BY <1>1, <1>5 DEF Close, vars, simVars
<1>6. QED BY <1>3, <1>4, <1>5 DEF Next

\* Everything keeps its type.
LEMMA TypesStep ==
  ASSUME Types, [Next]_vars, \A c \in Callers : CallerInv(c)
  PROVE  Types'
<1>1. CallInv'
  BY SameCalls DEF Types, CallInv, callVars
<1>2. QED BY <1>1, TryTypesStep, NetTypesStep, FlagTypesStep DEF Types, TryTypes

--------------------------------------------------------------------------------
(* The inductive invariant *)

\* What holds of every caller, of its bit and of what ended a process.
IInv ==
  /\ Types /\ \A c \in Callers : CallerInv(c) /\ BitInv(c)
  /\ PanicsOnlyWhen

\* It holds at first.
LEMMA Initially == Init => IInv
<1>1. SUFFICES ASSUME Init PROVE IInv
  OBVIOUS
<1>2. CallInv
  <2>1. kind \in [Callers -> {"udp", "tcp", "inline"}]
    BY <1>1 DEF Init
  <2>2. /\ chain \in [Callers -> UNION {Chains[c] : c \in Callers}]
        /\ \A c \in Callers : chain[c] \in Chains[c]
    BY <1>1 DEF Init
  <2>3. /\ call \in [Callers -> UNION {Calls[c] : c \in Callers}]
        /\ \A c \in Callers : call[c] \in Calls[c]
    BY <1>1 DEF Init
  <2>4. \A c \in Callers : chain[c] \in Seq(Names) /\ call[c] \in AllCalls
    BY <2>2, <2>3, OperationsAssumption
  <2>5. chain \in [Callers -> Seq(Names)] /\ call \in [Callers -> AllCalls]
    BY <2>2, <2>3, <2>4
  <2>6. QED BY <2>1, <2>2, <2>5 DEF CallInv
<1>3. mem \in Memories
  BY <1>1 DEF Init, Blank, Memories
<1>4. /\ live \in [Callers -> BOOLEAN] /\ gaveUp \in [Callers -> BOOLEAN]
      /\ touched \in [Callers -> BOOLEAN] /\ up \in BOOLEAN /\ closed \in BOOLEAN
  BY <1>1 DEF Init
<1>5. Types
  <2>1. NoCounts \in [calls : Nat, errors : Nat] /\ 0 \in 0..MaxRetries
    BY Sizes DEF NoCounts
  <2>2. net \subseteq RequestSet /\ did \in [Callers -> SUBSET RequestSet]
    BY <1>1 DEF Init
  <2>3. ans \in [Callers -> {NoAnswer} \cup Answers]
    BY <1>1 DEF Init
  <2>4. /\ st \in [Callers -> Stages] /\ phase \in [Callers -> 1..2]
        /\ left \in [Callers -> 0..MaxRetries] /\ try \in [Callers -> Nat]
        /\ bit \in [Callers -> 0..1] /\ out \in [Callers -> {"none", "ok"} \cup Errors]
        /\ counts \in [Callers -> [calls : Nat, errors : Nat]]
    BY <1>1, <2>1 DEF Init, Stages
  <2>5. QED BY <1>2, <1>3, <1>4, <2>2, <2>3, <2>4 DEF Types
<1>6. ASSUME NEW c \in Callers PROVE CallerInv(c) /\ BitInv(c)
  <2>1. /\ st[c] = "idle" /\ phase[c] = 1 /\ left[c] = 0 /\ try[c] = 0 /\ out[c] = "none"
        /\ counts[c] = NoCounts /\ ans[c] = NoAnswer /\ did[c] = {} /\ NetOf(c) = {} /\ Mine(c) = {}
    BY <1>1 DEF Init, NetOf, Mine
  <2>2. RetriesOf(ItsChain(c)) \in Nat
    BY <1>2, Retries DEF CallInv, ItsChain
  <2>3. StageInv(c) /\ TriesInv(c) /\ LocalInv(c)
    BY <2>1, <2>2 DEF StageInv, TriesInv, LocalInv
  <2>4. NetInv(c) /\ OnceInv(c) /\ PairInv(c) /\ FreshInv(c) /\ CalmInv(c)
    BY <2>1 DEF NetInv, OnceInv, PairInv, FreshInv, CalmInv
  <2>5. SingleInv(c) /\ TurnInv(c) /\ DoneInv(c) /\ CheckInv(c) /\ BitInv(c)
    BY <2>1 DEF SingleInv, TurnInv, DoneInv, CheckInv, BitInv
  <2>6. MetricsInv(c)
    BY <2>1 DEF MetricsInv, NoCounts
  <2>7. QED BY <2>3, <2>4, <2>5, <2>6 DEF CallerInv
<1>7. PanicsOnlyWhen
  BY <1>1 DEF Init, PanicsOnlyWhen
<1>8. QED BY <1>5, <1>6, <1>7 DEF IInv

\* Every step keeps it.
LEMMA Inductive == IInv /\ [Next]_vars => IInv'
<1>1. SUFFICES ASSUME IInv, [Next]_vars PROVE IInv'
  OBVIOUS
<1>2. Types /\ callVars' = callVars /\ Types'
  BY <1>1, SameCalls, TypesStep DEF IInv
<1>3. ASSUME NEW d \in Callers PROVE CallerInv(d)' /\ BitInv(d)'
  <2>1. Stepped(d) /\ CallerInv(d) /\ BitInv(d)
    BY <1>1, <1>2, Steps DEF IInv
  <2>2. /\ StageInv(d) /\ TriesInv(d) /\ LocalInv(d) /\ NetInv(d) /\ OnceInv(d) /\ PairInv(d)
        /\ FreshInv(d) /\ CalmInv(d) /\ SingleInv(d) /\ TurnInv(d) /\ DoneInv(d)
        /\ MetricsInv(d) /\ CheckInv(d)
    BY <2>1 DEF CallerInv
  <2>3. StageInv(d)' /\ TriesInv(d)' /\ LocalInv(d)' /\ NetInv(d)'
    BY <1>2, <2>1, <2>2, StageStep, TriesStep, LocalStep, NetStep
  <2>4. OnceInv(d)' /\ PairInv(d)' /\ FreshInv(d)' /\ CalmInv(d)'
    BY <1>2, <2>1, <2>2, OnceStep, PairStep, FreshStep, CalmStep
  <2>5. SingleInv(d)' /\ TurnInv(d)' /\ DoneInv(d)'
    BY <1>2, <2>1, <2>2, SingleStep, TurnStep, DoneStep
  <2>6. MetricsInv(d)' /\ CheckInv(d)'
    BY <1>2, <2>1, <2>2, MetricsStep, CheckStep
  <2>7. BitInv(d)'
    BY <1>1, <1>2, <2>1, BitStep DEF IInv
  <2>8. QED BY <2>3, <2>4, <2>5, <2>6, <2>7 DEF CallerInv
<1>4. PanicsOnlyWhen'
  BY <1>1, PanicStep DEF IInv
<1>5. QED BY <1>2, <1>3, <1>4 DEF IInv

\* So it always holds, of any callers, calls, chains, areas and sizes.
THEOREM Invariance == Spec => []IInv
BY Initially, Inductive, PTL DEF Spec

--------------------------------------------------------------------------------
(* What the runs check *)

\* Every variable has its type: in particular the operations of a call make no
\* more attempts than the retries allow, both phases of a toggle together one more.
THEOREM TypeCorrect == Spec => []TypeOK
<1>1. IInv => TypeOK
  <2>1. SUFFICES ASSUME IInv PROVE TypeOK
    OBVIOUS
  <2>2. Types
    BY <2>1 DEF IInv
  <2>3. ASSUME NEW c \in Callers PROVE try[c] \in 0..(2 + MaxRetries)
    <3>1. StageInv(c) /\ TriesInv(c) /\ LocalInv(c)
      BY <2>1 DEF IInv, CallerInv
    <3>2. try[c] \in Nat /\ phase[c] \in 1..2 /\ MaxRetries \in Nat
      BY <2>2, Sizes DEF Types
    <3>3. RetriesOf(ItsChain(c)) \in Nat /\ RetriesOf(ItsChain(c)) <= MaxRetries
      BY <2>2, Retries DEF Types, CallInv, ItsChain
    <3>4. phase[c] = 1 => try[c] <= MaxRetries + 1
      BY <3>1, <3>2, <3>3 DEF TriesInv
    <3>5. phase[c] = 2 => try[c] <= 2 + MaxRetries
      BY <3>1, <3>2 DEF StageInv, TriesInv, LocalInv
    <3>6. QED BY <3>2, <3>4, <3>5
  <2>4. try \in [Callers -> 0..(2 + MaxRetries)]
    BY <2>2, <2>3 DEF Types
  <2>5. /\ {live, gaveUp, touched} \subseteq [Callers -> BOOLEAN]
        /\ {up, closed} \subseteq BOOLEAN
    BY <2>2 DEF Types
  <2>6. QED BY <2>2, <2>4, <2>5 DEF Types, TypeOK, Stages, Memories
<1>2. QED BY <1>1, Invariance, PTL

\* A step changes only cells that the call it executes names, to bytes of that call,
\* but for WriteBytes over UDP and a bit whose address wraps.
THEOREM NamedOnly == Spec => NamedCellsOnly
<1> DEFINE Kept(a, i) == mem'[a][i] # mem[a][i] =>
             \E c \in Callers : /\ did'[c] # did[c] /\ a = call[c].area
                                /\ (i \in Named(c) /\ mem'[a][i] # Junk) \/ Strays(c)
<1>1. IInv /\ [Next]_vars => [\A a \in Areas : \A i \in Cells : Kept(a, i)]_vars
  <2>1. SUFFICES ASSUME IInv, [Next]_vars, NEW a \in Areas, NEW i \in Cells,
                        mem'[a][i] # mem[a][i]
                 PROVE  \E c \in Callers :
                          /\ did'[c] # did[c] /\ a = call[c].area
                          /\ (i \in Named(c) /\ mem'[a][i] # Junk) \/ Strays(c)
    OBVIOUS
  <2>2. Types /\ callVars' = callVars /\ \A c \in Callers : CallerInv(c)
    BY <2>1, SameCalls DEF IInv
  <2>3. \A c \in Callers : NetInv(c) /\ OnceInv(c)
    BY <2>2 DEF CallerInv
  <2>4. PICK c \in Callers : \E q \in RequestSet : Executed(c, q)
    BY <2>1, <2>2, <2>3, Executions
  <2>5. PICK q \in RequestSet : Executed(c, q)
    BY <2>4
  <2>6. Asked(c, q) /\ InBounds(q) /\ Verdict(q) = "ok"
    BY <2>2, <2>3, <2>5, ExecutedIs DEF Executed
  <2>7. did'[c] # did[c]
    BY <2>5 DEF Executed
  <2>8. q.write /\ mem' = Written(mem, q) /\ mem \in Memories
    BY <2>1, <2>2, <2>5 DEF Executed, Types
  <2>9. a = q.area /\ i \in Copied(q) /\ mem'[a][i] = PayloadByte(q, i - Start(q) + 1)
    BY <2>1, <2>6, <2>8, WrittenIs
  <2>10. a = call[c].area
    BY <2>6, <2>9 DEF Asked
  <2>11. ~Strays(c) => i \in Named(c) /\ mem'[a][i] # Junk
    <3>1. CallInv /\ bit[c] \in 0..1 /\ try[c] \in Nat
      BY <2>2 DEF Types
    <3>2. QED BY <2>6, <2>8, <2>9, <3>1, NamedCells
  <2>12. QED BY <2>7, <2>10, <2>11
<1>2. QED BY <1>1, Invariance, PTL DEF Spec, NamedCellsOnly

\* A set whose elements are all equal has one at most.
LEMMA AtMostOne ==
  ASSUME NEW S, \A q, r \in S : q = r
  PROVE  IsFiniteSet(S) /\ Cardinality(S) \in 0..1
<1>1. CASE S = {}
  BY <1>1, FS_EmptySet
<1>2. CASE S # {}
  <2>1. PICK q \in S : TRUE
    BY <1>2
  <2>2. S = {q}
    BY <2>1
  <2>3. QED BY <2>2, FS_Singleton
<1>3. QED BY <1>1, <1>2

\* A set with one request of each kind has two at most.
LEMMA OneOfEach ==
  ASSUME NEW S, \A q, r \in S : (q.write <=> r.write) => q = r
  PROVE  Cardinality(S) \in Nat /\ Cardinality(S) <= 2
<1> DEFINE A == {q \in S : q.write}
           B == {q \in S : ~q.write}
<1>1. /\ \A q, r \in A : q = r
      /\ \A q, r \in B : q = r
  OBVIOUS
<1>2. S = A \cup B
  OBVIOUS
<1> HIDE DEF A, B
<1>3. /\ IsFiniteSet(A) /\ Cardinality(A) \in 0..1
      /\ IsFiniteSet(B) /\ Cardinality(B) \in 0..1
  BY <1>1, AtMostOne
<1>4. /\ Cardinality(A \cup B) = Cardinality(A) + Cardinality(B) - Cardinality(A \cap B)
      /\ Cardinality(A \cap B) \in Nat /\ Cardinality(A \cup B) \in Nat
  BY <1>3, FS_Union, FS_Intersection, FS_CardinalityType
<1>5. QED BY <1>2, <1>3, <1>4

\* Without retries, or as long as nothing was given up, a command is executed once.
LEMMA NotAgain ==
  ASSUME Types, NEW c \in Callers, CallerInv(c), ~gaveUp[c] \/ RetriesOf(chain[c]) = 0
  PROVE  ~Again(c)
<1>1. SingleInv(c) /\ OnceInv(c) /\ NetInv(c)
  BY DEF CallerInv
<1>2. \A q, r \in did[c] : (q.write <=> r.write) => q = r
  BY <1>1 DEF SingleInv, OnceInv, Mine
<1>3. CASE call[c].name = "ToggleBit"
  <2>1. Cardinality(did[c]) \in Nat /\ Cardinality(did[c]) <= 2
    BY <1>2, OneOfEach
  <2>2. QED BY <1>3, <2>1 DEF Again
<1>4. CASE call[c].name # "ToggleBit"
  <2>1. \A q \in did[c] : q.write <=> Writing(c)
    <3>1. ASSUME NEW q \in did[c] PROVE q.write <=> Writing(c)
      <4>1. Asked(c, q)
        BY <1>1 DEF NetInv, Mine, Sent
      <4>2. Name(c) = call[c].name
        BY <1>4 DEF Name, Toggling
      <4>3. QED BY <1>4, <4>1, <4>2 DEF Asked, Writing
    <3>2. QED BY <3>1
  <2>2. \A q, r \in did[c] : q = r
    BY <1>2, <2>1
  <2>3. Cardinality(did[c]) \in 0..1
    BY <2>2, AtMostOne
  <2>4. QED BY <1>4, <2>3 DEF Again
<1>5. QED BY <1>3, <1>4

\* The collector's counts of a call that returned.
LEMMA CountsTold ==
  ASSUME Types, NEW c \in Callers, MetricsInv(c), st[c] = "done", Intercepted(c),
         call[c].name # "ToggleBit"
  PROVE  /\ Reaches("metrics", Outer(chain[c]), Info(c)) => counts[c].calls = 1
         /\ Reaches("metrics", Inner(chain[c]), Info(c)) => counts[c].calls >= try[c]
         /\ In("metrics", chain[c]) /\ Admitted(chain[c], Info(c)) =>
              counts[c].calls - counts[c].errors = (IF out[c] = "ok" THEN 1 ELSE 0)
<1>1. chain[c] \in Seq(Names) /\ chain[c] \in Chains[c]
  BY DEF Types, CallInv
<1>2. Distinct(chain[c])
  BY <1>1, OperationsAssumption DEF Distinct
<1>3. In("metrics", chain[c]) /\ Admitted(chain[c], Info(c)) =>
        /\ \/ Reaches("metrics", Outer(chain[c]), Info(c))
           \/ Reaches("metrics", Inner(chain[c]), Info(c))
        /\ Admitted(Outer(chain[c]), Info(c))
  BY <1>1, <1>2, CollectorAt, AdmittedParts
<1>4. QED BY <1>3 DEF MetricsInv

\* A call that succeeded was executed, on all of its cells; without a retry
\* interceptor a command is executed at most once, with one again, or after the call
\* returned, only if an attempt was given up; and a collector counts what it saw.
THEOREM RetriesKept == Spec => []RetryDiscipline
<1>1. IInv => RetryDiscipline
  <2>1. SUFFICES ASSUME IInv, NEW c \in Callers
        PROVE /\ out[c] = "ok" => Overflows(c) \/ \E q \in did[c] : Covers(q, c)
              /\ Again(c) => RetriesOf(chain[c]) > 0
              /\ (Again(c) \/ \E q \in net : q.from = c /\ st[c] = "done") => gaveUp[c]
              /\ st[c] = "done" /\ Intercepted(c) /\ call[c].name # "ToggleBit" =>
                   /\ Reaches("metrics", Outer(chain[c]), Info(c)) => counts[c].calls = 1
                   /\ Reaches("metrics", Inner(chain[c]), Info(c)) => counts[c].calls >= try[c]
                   /\ In("metrics", chain[c]) /\ Admitted(chain[c], Info(c)) =>
                        counts[c].calls - counts[c].errors = (IF out[c] = "ok" THEN 1 ELSE 0)
    BY DEF RetryDiscipline
  <2>2. Types /\ CallerInv(c)
    BY <2>1 DEF IInv
  <2>3. DoneInv(c) /\ NetInv(c) /\ CalmInv(c) /\ MetricsInv(c)
    BY <2>2 DEF CallerInv
  <2>4. out[c] = "ok" => Overflows(c) \/ \E q \in did[c] : Covers(q, c)
    <3>1. SUFFICES ASSUME out[c] = "ok", ~Overflows(c) PROVE \E q \in did[c] : Covers(q, c)
      OBVIOUS
    <3>2. PICK q \in did[c] : TRUE
      BY <2>3, <3>1 DEF DoneInv
    <3>3. Asked(c, q) /\ Verdict(q) = "ok"
      BY <2>3, <3>2 DEF NetInv, Mine, Sent
    <3>4. q \in RequestSet /\ CallInv
      BY <2>2, <3>2 DEF Types
    <3>5. QED BY <3>1, <3>2, <3>3, <3>4, DoneCovers
  <2>5. Again(c) => RetriesOf(chain[c]) > 0
    <3>1. RetriesOf(chain[c]) \in Nat
      BY <2>2, Retries DEF Types, CallInv
    <3>2. QED BY <2>2, <3>1, NotAgain
  <2>6. Again(c) => gaveUp[c]
    BY <2>2, NotAgain
  <2>7. (\E q \in net : q.from = c /\ st[c] = "done") => gaveUp[c]
    BY <2>3 DEF CalmInv, NetOf
  <2>8. QED BY <2>2, <2>3, <2>4, <2>5, <2>6, <2>7, CountsTold
<1>2. QED BY <1>1, Invariance, PTL

\* What the interceptors are told of a read, and of a write.
LEMMA ToldIs ==
  ASSUME Types, NEW c \in Callers, NEW q \in RequestSet, Asked(c, q)
  PROVE  LET info == InfoOf(c, q)
         IN /\ info.area = q.area /\ info.addr = q.addr
            /\ q.write => info.name \in WriteOps
            /\ ~q.write => info.name \in Reads /\ info.count = q.count
            /\ call[c].name \notin Twiddles =>
                 /\ info.name = call[c].name /\ info.count + info.len = call[c].n
                 /\ ~q.write => call[c].name \in Reads
<1>1. CallInv
  BY DEF Types
<1>2. call[c].name \in Reads \cup WriteOps /\ q.write \in BOOLEAN
  BY <1>1, CallTypes, RequestTypes
<1>3. /\ InfoOf(c, q).area = q.area /\ InfoOf(c, q).addr = q.addr
  BY DEF InfoOf, Asked
<1>4. ASSUME q.write PROVE InfoOf(c, q).name \in WriteOps
  <2>1. Writing(c)
    BY <1>4 DEF Asked
  <2>2. call[c].name \in WriteOps
    BY <1>2, <2>1, NameIs DEF Writing, WriteOps, Reads
  <2>3. QED BY <1>4, <2>2 DEF InfoOf
<1>5. ASSUME ~q.write PROVE InfoOf(c, q).name \in Reads /\ InfoOf(c, q).count = q.count
  <2>1. call[c].name \in Reads \cup {"ToggleBit"} /\ q.count = Count(c)
    BY <1>5 DEF Asked
  <2>2. /\ call[c].name \in Reads => Count(c) = call[c].n
        /\ call[c].name = "ToggleBit" => Count(c) = 1
    BY <1>1, CountIs DEF Twiddles
  <2>3. CASE call[c].name = "ToggleBit"
    BY <1>5, <2>1, <2>2, <2>3 DEF InfoOf, Reads
  <2>4. CASE call[c].name # "ToggleBit"
    BY <1>5, <2>1, <2>2, <2>4 DEF InfoOf
  <2>5. QED BY <2>3, <2>4
<1>6. ASSUME call[c].name \notin Twiddles
      PROVE  /\ InfoOf(c, q).name = call[c].name
             /\ InfoOf(c, q).count + InfoOf(c, q).len = call[c].n
             /\ ~q.write => call[c].name \in Reads
  <2>1. call[c].name # "ToggleBit" /\ call[c].n \in Nat
    BY <1>1, <1>6, CallTypes DEF Twiddles
  <2>2. InfoOf(c, q).name = call[c].name
    BY <2>1 DEF InfoOf
  <2>3. /\ InfoOf(c, q).count = (IF q.write THEN 0 ELSE call[c].n)
        /\ InfoOf(c, q).len = (IF q.write THEN call[c].n ELSE 0)
    BY <2>1 DEF InfoOf
  <2>4. ~q.write => call[c].name \in Reads
    BY <2>1 DEF Asked
  <2>5. QED BY <1>2, <2>1, <2>2, <2>3, <2>4
<1>7. QED BY <1>3, <1>4, <1>5, <1>6

\* A read that is done ends below 2^16, unless its start wraps.
LEMMA ReadEnds ==
  ASSUME Types, NEW c \in Callers, NEW q \in RequestSet, Asked(c, q), InBounds(q), ~q.write,
         First(c) < Wrap
  PROVE  q.addr + q.count <= Wrap
<1>1. CallInv
  BY DEF Types
<1>2. /\ q.addr \in Nat /\ q.count \in Nat /\ q.count < Wrap /\ ItemBytes(q) \in Nat
      /\ Start(q) \in Nat /\ call[c].bit \in Nat
  BY <1>1, RequestTypes, Bounds, CallTypes
<1>3. q.addr = call[c].addr /\ q.count = Count(c) /\ Start(q) = First(c)
  BY <1>1, SentAccess DEF Asked
<1>4. Start(q) + ItemBytes(q) <= AreaSize /\ q.addr <= Start(q)
  <2>1. End(q) = Start(q) + ItemBytes(q) /\ End(q) <= AreaSize
    BY Bounds DEF InBounds
  <2>2. QED BY <1>2, <1>3, <2>1 DEF First
<1>5. CASE call[c].name \in BitCalls
  <2>1. ItemBytes(q) = q.count
    BY <1>1, <1>3, <1>5, SentAccess
  <2>2. QED BY <1>2, <1>4, <2>1, Sizes
<1>6. CASE call[c].name \notin BitCalls
  <2>1. ItemBytes(q) = (2 * q.count) % Wrap
    BY <1>1, <1>3, <1>6, SentAccess
  <2>2. CASE 2 * q.count < Wrap
    <3>1. ItemBytes(q) = 2 * q.count
      BY <1>2, <2>1, <2>2, Wraps
    <3>2. QED BY <1>2, <1>4, <3>1, Sizes
  <2>3. CASE Wrap <= 2 * q.count
    <3>1. ItemBytes(q) = 2 * q.count - Wrap
      BY <1>2, <2>1, <2>3, Wraps, Sizes
    <3>2. QED BY <1>2, <1>4, <3>1, Sizes
  <2>4. QED BY <1>2, <2>2, <2>3, Sizes
<1>7. QED BY <1>5, <1>6

\* The limits of the validator, in plain arithmetic.
LEMMA LimitIs ==
  ASSUME NEW c \in Callers, call[c].name \in Validated, NEW info, info.name = call[c].name
  PROVE  Limit(info) \in Nat /\ Most(c) \in Nat /\ Limit(info) <= Most(c)
<1>1. /\ MaxRead \in Nat /\ MaxWrite \in Nat
      /\ MaxRead * WordBits \in Nat /\ MaxWrite * WordBits \in Nat /\ MaxWrite * 2 \in Nat
  BY InterceptorsAssumption
<1>2. \A x \in Nat : x % Width \in Nat /\ x % Width <= x
  BY Wraps, Sizes
<1>3. CASE call[c].name \in {"ReadWords", "ReadBytes"}
  BY <1>1, <1>3 DEF Limit, Most
<1>4. CASE call[c].name = "ReadBits"
  <2>1. Limit(info) = (MaxRead * WordBits) % Width /\ Most(c) = MaxRead * WordBits
    BY <1>4 DEF Limit, Most
  <2>2. QED BY <1>1, <1>2, <2>1, Zenon
<1>5. CASE call[c].name = "WriteWords"
  BY <1>1, <1>5 DEF Limit, Most
<1>6. CASE call[c].name \in {"WriteBytes", "WriteString"}
  <2>1. Limit(info) = (MaxWrite * 2) % Width /\ Most(c) = MaxWrite * 2
    BY <1>6 DEF Limit, Most
  <2>2. QED BY <1>1, <1>2, <2>1, Zenon
<1>7. CASE call[c].name = "WriteBits"
  <2>1. Limit(info) = (MaxWrite * WordBits) % Width /\ Most(c) = MaxWrite * WordBits
    BY <1>7 DEF Limit, Most
  <2>2. QED BY <1>1, <1>2, <2>1, Zenon
<1>8. QED BY <1>3, <1>4, <1>5, <1>6, <1>7 DEF Validated

\* What the validator admits, of a call that is no bit of its own.
LEMMA ValidatedIs ==
  ASSUME Types, NEW c \in Callers, NEW q \in RequestSet, Asked(c, q),
         call[c].name \notin Twiddles, Valid(InfoOf(c, q))
  PROVE  /\ call[c].n > 0
         /\ call[c].n <= Most(c) \/ (q.write /\ call[c].n >= Wrap)
         /\ call[c].name # "WriteString" => q.count <= Most(c)
<1> DEFINE info == InfoOf(c, q)
           n == call[c].n
<1>1. /\ CallInv /\ n \in Nat /\ call[c].name \in Reads \cup WriteOps
      /\ call[c].name \in Reads => n < Wrap
  BY CallTypes DEF Types
<1>2. call[c].name \in Validated
  BY <1>1 DEF Validated, Reads, WriteOps, Twiddles
<1>3. /\ info.name = call[c].name /\ info.count + info.len = n
      /\ ~q.write => call[c].name \in Reads
  BY ToldIs
<1>4. n > 0 /\ n % Wrap <= Limit(info)
  BY <1>2, <1>3, Sizes DEF Valid
<1>5. Limit(info) \in Nat /\ Most(c) \in Nat /\ Limit(info) <= Most(c)
  BY <1>2, <1>3, LimitIs
<1>6. n % Wrap \in Nat /\ (n < Wrap => n % Wrap = n)
  BY <1>1, Wraps
<1>7. n % Wrap <= Most(c)
  BY <1>4, <1>5, <1>6
<1>8. q.write \in BOOLEAN /\ q.count = Count(c)
  BY RequestTypes DEF Asked
<1>9. n <= Most(c) \/ (q.write /\ n >= Wrap)
  BY <1>1, <1>3, <1>6, <1>7, <1>8, Sizes
<1>10. call[c].name # "WriteString" => q.count = n % Wrap
  BY <1>1, <1>8, CountIs
<1>11. QED BY <1>4, <1>7, <1>9, <1>10

\* What the interceptors of a caller promise (interceptor_validation.go) holds for what
\* the simulator executes for it: nothing is written through ReadOnlyInterceptor; no
\* address outside the range is used, and no read goes past it unless its start wraps;
\* no validated call is of nothing or of more than the limit, unless the length of its
\* data wraps, and then the count of its command is within the limit.
THEOREM ChecksKept == Spec => []ChecksHold
<1>1. IInv => ChecksHold
  <2>1. SUFFICES ASSUME IInv, NEW c \in Callers, NEW q \in did[c], Guarded(c, q)
        PROVE /\ In("readonly", chain[c]) => ~q.write
              /\ In("range", chain[c]) =>
                   /\ q.area \in AllowedAreas /\ q.addr \in Lowest[q.area]..Highest[q.area]
                   /\ q.write \/ q.addr + q.count - 1 <= Highest[q.area] \/ First(c) >= Wrap
              /\ In("validate", chain[c]) /\ call[c].name \notin Twiddles =>
                   /\ call[c].n > 0
                   /\ call[c].n <= Most(c) \/ (q.write /\ call[c].n >= Wrap)
                   /\ call[c].name # "WriteString" => q.count <= Most(c)
    BY DEF ChecksHold
  <2> DEFINE info == InfoOf(c, q)
  <2>2. Types /\ NetInv(c) /\ CheckInv(c)
    BY <2>1 DEF IInv, CallerInv
  <2>3. /\ q \in RequestSet /\ Asked(c, q) /\ InBounds(q) /\ Admitted(chain[c], info)
        /\ q.write \in BOOLEAN
    BY <2>1, <2>2, DoneInBounds, RequestTypes DEF Types, NetInv, Mine, Sent, CheckInv
  <2>4. /\ info.area = q.area /\ info.addr = q.addr
        /\ q.write => info.name \in WriteOps
        /\ ~q.write => info.name \in Reads /\ info.count = q.count
    BY <2>2, <2>3, ToldIs
  <2>5. q.addr \in Nat /\ q.addr < Wrap /\ q.count \in Nat /\ q.count < Wrap
    BY <2>3, RequestTypes
  <2> HIDE DEF info
  <2>6. ASSUME In("readonly", chain[c]) PROVE ~q.write
    <3>1. Admits("readonly", info)
      BY <2>3, <2>6, AdmittedBy
    <3>2. QED BY <2>4, <3>1 DEF Admits, Observers, Retriers, ReadOnly
  <2>7. ASSUME In("range", chain[c])
        PROVE /\ q.area \in AllowedAreas /\ q.addr \in Lowest[q.area]..Highest[q.area]
              /\ q.write \/ q.addr + q.count - 1 <= Highest[q.area] \/ First(c) >= Wrap
    <3>1. Admits("range", info)
      BY <2>3, <2>7, AdmittedBy
    <3>2. InRange(info)
      BY <3>1 DEF Admits, Observers, Retriers
    <3>3. q.area \in AllowedAreas /\ q.addr \in Lowest[q.area]..Highest[q.area]
      BY <2>4, <3>2 DEF InRange
    <3>4. Lowest[q.area] \in Nat /\ Highest[q.area] \in Nat
      BY <3>3, InterceptorsAssumption
    <3>5. ASSUME ~q.write, First(c) < Wrap PROVE q.addr + q.count - 1 <= Highest[q.area]
      <4>1. q.addr + q.count <= Wrap
        BY <2>2, <2>3, <3>5, ReadEnds
      <4>2. q.count > 0 => (q.addr + q.count - 1) % Wrap <= Highest[q.area]
        BY <2>4, <3>2, <3>5, Sizes DEF InRange
      <4>3. CASE q.count > 0
        <5>1. q.addr + q.count - 1 \in Nat /\ q.addr + q.count - 1 < Wrap
          BY <2>5, <4>1, <4>3, Sizes
        <5>2. (q.addr + q.count - 1) % Wrap = q.addr + q.count - 1
          BY <5>1, Wraps
        <5>3. QED BY <4>2, <4>3, <5>2
      <4>4. CASE q.count = 0
        BY <2>5, <3>3, <3>4, <4>4
      <4>5. QED BY <2>5, <4>3, <4>4
    <3>6. First(c) \in Nat
      BY <2>2, CallTypes DEF Types, First
    <3>7. QED BY <2>3, <3>3, <3>5, <3>6, Sizes
  <2>8. ASSUME In("validate", chain[c]), call[c].name \notin Twiddles
        PROVE /\ call[c].n > 0
              /\ call[c].n <= Most(c) \/ (q.write /\ call[c].n >= Wrap)
              /\ call[c].name # "WriteString" => q.count <= Most(c)
    <3>1. Admits("validate", info)
      BY <2>3, <2>8, AdmittedBy
    <3>2. Valid(info)
      BY <3>1 DEF Admits, Observers, Retriers
    <3>3. QED BY <2>2, <2>3, <2>8, <3>2, ValidatedIs DEF info
  <2>9. QED BY <2>3, <2>6, <2>7, <2>8
<1>2. QED BY <1>1, Invariance, PTL

\* A call that fits its area ends neither process, but for WriteBytes over a network
\* and a read larger than the client's UDP buffer.
THEOREM PanicsKnown == Spec => []PanicsOnlyWhen
<1>1. IInv => PanicsOnlyWhen
  BY DEF IInv
<1>2. QED BY <1>1, Invariance, PTL

\* The byte that the write of a toggle carries, and where it is copied to.
LEMMA ToggleByte ==
  ASSUME Types, NEW c \in Callers, call[c].name = "ToggleBit", NEW q \in RequestSet, Asked(c, q),
         q.write, Verdict(q) = "ok"
  PROVE  Start(q) \in Copied(q) /\ PayloadByte(q, 1) = 1 - bit[c]
<1>1. CallInv /\ bit[c] \in 0..1 /\ try[c] \in Nat
  BY DEF Types
<1>2. Writing(c) /\ q.payload = Request(c).payload /\ q.room = Request(c).room
  BY DEF Asked
<1>3. q.wire = (kind[c] # "inline")
  BY DEF Asked
<1>4. Len(Payload(c)) = 1 /\ Payload(c)[1] = 1 - bit[c]
  BY <1>1, <1>2, PayloadIs DEF Twiddles
<1>5. InBounds(q) /\ (q.wire => ItemBytes(q) <= q.room)
  BY DoneInBounds
<1>6. ItemBytes(q) = 1
  BY <1>5, CellIs
<1>7. kind[c] = "udp" => UdpRoom >= 1
  <2>1. kind[c] = "udp" => Request(c).room = UdpRoom
    BY <1>1, <1>2, RequestIs
  <2>2. kind[c] = "udp" => q.wire
    BY <1>3
  <2>3. kind[c] = "udp" => 1 <= q.room /\ q.room = UdpRoom
    BY <1>2, <1>5, <1>6, <2>1, <2>2
  <2>4. QED BY <2>3, Sizes
<1>8. Len(q.payload) = 1 /\ q.payload[1] = Payload(c)[1]
  <2>1. LET p == Request(c).payload
        IN /\ Len(p) = (IF kind[c] = "udp" /\ Len(Payload(c)) > UdpRoom
                        THEN UdpRoom ELSE Len(Payload(c)))
           /\ \A i \in 1..Len(p) : p[i] = Payload(c)[i]
    BY <1>1, <1>2, RequestIs
  <2>2. Len(q.payload) = 1
    BY <1>2, <1>4, <1>7, <2>1, Sizes
  <2>3. QED BY <1>2, <2>1, <2>2
<1>9. PayloadByte(q, 1) = 1 - bit[c]
  BY <1>4, <1>8 DEF PayloadByte
<1>10. Start(q) \in Copied(q)
  <2>1. Start(q) \in Nat /\ End(q) = Start(q) + 1
    BY <1>5, <1>6, Bounds
  <2>2. QED BY <1>8, <2>1 DEF Copied
<1>11. QED BY <1>9, <1>10

\* When a toggle's write is executed, none of its was before.
LEMMA WritesOnce ==
  ASSUME Types, NEW c \in Callers, CallerInv(c), phase[c] = 2, NEW q \in RequestSet, q.write,
         Executed(c, q)
  PROVE  \A r \in did[c] : ~r.write
<1>1. TurnInv(c) /\ OnceInv(c)
  BY DEF CallerInv
<1>2. CASE Served(c, q)
  <2>1. q \in Mine(c) /\ q \notin did[c]
    BY <1>2 DEF Served, Mine, Executed
  <2>2. ASSUME NEW r \in did[c], r.write PROVE FALSE
    <3>1. r \in Mine(c)
      BY DEF Mine
    <3>2. r.try = q.try
      BY <1>1, <2>1, <2>2, <3>1 DEF TurnInv
    <3>3. r = q
      BY <1>1, <2>1, <3>1, <3>2 DEF OnceInv
    <3>4. QED BY <2>1, <3>3
  <2>3. QED BY <2>2
<1>3. CASE Accessed(c)
  <2>1. st[c] = "ready"
    BY <1>3 DEF Accessed, Attempting, Ready, Attempted
  <2>2. QED BY <1>1, <2>1 DEF TurnInv, Mine
<1>4. QED BY <1>2, <1>3 DEF Executed

\* The write of a toggle turns its bit over, unless somebody else wrote the bit since
\* the toggle read it, whatever was given up and tried again before.
THEOREM FlipsKept == Spec => ToggleFlips
<1> DEFINE Flipped(c, q) ==
             call[c].name = "ToggleBit" /\ q.write /\ ~touched[c]
               => mem'[q.area][Start(q)] = 1 - (mem[q.area][Start(q)] % 2)
<1>1. IInv /\ [Next]_vars =>
        [\A c \in Callers : \A q \in did'[c] \ did[c] : Flipped(c, q)]_vars
  <2>1. SUFFICES ASSUME IInv, [Next]_vars, NEW c \in Callers, NEW q \in did'[c] \ did[c],
                        call[c].name = "ToggleBit", q.write, ~touched[c]
                 PROVE  mem'[q.area][Start(q)] = 1 - (mem[q.area][Start(q)] % 2)
    OBVIOUS
  <2>2. Types /\ callVars' = callVars /\ \A d \in Callers : CallerInv(d)
    BY <2>1, SameCalls DEF IInv
  <2>3. \A d \in Callers : NetInv(d) /\ OnceInv(d)
    BY <2>2 DEF CallerInv
  <2>4. PICK d \in Callers : \E r \in RequestSet : Executed(d, r)
    BY <2>1, <2>2, <2>3, Executions
  <2>5. PICK r \in RequestSet : Executed(d, r)
    BY <2>4
  <2>6. did'[d] = did[d] \cup {r} /\ \A e \in Callers \ {d} : did'[e] = did[e]
    BY <2>5 DEF Executed
  <2>7. c = d /\ q = r
    BY <2>1, <2>6
  <2>8. q \in RequestSet /\ Executed(c, q)
    BY <2>5, <2>7
  <2>9. Asked(c, q) /\ InBounds(q) /\ Verdict(q) = "ok" /\ phase[c] = 2
    BY <2>1, <2>2, <2>3, <2>8, ExecutedIs DEF Executed
  <2>10. bit[c] = mem[call[c].area][Cell(c)] % 2
    <3>1. BitInv(c) /\ \A s \in did[c] : ~s.write
      BY <2>1, <2>2, <2>8, <2>9, WritesOnce DEF IInv
    <3>2. QED BY <2>1, <2>9, <3>1 DEF BitInv
  <2>11. /\ q.area = call[c].area /\ q.area \in Areas /\ Cell(c) \in Cells
         /\ Start(q) = Cell(c)
    BY <2>1, <2>2, <2>8, <2>9, CellIs
  <2>12. Start(q) \in Copied(q) /\ PayloadByte(q, 1) = 1 - bit[c]
    BY <2>1, <2>2, <2>8, <2>9, ToggleByte
  <2>13. mem' = Written(mem, q) /\ mem \in Memories
    BY <2>1, <2>2, <2>8 DEF Executed, Types
  <2>14. mem'[q.area][Start(q)] = PayloadByte(q, Start(q) - Start(q) + 1)
    BY <2>8, <2>9, <2>11, <2>12, <2>13, WrittenIs
  <2>15. Start(q) - Start(q) + 1 = 1
    BY <2>8, Bounds
  <2>16. QED BY <2>10, <2>11, <2>12, <2>14, <2>15
<1>2. QED BY <1>1, Invariance, PTL DEF Spec, ToggleFlips

\* What its sender meant is what a request under way says.
LEMMA RequestMeant ==
  ASSUME IInv, NEW q \in net
  PROVE  ReadAs(Wire(q), q.write, [area |-> AreaCode[q.area], address |-> q.addr, bit |-> q.bit],
                q.count, q.payload, q.try)
<1> DEFINE a == [area |-> AreaCode[q.area], address |-> q.addr, bit |-> q.bit]
           src == <<0, 1, 0>>
           dst == <<0, 2, 0>>
<1>1. q \in RequestSet
  BY DEF IInv, Types
<1>2. /\ q.from \in Callers /\ q.try \in Nat /\ q.write \in BOOLEAN /\ q.area \in DOMAIN AreaCode
      /\ q.addr \in Nat /\ q.addr < Wrap /\ q.bit \in Nat /\ q.count \in Nat /\ q.count < Wrap
      /\ q.payload \in Seq(Nat)
  BY <1>1, RequestTypes
<1>3. Asked(q.from, q)
  <2>1. NetInv(q.from)
    BY <1>2 DEF IInv, CallerInv
  <2>2. q \in NetOf(q.from)
    BY DEF NetOf
  <2>3. QED BY <2>1, <2>2 DEF NetInv, Mine, Sent
<1>4. ~q.write => q.payload = <<>>
  BY <1>3 DEF Asked
<1>5. a.area \in Nat /\ a.address = q.addr /\ a.bit = q.bit
  <2>1. AreaCode[q.area] \in Byte
    BY <1>2, OperationsAssumption
  <2>2. QED BY <2>1 DEF Byte
<1>6. q.addr <= 65535 /\ q.count <= 65535
  BY <1>2, OperationsAssumption, MemoryAssumption, SMTT(30)
<1>7. src \in Addresses /\ dst \in Addresses
  BY DEF Addresses, Byte
<1>8. Wire(q) = EncodeHeader(DefaultCommandHeader(src, dst, q.try))
                \o (IF q.write THEN WriteCommand(a, q.count, q.payload) ELSE ReadCommand(a, q.count))
  BY DEF Wire
<1> HIDE DEF a, src, dst
<1>9. QED BY ONLY <1>2, <1>4, <1>5, <1>6, <1>7, <1>8, RequestCarried, SMTT(30) DEF a

\* The commands under way say what their callers meant: code, service id, address,
\* number and bytes, for any callers and calls; and what the codec encodes it decodes,
\* whatever it is.
THEOREM WiredWell == Spec => []WireExact
<1>1. IInv => CommandsCarried
  <2>1. SUFFICES ASSUME IInv, NEW q \in net
        PROVE  LET r == DecodeRequest(Wire(q))
                   a == DecodeMemoryAddress(SubSeq(r.data, 1, 4))
               IN /\ r.commandCode = Value(IF q.write THEN <<1, 2>> ELSE <<1, 1>>)
                  /\ r.header.serviceID = q.try /\ r.header.responseRequired
                  /\ a.area = AreaCode[q.area] /\ a.address = q.addr /\ a.bit = q.bit
                  /\ Value(SubSeq(r.data, 5, 6)) = q.count /\ From(r.data, 7) = q.payload
    BY DEF CommandsCarried
  <2> DEFINE r == DecodeRequest(Wire(q))
             p == DecodeMemoryAddress(SubSeq(r.data, 1, 4))
             a == [area |-> AreaCode[q.area], address |-> q.addr, bit |-> q.bit]
  <2>2. ReadAs(Wire(q), q.write, a, q.count, q.payload, q.try)
    BY <2>1, RequestMeant
  <2>3. a.area = AreaCode[q.area] /\ a.address = q.addr /\ a.bit = q.bit
    OBVIOUS
  <2> HIDE DEF a
  <2>4. QED BY ONLY <2>2, <2>3, Zenon DEF ReadAs
<1>2. IInv => WireExact
  BY <1>1, CodecRead DEF WireExact
<1>3. QED BY <1>2, Invariance, PTL
================================================================================
