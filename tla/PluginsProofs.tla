----------------------------- MODULE PluginsProofs -----------------------------
(***************************************************************************)
(* Proofs about Plugins, for any users, plugins, names and bounds.          *)
(***************************************************************************)
EXTENDS Plugins, FiniteSets, FiniteSetTheorems, SequenceTheorems, TLAPS

--------------------------------------------------------------------------------
(* Sequences as the sets of their elements *)

\* What Append adds.
LEMMA InAppend ==
  ASSUME NEW S, NEW s \in Seq(S), NEW e \in S
  PROVE  In(Append(s, e)) = In(s) \cup {e}
<1>1. /\ Len(s) \in Nat /\ Len(Append(s, e)) = Len(s) + 1
      /\ \A i \in 1..Len(s) : Append(s, e)[i] = s[i]
      /\ Append(s, e)[Len(s) + 1] = e
  BY AppendProperties, LenProperties
<1>2. ASSUME NEW x \in In(Append(s, e)) PROVE x \in In(s) \cup {e}
  BY <1>1 DEF In
<1>3. ASSUME NEW x \in In(s) \cup {e} PROVE x \in In(Append(s, e))
  <2>1. CASE x = e
    BY <1>1, <2>1 DEF In
  <2>2. CASE x \in In(s)
    <3>1. PICK i \in 1..Len(s) : x = s[i]
      BY <2>2 DEF In
    <3>2. i \in 1..Len(Append(s, e)) /\ Append(s, e)[i] = x
      BY <1>1, <3>1
    <3>3. QED BY <3>2 DEF In
  <2>3. QED BY <1>3, <2>1, <2>2
<1>4. QED BY <1>2, <1>3

\* What is left when the last element is cut off.
LEMMA FrontSeq ==
  ASSUME NEW S, NEW s \in Seq(S)
  PROVE  SubSeq(s, 1, Len(s) - 1) \in Seq(S)
<1>1. /\ Len(s) - 1 \in Int /\ 1 \in Int
      /\ \A i \in 1..(Len(s) - 1) : s[i] \in S
  BY LenProperties, ElementOfSeq
<1>2. QED BY <1>1, SubSeqProperties

\* The last element and the rest of a sequence that is not empty.
LEMMA InFront ==
  ASSUME NEW S, NEW s \in Seq(S), s # <<>>
  PROVE  LET f == SubSeq(s, 1, Len(s) - 1)
         IN /\ f \in Seq(S) /\ Len(s) \in Nat \ {0} /\ Len(f) = Len(s) - 1
            /\ \A i \in 1..Len(f) : i \in 1..Len(s) /\ f[i] = s[i]
            /\ In(s) = In(f) \cup {s[Len(s)]}
            /\ s[Len(s)] \in S
<1>1. Len(s) \in Nat \ {0}
  BY EmptySeq
<1>2. PICK n \in Nat : Len(s) = n + 1
  BY <1>1
<1> DEFINE f == SubSeq(s, 1, n)
<1>3. \A i \in 1..(n + 1) : s[i] \in S
  BY <1>2, ElementOfSeq
<1>4. /\ f \in Seq(S) /\ Len(f) = IF 1 <= n THEN n - 1 + 1 ELSE 0
      /\ \A i \in 1..(n - 1 + 1) : f[i] = s[1 + i - 1]
  <2>1. n \in Int /\ 1 \in Int /\ \A i \in 1..n : s[i] \in S
    BY <1>3
  <2>2. QED BY ONLY <2>1, SubSeqProperties
<1> HIDE DEF f
<1>5. Len(f) = n
  BY <1>4
<1>6. \A i \in 1..n : f[i] = s[i]
  <2>1. TAKE i \in 1..n
  <2>2. i \in 1..(n - 1 + 1) /\ 1 + i - 1 = i
    OBVIOUS
  <2>3. QED BY <1>4, <2>2
<1>7. In(s) = In(f) \cup {s[n + 1]}
  <2>1. ASSUME NEW x \in In(s) PROVE x \in In(f) \cup {s[n + 1]}
    <3>1. PICK i \in 1..(n + 1) : x = s[i]
      BY <1>2, <2>1 DEF In
    <3>2. CASE i = n + 1
      BY <3>1, <3>2
    <3>3. CASE i \in 1..n
      BY <1>5, <1>6, <3>1, <3>3 DEF In
    <3>4. QED BY <3>1, <3>2, <3>3
  <2>2. ASSUME NEW x \in In(f) PROVE x \in In(s)
    <3>1. PICK i \in 1..n : x = f[i]
      BY <1>5, <2>2 DEF In
    <3>2. i \in 1..Len(s) /\ x = s[i]
      BY <1>2, <1>6, <3>1
    <3>3. QED BY <3>2 DEF In
  <2>3. s[n + 1] \in In(s)
    BY <1>2 DEF In
  <2>4. QED BY <2>1, <2>2, <2>3
<1>8. Len(s) - 1 = n
  BY <1>2
<1>9. \A i \in 1..n : i \in 1..(n + 1)
  OBVIOUS
<1>10. s[n + 1] \in S
  BY <1>3
<1>11. QED BY <1>1, <1>2, <1>4, <1>5, <1>6, <1>7, <1>8, <1>9, <1>10 DEF f

\* A sequence that is not empty is its head and its tail.
LEMMA InTail ==
  ASSUME NEW S, NEW s \in Seq(S), s # <<>>
  PROVE  /\ Head(s) \in S /\ Tail(s) \in Seq(S)
         /\ In(s) = In(Tail(s)) \cup {Head(s)}
<1>1. /\ Head(s) \in S /\ Tail(s) \in Seq(S) /\ Len(Tail(s)) = Len(s) - 1
      /\ \A i \in 1..Len(Tail(s)) : Tail(s)[i] = s[i + 1]
      /\ Len(s) \in Nat \ {0} /\ Head(s) = s[1]
  BY HeadTailProperties, EmptySeq, LenProperties
<1>2. ASSUME NEW x \in In(s) PROVE x \in In(Tail(s)) \cup {Head(s)}
  <2>1. PICK i \in 1..Len(s) : x = s[i]
    BY <1>2 DEF In
  <2>2. CASE i = 1
    BY <1>1, <2>1, <2>2
  <2>3. CASE i # 1
    <3>1. i - 1 \in 1..Len(Tail(s)) /\ Tail(s)[i - 1] = s[i]
      BY <1>1, <2>1, <2>3
    <3>2. QED BY <2>1, <3>1 DEF In
  <2>4. QED BY <2>2, <2>3
<1>3. ASSUME NEW x \in In(Tail(s)) PROVE x \in In(s)
  <2>1. PICK i \in 1..Len(Tail(s)) : x = Tail(s)[i]
    BY <1>3 DEF In
  <2>2. i + 1 \in 1..Len(s) /\ s[i + 1] = x
    BY <1>1, <2>1
  <2>3. QED BY <2>2 DEF In
<1>4. Head(s) \in In(s)
  BY <1>1 DEF In
<1>5. QED BY <1>1, <1>2, <1>3, <1>4

--------------------------------------------------------------------------------
(* Types *)

RegType ==
  /\ taken \subseteq Names /\ order \in Seq(Plugins)
  /\ ust \in [Users -> UseStages] /\ at \in [Users -> Nat]
  /\ \A u \in Users : at[u] \in 1..Len(Wants[u])
LinkType == connected \in BOOLEAN /\ listeners \in Nat /\ restorable \in BOOLEAN
PassType == pst \in [Threads -> PassStages] /\ todo \in [Threads -> Seq(Plugins)]
EventType ==
  /\ told \in [Plugins -> {"none", "up", "down"}]
  /\ emitting \in [Actors -> {"none", "up", "down"}]
  /\ last \in {"none", "up", "down"}
DogType == /\ start \in Nat \cup {Never} /\ total \in Nat /\ now \in Nat
           /\ toldDown \in Nat /\ forgotten \in Nat
FlagType == /\ overlapped \in BOOLEAN /\ hookErr \in BOOLEAN
            /\ mixup \in BOOLEAN /\ raced \in BOOLEAN

\* TypeOK by the parts that an action can disturb.
LEMMA TypeParts ==
  TypeOK <=> /\ RegType /\ LinkType /\ PassType /\ EventType /\ DogType /\ FlagType
<1>1. ({total, now, toldDown, forgotten} \subseteq Nat)
        <=> (total \in Nat /\ now \in Nat /\ toldDown \in Nat /\ forgotten \in Nat)
  OBVIOUS
<1>2. ({overlapped, hookErr, mixup, raced} \subseteq BOOLEAN) <=> FlagType
  BY Zenon DEF FlagType
<1>3. QED
  BY <1>1, <1>2, ZenonT(60) DEF TypeOK, RegType, LinkType, PassType, EventType, DogType

\* The plugin a user is at.
LEMMA CurrentType ==
  ASSUME RegType, NEW u \in Users
  PROVE  Current(u) \in Plugins /\ Name[Current(u)] \in Names \cup {NoName}
<1>1. Wants[u] \in Seq(Plugins) /\ at[u] \in 1..Len(Wants[u])
  BY PluginsAssumption DEF RegType
<1>2. Current(u) \in Plugins
  BY ONLY <1>1, ElementOfSeq DEF Current
<1>3. QED BY <1>2, PluginsAssumption

\* The next plugin of a call is one of the call's.
LEMMA NextPluginType ==
  ASSUME RegType, NEW u \in Users, NEW from, NextPlugin(u, from)
  PROVE  /\ ust' \in [Users -> UseStages] /\ at' \in [Users -> Nat]
         /\ \A v \in Users : at'[v] \in 1..Len(Wants[v])
         /\ \A v \in Users \ {u} : ust'[v] = ust[v] /\ at'[v] = at[v]
         /\ ust[u] = from /\ ust'[u] \in {"check", "done"}
<1>1. "check" \in UseStages /\ "done" \in UseStages
  BY DEF UseStages
<1>2. PICK n \in Nat : n = Len(Wants[u])
  BY PluginsAssumption, LenProperties
<1>3. CASE at[u] < Len(Wants[u])
  <2>1. at[u] \in Nat /\ at[u] < n /\ at' = [at EXCEPT ![u] = @ + 1]
    BY <1>2, <1>3 DEF NextPlugin, RegType
  <2>2. at[u] + 1 \in 1..n
    BY <2>1
  <2>3. \A v \in Users : at'[v] \in 1..Len(Wants[v])
    BY <1>2, <2>1, <2>2 DEF RegType
  <2>4. QED BY <1>1, <1>3, <2>1, <2>3 DEF NextPlugin, RegType
<1>4. CASE ~(at[u] < Len(Wants[u]))
  BY <1>1, <1>4 DEF NextPlugin, RegType
<1>5. QED BY <1>3, <1>4

\* Steps that touch neither the registry nor the stages of Use.
Elsewhere ==
  \/ \E t \in Threads : PassNext(t)
  \/ \E t \in Droppers : Drop(t)
  \/ \E a \in Actors : Emit(a)
  \/ Restore \/ SetInterceptor \/ Tick \/ UNCHANGED vars

\* They leave the registry alone.
LEMMA ElsewhereRegistry == Elsewhere => UNCHANGED regVars
BY DEF Elsewhere, PassNext, Snapshot, Notify, NotifyFails, Notified, Drop, Emit,
       Restore, SetInterceptor, Tick, vars, regVars

\* A step is one of those or one of a Use.
LEMMA NextSteps == [Next]_vars => Elsewhere \/ \E u \in Users : UseNext(u)
BY DEF Next, Elsewhere

\* The registry keeps its types.
LEMMA RegTypes == ASSUME RegType, [Next]_vars PROVE RegType'
<1>1. CASE Elsewhere
  BY <1>1, ElsewhereRegistry DEF RegType, regVars
<1>2. ASSUME NEW u \in Users, UseNext(u) PROVE RegType'
  <2> USE DEF RegType, UserGoto, UseStages
  <2>1. CASE UseRefused(u)
    BY <2>1 DEF UseRefused
  <2>2. CASE UseReserve(u)
    BY <2>2, CurrentType DEF UseReserve
  <2>3. CASE UseInitialize(u)
    BY <2>3 DEF UseInitialize
  <2>4. CASE UseChain(u)
    BY <2>4 DEF UseChain
  <2>5. CASE UseInitFails(u)
    BY <2>5 DEF UseInitFails
  <2>6. CASE UseJoin(u)
    BY <2>6, CurrentType, AppendProperties DEF UseJoin
  <2>7. CASE UseSilent(u)
    BY <2>7, NextPluginType DEF UseSilent
  <2>8. CASE UseTell(u)
    BY <2>8 DEF UseTell
  <2>9. CASE UseHook(u)
    BY <2>9, NextPluginType DEF UseHook
  <2>10. CASE UseHookFails(u)
    BY <2>10 DEF UseHookFails
  <2>11. CASE UseUndo(u)
    BY <2>11, FrontSeq DEF UseUndo
  <2>12. QED
    BY <1>2, <2>1, <2>2, <2>3, <2>4, <2>5, <2>6, <2>7, <2>8, <2>9, <2>10, <2>11
       DEF UseNext
<1>3. QED BY <1>1, <1>2, NextSteps

\* Steps of Use that call no hook.
Quiet(u) ==
  \/ UseRefused(u) \/ UseReserve(u) \/ UseInitialize(u) \/ UseChain(u)
  \/ UseInitFails(u) \/ UseJoin(u) \/ UseSilent(u) \/ UseTell(u)
  \/ UseHookFails(u) \/ UseUndo(u)

\* Only UseHook calls a hook; no step of Use touches the connection.
LEMMA QuietSteps ==
  ASSUME NEW u \in Users
  PROVE  /\ UseNext(u) <=> Quiet(u) \/ UseHook(u)
         /\ Quiet(u) => UNCHANGED <<linkVars, passVars, told, dogVars, eventVars, timeVars>>
         /\ UseHook(u) => UNCHANGED <<linkVars, passVars, timeVars>>
<1> USE DEF OnlyUse
<1>1. UseNext(u) <=> Quiet(u) \/ UseHook(u)
  BY DEF UseNext, Quiet
<1>2. Quiet(u) => UNCHANGED <<linkVars, passVars, told, dogVars, eventVars, timeVars>>
  BY DEF Quiet, UseRefused, UseReserve, UseInitialize, UseChain, UseInitFails,
         UseJoin, UseSilent, UseTell, UseHookFails, UseUndo
<1>3. UseHook(u) => UNCHANGED <<linkVars, passVars, timeVars>>
  BY DEF UseHook
<1>4. QED BY <1>1, <1>2, <1>3

\* The state of the connection keeps its types.
LEMMA LinkTypes == ASSUME LinkType, [Next]_vars PROVE LinkType'
<1> USE DEF LinkType, linkVars
<1>1. CASE \E u \in Users : UseNext(u)
  BY <1>1, QuietSteps
<1>2. CASE \E t \in Threads : PassNext(t)
  <2>1. PICK t \in Threads : PassNext(t)
    BY <1>2
  <2>2. CASE UNCHANGED linkVars
    BY <2>2
  <2>3. CASE Notified(t)
    <3>1. restorable' \in BOOLEAN /\ connected' = connected /\ listeners' = listeners
      BY <2>3, Zenon DEF Notified
    <3>2. QED BY <3>1
  <2>4. QED
    BY <2>1, <2>2, <2>3 DEF PassNext, Snapshot, Notify, NotifyFails
<1>3. ASSUME NEW t \in Droppers, Drop(t) PROVE LinkType'
  <2>1. connected' \in BOOLEAN /\ restorable' \in BOOLEAN
    BY <1>3, Zenon DEF Drop
  <2>2. listeners' \in Nat
    BY <1>3 DEF Drop
  <2>3. QED BY <2>1, <2>2
<1>4. CASE Restore
  <2>1. connected' \in BOOLEAN /\ restorable' \in BOOLEAN
    BY <1>4, Zenon DEF Restore
  <2>2. listeners' \in Nat
    BY <1>4 DEF Restore
  <2>3. QED BY <2>1, <2>2
<1>5. CASE UNCHANGED linkVars
  BY <1>5
<1>6. QED
  BY <1>1, <1>2, <1>3, <1>4, <1>5
     DEF Next, Emit, SetInterceptor, Tick, vars

\* The notifications keep their types.
LEMMA PassTypes == ASSUME RegType, PassType, [Next]_vars PROVE PassType'
<1> USE DEF PassType, passVars, PassGoto, PassStages
<1>1. CASE \E u \in Users : UseNext(u)
  BY <1>1, QuietSteps
<1>2. ASSUME NEW t \in Threads, PassNext(t) PROVE PassType'
  <2>1. CASE Snapshot(t)
    BY <2>1 DEF Snapshot, RegType
  <2>2. CASE Notify(t)
    <3>1. Tail(todo[t]) \in Seq(Plugins)
      BY <2>2, InTail DEF Notify
    <3>2. QED BY <2>2, <3>1 DEF Notify
  <2>3. CASE NotifyFails(t)
    <3>1. <<>> \in Seq(Plugins)
      BY EmptySeq
    <3>2. QED BY <2>3, <3>1 DEF NotifyFails
  <2>4. CASE Notified(t)
    BY <2>4 DEF Notified
  <2>5. QED BY <1>2, <2>1, <2>2, <2>3, <2>4 DEF PassNext
<1>3. CASE \E t \in Droppers : Drop(t)
  BY <1>3 DEF Drop
<1>4. CASE Restore
  BY <1>4 DEF Restore
<1>5. CASE UNCHANGED passVars
  BY <1>5
<1>6. QED
  BY <1>1, <1>2, <1>3, <1>4, <1>5
     DEF Next, Emit, SetInterceptor, Tick, vars

\* The history flags keep their types.
LEMMA FlagTypes == ASSUME FlagType, [Next]_vars PROVE FlagType'
<1> USE DEF FlagType, errVars, chainVars
<1>1. ASSUME NEW u \in Users, UseNext(u) PROVE FlagType'
  BY <1>1, ZenonT(60)
     DEF UseNext, OnlyUse, UseRefused, UseReserve, UseInitialize, UseChain,
         UseInitFails, UseJoin, UseSilent, UseTell, UseHook, UseHookFails, UseUndo
<1>2. ASSUME NEW t \in Threads, PassNext(t) PROVE FlagType'
  BY <1>2, Zenon DEF PassNext, Snapshot, Notify, NotifyFails, Notified
<1>3. ASSUME NEW t \in Droppers, Drop(t) PROVE FlagType'
  BY <1>3, Zenon DEF Drop
<1>4. CASE Restore
  BY <1>4, Zenon DEF Restore
<1>5. CASE (\E a \in Actors : Emit(a)) \/ SetInterceptor \/ Tick \/ UNCHANGED vars
  BY <1>5, Zenon DEF Emit, SetInterceptor, Tick, vars
<1>6. QED
  BY <1>1, <1>2, <1>3, <1>4, <1>5, Zenon DEF Next

--------------------------------------------------------------------------------
(* The watchdog *)

\* A hook of a plugin, called by an actor, keeps the types of the events.
LEMMA HookEvent ==
  ASSUME EventType, NEW a \in Actors, NEW p \in Plugins, NEW how \in {"up", "down"},
         CallHook(a, p, how)
  PROVE  EventType'
BY DEF EventType, CallHook

\* A plugin that is notified is a plugin.
LEMMA HeadType ==
  ASSUME PassType, NEW t \in Threads, todo[t] # <<>>
  PROVE  Head(todo[t]) \in Plugins
BY InTail DEF PassType

\* What a notification says.
LEMMA NewsType == \A t : News(t) \in {"up", "down"}
BY DEF News

\* Every step calls one hook or none.
LEMMA HookSteps ==
  ASSUME RegType, PassType, [Next]_vars
  PROVE  \/ \E a \in Actors : \E p \in Plugins : \E how \in {"up", "down"} :
              CallHook(a, p, how) /\ UNCHANGED timeVars
         \/ UNCHANGED <<told, dogVars>> /\ (Tick \/ UNCHANGED timeVars)
<1>1. ASSUME NEW u \in Users, UseHook(u)
      PROVE  CallHook(u, Current(u), "up") /\ UNCHANGED timeVars /\ u \in Actors
             /\ Current(u) \in Plugins
  BY <1>1, CurrentType DEF UseHook, Actors
<1>2. ASSUME NEW t \in Threads, Notify(t)
      PROVE  \/ CallHook(t, Head(todo[t]), News(t)) /\ UNCHANGED timeVars
                /\ t \in Actors /\ Head(todo[t]) \in Plugins
             \/ UNCHANGED <<told, dogVars, timeVars>>
  BY <1>2, HeadType DEF Notify, Actors
<1>3. ASSUME NEW u \in Users, Quiet(u) PROVE UNCHANGED <<told, dogVars, timeVars>>
  BY <1>3, QuietSteps
<1>4. ASSUME NEW t \in Threads, Snapshot(t) \/ NotifyFails(t) \/ Notified(t)
      PROVE  UNCHANGED <<told, dogVars, timeVars>>
  BY <1>4 DEF Snapshot, NotifyFails, Notified
<1>5. ASSUME \/ \E t \in Droppers : Drop(t)
             \/ \E a \in Actors : Emit(a)
             \/ Restore \/ SetInterceptor \/ UNCHANGED vars
      PROVE  UNCHANGED <<told, dogVars, timeVars>>
  BY <1>5 DEF Drop, Emit, Restore, SetInterceptor, vars
<1>6. ASSUME Tick PROVE UNCHANGED <<told, dogVars>>
  BY <1>6 DEF Tick
<1>7. CASE \E u \in Users : UseNext(u)
  BY <1>1, <1>3, <1>7, QuietSteps
<1>8. CASE \E t \in Threads : PassNext(t)
  BY <1>2, <1>4, <1>8, NewsType DEF PassNext
<1>9. QED BY <1>5, <1>6, <1>7, <1>8 DEF Next

\* The events keep their types.
LEMMA EventTypes ==
  ASSUME RegType, PassType, EventType, [Next]_vars
  PROVE  EventType'
<1>1. CASE \E u \in Users : UseNext(u)
  <2>1. PICK u \in Users : Quiet(u) \/ UseHook(u)
    BY <1>1, QuietSteps
  <2>2. CASE Quiet(u)
    BY <2>2, QuietSteps DEF EventType, eventVars
  <2>3. CASE UseHook(u)
    BY <2>3, CurrentType, HookEvent DEF UseHook, Actors
  <2>4. QED BY <2>1, <2>2, <2>3
<1>2. CASE \E t \in Threads : PassNext(t)
  <2>1. PICK t \in Threads : PassNext(t)
    BY <1>2
  <2>2. CASE UNCHANGED <<told, eventVars>>
    BY <2>2 DEF EventType, eventVars
  <2>3. CASE Notify(t) /\ ~UNCHANGED <<told, eventVars>>
    <3>1. t \in Actors /\ Head(todo[t]) \in Plugins /\ CallHook(t, Head(todo[t]), News(t))
      BY <2>3, HeadType DEF Notify, Actors
    <3>2. QED BY <3>1, NewsType, HookEvent
  <2>4. QED BY <2>1, <2>2, <2>3 DEF PassNext, Snapshot, NotifyFails, Notified
<1>3. CASE \E a \in Actors : Emit(a)
  BY <1>3 DEF Emit, EventType
<1>4. CASE UNCHANGED <<told, eventVars>>
  BY <1>4 DEF EventType, eventVars
<1>5. QED
  BY <1>1, <1>2, <1>3, <1>4 DEF Next, Drop, Restore, SetInterceptor, Tick, vars

\* The account, with what makes it inductive: a downtime has a start when the
\* watchdog was told down last, and it is not in the future.
DogInv ==
  /\ DogType /\ start <= now
  /\ told[Watchdog] = "down" <=> start # Never
  /\ DowntimeAccounted

\* A hook keeps the watchdog's account: OnConnected adds the downtime up,
\* OnDisconnected starts it.
LEMMA HookDog ==
  ASSUME DogInv, EventType, UNCHANGED timeVars, NEW a \in Actors, NEW p \in Plugins,
         NEW how \in {"up", "down"}, CallHook(a, p, how)
  PROVE  DogInv'
<1> USE DEF DogInv, DogType, EventType, timeVars, dogVars, Never, DowntimeAccounted,
            CurrentDowntime
<1>1. Watchdog \in Plugins
  BY PluginsAssumption
<1>2. CASE p # Watchdog
  <2>1. told'[Watchdog] = told[Watchdog] /\ UNCHANGED dogVars
    BY <1>1, <1>2 DEF CallHook
  <2>2. QED BY <2>1
<1>3. CASE p = Watchdog /\ how = "up"
  <2>1. told'[Watchdog] = "up" /\ OnConnected
    BY <1>1, <1>3 DEF CallHook
  <2>2. QED BY <2>1 DEF OnConnected
<1>4. CASE p = Watchdog /\ how = "down"
  <2>1. told'[Watchdog] = "down" /\ OnDisconnected
    BY <1>1, <1>4 DEF CallHook
  <2>2. QED BY <2>1 DEF OnDisconnected
<1>5. QED BY <1>2, <1>3, <1>4

\* Every step keeps the watchdog's account.
LEMMA DogSteps ==
  ASSUME DogInv, RegType, PassType, EventType, [Next]_vars
  PROVE  DogInv'
<1> USE DEF DogInv, DogType, timeVars, dogVars, Never, DowntimeAccounted,
            CurrentDowntime
<1>1. CASE UNCHANGED <<told, dogVars, timeVars>>
  BY <1>1
<1>2. CASE UNCHANGED <<told, dogVars>> /\ Tick
  <2>1. CASE told[Watchdog] = "down"
    BY <1>2, <2>1 DEF Tick
  <2>2. CASE told[Watchdog] # "down"
    BY <1>2, <2>2 DEF Tick
  <2>3. QED BY <2>1, <2>2
<1>3. QED BY <1>1, <1>2, HookSteps, HookDog

\* Client and plugin manager just created.
LEMMA InitTypes ==
  Init => /\ RegType /\ LinkType /\ PassType /\ EventType /\ FlagType /\ DogInv
<1> SUFFICES ASSUME Init
             PROVE  RegType /\ LinkType /\ PassType /\ EventType /\ FlagType /\ DogInv
  OBVIOUS
<1> USE DEF Init
<1>1. <<>> \in Seq(Plugins)
  BY EmptySeq
<1>2. \A u \in Users : 1 \in 1..Len(Wants[u])
  <2>1. TAKE u \in Users
  <2>2. PICK n \in Nat : n = Len(Wants[u]) /\ n > 0
    BY PluginsAssumption, LenProperties
  <2>3. QED BY <2>2
<1>3. RegType
  BY <1>1, <1>2 DEF RegType, UseStages
<1>4. LinkType
  BY DEF LinkType
<1>5. PassType
  BY <1>1 DEF PassType, PassStages
<1>6. EventType
  BY DEF EventType
<1>7. FlagType
  BY Zenon DEF FlagType
<1>8. DogInv
  BY PluginsAssumption
     DEF DogInv, DogType, Never, DowntimeAccounted, CurrentDowntime
<1>9. QED BY <1>3, <1>4, <1>5, <1>6, <1>7, <1>8

TypeInv == /\ RegType /\ LinkType /\ PassType /\ EventType /\ FlagType /\ DogInv

\* Every step keeps the types.
LEMMA TypeSteps == TypeInv /\ [Next]_vars => TypeInv'
BY RegTypes, LinkTypes, PassTypes, EventTypes, FlagTypes, DogSteps DEF TypeInv

\* The types are an invariant, by their parts.
LEMMA TypeInvariant == Spec => []TypeInv
<1>1. Init => TypeInv
  BY InitTypes DEF TypeInv
<1>2. QED BY <1>1, TypeSteps, PTL DEF Spec

\* Every variable of the manager, the notifications and the watchdog keeps its
\* type: no index of Use leaves its arguments, no downtime is negative.
THEOREM TypeCorrect == Spec => []TypeOK
<1>1. TypeInv => TypeOK
  BY TypeParts DEF TypeInv, DogInv
<1>2. QED BY <1>1, TypeInvariant, PTL

\* The downtimes that the watchdog adds up (plugin_watchdog.go:72-138), with the
\* one under way, are the time since it was told down, but for what a second
\* OnDisconnected made it forget.
THEOREM DowntimesAddUp == Spec => []DowntimeAccounted
<1>1. TypeInv => DowntimeAccounted
  BY DEF TypeInv, DogInv
<1>2. QED BY <1>1, TypeInvariant, PTL

--------------------------------------------------------------------------------
(* Names *)

\* A step of u that registers nothing keeps who holds which name.
LEMMA NamesKept ==
  ASSUME RegType, NameHeldByOne, NEW u \in Users,
         taken' = taken,
         \A v \in Users \ {u} : ust'[v] = ust[v] /\ at'[v] = at[v],
         \/ ust'[u] \notin Registering
         \/ ust[u] \in Registering /\ at'[u] = at[u]
  PROVE  NameHeldByOne'
<1>1. \A v \in Users : ust'[v] \in Registering =>
        ust[v] \in Registering /\ Current(v)' = Current(v)
  BY DEF Current
<1>2. QED BY <1>1 DEF NameHeldByOne

\* A step of u that ends its registration and frees its name.
LEMMA NameFreed ==
  ASSUME RegType, NameHeldByOne, NEW u \in Users, ust[u] \in Registering,
         taken' = taken \ {Name[Current(u)]}, at' = at,
         \A v \in Users \ {u} : ust'[v] = ust[v],
         ust'[u] \notin Registering
  PROVE  NameHeldByOne'
<1>1. \A v \in Users : ust'[v] \in Registering =>
        /\ v # u /\ ust[v] \in Registering /\ Current(v)' = Current(v)
        /\ Name[Current(v)] # Name[Current(u)]
  BY DEF Current, NameHeldByOne
<1>2. QED BY <1>1 DEF NameHeldByOne

\* Every step leaves a name held by one user.
LEMMA NameSteps ==
  ASSUME RegType, NameHeldByOne, [Next]_vars
  PROVE  NameHeldByOne'
<1>1. CASE Elsewhere
  <2>1. taken' = taken /\ ust' = ust /\ at' = at
    BY <1>1, ElsewhereRegistry DEF regVars
  <2>2. \A v \in Users : Current(v)' = Current(v)
    BY <2>1 DEF Current
  <2>3. QED BY <2>1, <2>2 DEF NameHeldByOne
<1>2. ASSUME NEW u \in Users, UseNext(u) PROVE NameHeldByOne'
  <2> USE DEF RegType, UserGoto, Registering
  <2>1. CASE UseRefused(u) \/ UseHookFails(u)
    BY <2>1, NamesKept DEF UseRefused, UseHookFails
  <2>2. CASE UseReserve(u)
    <3>1. /\ taken' = taken \cup {Name[Current(u)]} /\ at' = at
          /\ ust'[u] \in Registering /\ ust[u] = "check"
          /\ \A v \in Users \ {u} : ust'[v] = ust[v]
          /\ Name[Current(u)] \notin taken
      BY <2>2 DEF UseReserve
    <3>2. \A v \in Users : Current(v)' = Current(v)
      BY <3>1 DEF Current
    <3>3. \A v \in Users : ust'[v] \in Registering =>
            \/ v = u
            \/ /\ v # u /\ ust[v] \in Registering
               /\ Name[Current(v)] \in taken /\ Name[Current(v)] # Name[Current(u)]
      BY <3>1 DEF NameHeldByOne
    <3>4. \A v \in Users : ust'[v] \in Registering => Name[Current(v)'] \in taken'
      BY <3>1, <3>2, <3>3
    <3>5. \A v, w \in Users : /\ {ust'[v], ust'[w]} \subseteq Registering
                              /\ Name[Current(v)'] = Name[Current(w)']
                              => v = w
      BY <3>2, <3>3 DEF NameHeldByOne
    <3>6. QED BY ONLY <3>4, <3>5 DEF NameHeldByOne
  <2>3. CASE UseInitialize(u)
    BY <2>3, NamesKept DEF UseInitialize
  <2>4. CASE UseChain(u)
    BY <2>4, NamesKept DEF UseChain
  <2>5. CASE UseInitFails(u)
    BY <2>5, NameFreed DEF UseInitFails
  <2>6. CASE UseJoin(u)
    BY <2>6, NamesKept DEF UseJoin
  <2>7. CASE UseSilent(u)
    BY <2>7, NamesKept, NextPluginType DEF UseSilent
  <2>8. CASE UseTell(u)
    BY <2>8, NamesKept DEF UseTell
  <2>9. CASE UseHook(u)
    BY <2>9, NamesKept, NextPluginType DEF UseHook
  <2>10. CASE UseUndo(u)
    BY <2>10, NameFreed DEF UseUndo
  <2>11. QED
    BY <1>2, <2>1, <2>2, <2>3, <2>4, <2>5, <2>6, <2>7, <2>8, <2>9, <2>10
       DEF UseNext
<1>3. QED BY <1>1, <1>2, NextSteps

\* Types and names together are an invariant.
LEMMA NameInvariant == Spec => [](TypeInv /\ NameHeldByOne)
<1>1. Init => TypeInv /\ NameHeldByOne
  BY InitTypes DEF TypeInv, Init, NameHeldByOne, Registering
<1>2. TypeInv /\ NameHeldByOne /\ [Next]_vars => (TypeInv /\ NameHeldByOne)'
  BY TypeSteps, NameSteps DEF TypeInv
<1>3. QED BY <1>1, <1>2, PTL DEF Spec

\* A name is reserved from the check of Use to its end (plugin.go:43-75): two
\* registrations of one name never overlap, however Initialize and hooks fail.
THEOREM NamesHeld == Spec => []NameHeldByOne
BY NameInvariant, PTL

--------------------------------------------------------------------------------
(* The order of the plugins *)

\* Users with an entry of order that their Use may still remove.
Holding == {u \in Users : ust[u] \in {"test", "hook", "undo"}}

\* There are at least as many entries as users that may remove one.
HoldInv == IsFiniteSet(Holding) /\ Cardinality(Holding) <= Len(order)

\* Every step leaves at least as many entries as users that hold one.
LEMMA HoldSteps == ASSUME RegType, HoldInv, [Next]_vars PROVE HoldInv'
<1>1. PICK n \in Nat : n = Len(order)
  BY LenProperties DEF RegType
<1>2. CASE UNCHANGED order /\ Holding' = Holding
  BY <1>2 DEF HoldInv
<1>3. ASSUME NEW u \in Users, UNCHANGED order, Holding' = Holding \ {u} PROVE HoldInv'
  <2>1. /\ IsFiniteSet(Holding')
        /\ Cardinality(Holding') \in Nat /\ Cardinality(Holding) \in Nat
        /\ Cardinality(Holding') <= Cardinality(Holding)
    BY <1>3, FS_RemoveElement, FS_CardinalityType DEF HoldInv
  <2>2. QED BY <1>1, <1>3, <2>1 DEF HoldInv
<1>4. CASE Elsewhere
  BY <1>2, <1>4, ElsewhereRegistry DEF regVars, Holding
<1>5. ASSUME NEW u \in Users, UseNext(u) PROVE HoldInv'
  <2> USE DEF RegType, UserGoto
  <2>1. CASE UseRefused(u)
    BY <2>1, <1>2 DEF UseRefused, Holding
  <2>2. CASE UseReserve(u)
    BY <2>2, <1>2 DEF UseReserve, Holding
  <2>3. CASE UseInitialize(u)
    BY <2>3, <1>2 DEF UseInitialize, Holding
  <2>4. CASE UseChain(u)
    BY <2>4, <1>2 DEF UseChain, Holding
  <2>5. CASE UseInitFails(u)
    BY <2>5, <1>2 DEF UseInitFails, Holding
  <2>6. CASE UseJoin(u)
    <3>1. Holding' = Holding \cup {u} /\ u \notin Holding
      BY <2>6 DEF UseJoin, Holding
    <3>2. /\ IsFiniteSet(Holding')
          /\ Cardinality(Holding') = Cardinality(Holding) + 1
          /\ Cardinality(Holding) \in Nat
      BY <3>1, FS_AddElement, FS_CardinalityType DEF HoldInv
    <3>3. Len(order') = n + 1
      BY <1>1, <2>6, CurrentType, AppendProperties DEF UseJoin
    <3>4. QED BY <1>1, <3>2, <3>3 DEF HoldInv
  <2>7. CASE UseSilent(u)
    BY <2>7, <1>3, NextPluginType DEF UseSilent, Holding
  <2>8. CASE UseTell(u)
    BY <2>8, <1>2 DEF UseTell, Holding
  <2>9. CASE UseHook(u)
    BY <2>9, <1>3, NextPluginType DEF UseHook, Holding
  <2>10. CASE UseHookFails(u)
    BY <2>10, <1>2 DEF UseHookFails, Holding
  <2>11. CASE UseUndo(u)
    <3>1. Holding' = Holding \ {u} /\ u \in Holding
      BY <2>11 DEF UseUndo, Holding
    <3>2. /\ IsFiniteSet(Holding')
          /\ Cardinality(Holding') = Cardinality(Holding) - 1
          /\ Cardinality(Holding') \in Nat
      BY <3>1, FS_RemoveElement, FS_CardinalityType DEF HoldInv
    <3>3. n > 0 /\ Cardinality(Holding') <= n - 1
      BY <1>1, <3>2, FS_CardinalityType DEF HoldInv
    <3>4. order # <<>>
      BY <1>1, <3>3, EmptySeq
    <3>5. Len(order') = n - 1
      BY <1>1, <2>11, <3>4, InFront DEF UseUndo
    <3>6. QED BY <3>2, <3>3, <3>5 DEF HoldInv
  <2>12. QED
    BY <1>5, <2>1, <2>2, <2>3, <2>4, <2>5, <2>6, <2>7, <2>8, <2>9, <2>10, <2>11
       DEF UseNext
<1>6. QED BY <1>4, <1>5, NextSteps

\* There are always as many entries as users that hold one.
LEMMA HoldInvariant == Spec => [](TypeInv /\ HoldInv)
<1>1. Init => TypeInv /\ HoldInv
  <2>1. Init => Holding = {} /\ order = <<>>
    BY DEF Init, Holding
  <2>2. Init => HoldInv
    BY <2>1, FS_EmptySet, EmptySeq DEF HoldInv
  <2>3. QED BY <2>2, InitTypes DEF TypeInv
<1>2. TypeInv /\ HoldInv /\ [Next]_vars => (TypeInv /\ HoldInv)'
  BY TypeSteps, HoldSteps DEF TypeInv
<1>3. QED BY <1>1, <1>2, PTL DEF Spec

\* order[:len(order)-1] (plugin.go:72) is never taken of an empty slice: each user
\* about to remove an entry added one, and removes no more than that.
THEOREM RemovalsInRange == Spec => []RemovalInRange
<1>1. TypeInv /\ HoldInv => RemovalInRange
  <2> SUFFICES ASSUME TypeInv, HoldInv, NEW u \in Undoing PROVE order # <<>>
    BY DEF RemovalInRange
  <2>1. u \in Holding
    BY DEF Undoing, Holding
  <2>2. Cardinality(Holding) \in Nat /\ Cardinality(Holding) # 0
    BY <2>1, FS_EmptySet, FS_CardinalityType DEF HoldInv
  <2>3. QED BY <2>2, EmptySeq DEF HoldInv
<1>2. QED BY <1>1, HoldInvariant, PTL

--------------------------------------------------------------------------------
(* The registry *)

Early(u)   == ust[u] \in {"init", "chain", "join"}
Opening(u) == ust[u] \in {"test", "hook"}

\* While no failed plugin removed another's entry, order has each name once, and
\* the names taken are those in order and those of plugins on their way there.
OrderInv ==
  ~mixup =>
    /\ \A i, j \in 1..Len(order) : Name[order[i]] = Name[order[j]] => i = j
    /\ \A x : x \in taken <=> \/ \E p \in In(order) : x = Name[p]
                              \/ \E u \in Users : Early(u) /\ x = Name[Current(u)]
    /\ \A u \in Users : Early(u) => \A p \in In(order) : Name[p] # Name[Current(u)]

\* A step of u that does not change order, taken, or who is on the way there.
LEMMA OrderKept ==
  ASSUME OrderInv, NEW u \in Users, UNCHANGED <<taken, order, mixup>>,
         \A v \in Users \ {u} : ust'[v] = ust[v] /\ at'[v] = at[v],
         \/ ~Early(u) /\ ~Early(u)'
         \/ Early(u) /\ Early(u)' /\ at'[u] = at[u]
  PROVE  OrderInv'
<1>1. \A v \in Users : /\ Early(v)' <=> Early(v)
                       /\ Early(v) => Current(v)' = Current(v)
  BY DEF Early, Current
<1>2. /\ taken' = taken /\ order' = order /\ (mixup' <=> mixup)
      /\ Len(order') = Len(order) /\ In(order)' = In(order)
  BY DEF In
<1>3. SUFFICES ASSUME ~mixup PROVE OrderInv'
  BY <1>2, Zenon DEF OrderInv
<1>4. \A i, j \in 1..Len(order') : Name[order'[i]] = Name[order'[j]] => i = j
  BY <1>2, <1>3 DEF OrderInv
<1>5. \A x : x \in taken' <=> \/ \E p \in In(order)' : x = Name[p]
                              \/ \E v \in Users : Early(v)' /\ x = Name[Current(v)']
  BY <1>1, <1>2, <1>3 DEF OrderInv
<1>6. \A v \in Users : Early(v)' => \A p \in In(order)' : Name[p] # Name[Current(v)']
  BY <1>1, <1>2, <1>3 DEF OrderInv
<1>7. QED BY ONLY <1>4, <1>5, <1>6 DEF OrderInv

\* A step that changes the names taken and nothing in order.
LEMMA EarlyOthers ==
  ASSUME NEW u \in Users, at' = at, \A v \in Users \ {u} : ust'[v] = ust[v]
  PROVE  /\ \A v \in Users : Current(v)' = Current(v)
         /\ \A v \in Users \ {u} : Early(v)' <=> Early(v)
BY DEF Early, Current

\* A name that is reserved is of no plugin in order.
LEMMA ReserveOrder ==
  ASSUME RegType, OrderInv, NEW u \in Users, UseReserve(u)
  PROVE  OrderInv'
<1>1. /\ taken' = taken \cup {Name[Current(u)]} /\ order' = order /\ at' = at
      /\ \A v \in Users \ {u} : ust'[v] = ust[v]
      /\ Name[Current(u)] \notin taken /\ ~Early(u) /\ Early(u)'
  BY DEF UseReserve, UserGoto, Early, RegType
<1>2. mixup' = mixup
  BY DEF UseReserve, OnlyUse, errVars
<1>3. SUFFICES ASSUME ~mixup PROVE OrderInv'
  BY <1>2, Zenon DEF OrderInv
<1>4. In(order)' = In(order)
  BY <1>1 DEF In
<1>5. \A p \in In(order) : Name[p] \in taken
  BY <1>3 DEF OrderInv
<1>6. \A x : x \in taken' <=> \/ \E p \in In(order)' : x = Name[p]
                              \/ \E v \in Users : Early(v)' /\ x = Name[Current(v)']
  BY <1>1, <1>3, <1>4, EarlyOthers DEF OrderInv
<1>7. \A v \in Users : Early(v)' => \A p \in In(order)' : Name[p] # Name[Current(v)']
  BY <1>1, <1>3, <1>4, <1>5, EarlyOthers DEF OrderInv
<1>8. \A i, j \in 1..Len(order') : Name[order'[i]] = Name[order'[j]] => i = j
  BY <1>1, <1>3 DEF OrderInv
<1>9. QED BY ONLY <1>6, <1>7, <1>8 DEF OrderInv

\* A plugin that fails to initialise gives back a name that is its own.
LEMMA InitFailsOrder ==
  ASSUME RegType, NameHeldByOne, OrderInv, NEW u \in Users, UseInitFails(u)
  PROVE  OrderInv'
<1>1. /\ taken' = taken \ {Name[Current(u)]} /\ order' = order /\ at' = at
      /\ \A v \in Users \ {u} : ust'[v] = ust[v]
      /\ Early(u) /\ ~Early(u)'
  BY DEF UseInitFails, UserGoto, Early, RegType
<1>2. mixup' = mixup
  BY DEF UseInitFails, OnlyUse, errVars
<1>3. SUFFICES ASSUME ~mixup PROVE OrderInv'
  BY <1>2, Zenon DEF OrderInv
<1>4. In(order)' = In(order)
  BY <1>1 DEF In
<1>5. \A v \in Users \ {u} : Early(v) => Name[Current(v)] # Name[Current(u)]
  BY <1>1 DEF NameHeldByOne, Early, Registering
<1>6. \A p \in In(order) : Name[p] # Name[Current(u)]
  BY <1>1, <1>3 DEF OrderInv
<1>7. \A x : x \in taken' <=> \/ \E p \in In(order)' : x = Name[p]
                              \/ \E v \in Users : Early(v)' /\ x = Name[Current(v)']
  BY <1>1, <1>3, <1>4, <1>5, <1>6, EarlyOthers DEF OrderInv
<1>8. \A v \in Users : Early(v)' => \A p \in In(order)' : Name[p] # Name[Current(v)']
  BY <1>1, <1>3, <1>4, EarlyOthers DEF OrderInv
<1>9. \A i, j \in 1..Len(order') : Name[order'[i]] = Name[order'[j]] => i = j
  BY <1>1, <1>3 DEF OrderInv
<1>10. QED BY ONLY <1>7, <1>8, <1>9 DEF OrderInv

\* A plugin that joins order moves its name there.
LEMMA JoinOrder ==
  ASSUME RegType, NameHeldByOne, OrderInv, NEW u \in Users, UseJoin(u)
  PROVE  OrderInv'
<1>1. /\ taken' = taken /\ order' = Append(order, Current(u)) /\ at' = at
      /\ \A v \in Users \ {u} : ust'[v] = ust[v]
      /\ Early(u) /\ ~Early(u)' /\ mixup' = mixup
  BY DEF UseJoin, UserGoto, Early, RegType
<1>2. SUFFICES ASSUME ~mixup PROVE OrderInv'
  BY <1>1, Zenon DEF OrderInv
<1>3. PICK n \in Nat : n = Len(order)
  BY LenProperties DEF RegType
<1>4. /\ Len(order') = n + 1 /\ order'[n + 1] = Current(u)
      /\ \A i \in 1..n : order'[i] = order[i]
      /\ In(order)' = In(order) \cup {Current(u)}
  BY <1>1, <1>3, CurrentType, AppendProperties, InAppend DEF RegType
<1>5. \A v \in Users \ {u} : Early(v) => Name[Current(v)] # Name[Current(u)]
  BY <1>1 DEF NameHeldByOne, Early, Registering
<1>6. \A i \in 1..n : Name[order[i]] # Name[Current(u)]
  BY <1>1, <1>2, <1>3 DEF OrderInv, In
<1>7. \A i, j \in 1..Len(order') : Name[order'[i]] = Name[order'[j]] => i = j
  <2>1. SUFFICES ASSUME NEW i \in 1..(n + 1), NEW j \in 1..(n + 1),
                        Name[order'[i]] = Name[order'[j]]
                 PROVE  i = j
    BY <1>4
  <2>2. CASE i \in 1..n /\ j \in 1..n
    BY <1>2, <1>3, <1>4, <2>1, <2>2 DEF OrderInv
  <2>3. CASE i = n + 1 /\ j \in 1..n
    BY <1>4, <1>6, <2>1, <2>3
  <2>4. CASE i \in 1..n /\ j = n + 1
    BY <1>4, <1>6, <2>1, <2>4
  <2>5. QED BY <2>2, <2>3, <2>4
<1>8. \A x : x \in taken' <=> \/ \E p \in In(order)' : x = Name[p]
                              \/ \E v \in Users : Early(v)' /\ x = Name[Current(v)']
  BY <1>1, <1>2, <1>4, EarlyOthers DEF OrderInv
<1>9. \A v \in Users : Early(v)' => \A p \in In(order)' : Name[p] # Name[Current(v)']
  BY <1>1, <1>2, <1>4, <1>5, EarlyOthers DEF OrderInv
<1>10. QED BY ONLY <1>7, <1>8, <1>9 DEF OrderInv

\* A plugin that removes its own entry leaves the others'.
LEMMA UndoOrder ==
  ASSUME RegType, NameHeldByOne, RemovalInRange, OrderInv, NEW u \in Users, UseUndo(u)
  PROVE  OrderInv'
<1>1. /\ taken' = taken \ {Name[Current(u)]} /\ at' = at
      /\ order' = SubSeq(order, 1, Len(order) - 1)
      /\ \A v \in Users \ {u} : ust'[v] = ust[v]
      /\ ust[u] = "undo" /\ ~Early(u) /\ ~Early(u)'
  BY DEF UseUndo, UserGoto, Early, RegType
<1>2. ~mixup' => ~mixup /\ order[Len(order)] = Current(u)
  BY Zenon DEF UseUndo
<1>3. SUFFICES ASSUME ~mixup, order[Len(order)] = Current(u) PROVE OrderInv'
  BY <1>2, Zenon DEF OrderInv
<1>4. order # <<>>
  BY <1>1, SMTT(30) DEF RemovalInRange, Undoing
<1>5. PICK n \in Nat : Len(order) = n + 1
  <2>1. Len(order) \in Nat /\ Len(order) # 0
    BY <1>4, EmptySeq, LenProperties DEF RegType
  <2>2. Len(order) - 1 \in Nat /\ Len(order) = (Len(order) - 1) + 1
    BY <2>1
  <2>3. QED BY <2>2
<1>6. /\ Len(order') = n /\ \A i \in 1..n : order'[i] = order[i]
      /\ In(order) = In(order)' \cup {Current(u)}
  <2>1. LET f == SubSeq(order, 1, Len(order) - 1)
        IN /\ Len(f) = Len(order) - 1
           /\ \A i \in 1..Len(f) : i \in 1..Len(order) /\ f[i] = order[i]
           /\ In(order) = In(f) \cup {order[Len(order)]}
    BY <1>4, InFront DEF RegType
  <2>2. Len(order') = n
    BY <1>1, <1>5, <2>1
  <2>3. QED BY <1>1, <1>3, <2>1, <2>2 DEF In
<1>7. \A p \in In(order)' : Name[p] # Name[Current(u)]
  <2>1. SUFFICES ASSUME NEW i \in 1..n PROVE Name[order[i]] # Name[order[n + 1]]
    BY <1>3, <1>5, <1>6 DEF In
  <2>2. i \in 1..(n + 1) /\ n + 1 \in 1..(n + 1) /\ i # n + 1
    OBVIOUS
  <2>3. QED BY <1>3, <1>5, <2>2 DEF OrderInv
<1>8. \A v \in Users : Early(v) => Name[Current(v)] # Name[Current(u)]
  BY <1>1 DEF NameHeldByOne, Early, Registering
<1>9. \A i, j \in 1..Len(order') : Name[order'[i]] = Name[order'[j]] => i = j
  BY <1>3, <1>5, <1>6 DEF OrderInv
<1>10. \A x : x \in taken' <=> \/ \E p \in In(order)' : x = Name[p]
                               \/ \E v \in Users : Early(v)' /\ x = Name[Current(v)']
  BY <1>1, <1>3, <1>6, <1>7, <1>8, EarlyOthers DEF OrderInv
<1>11. \A v \in Users : Early(v)' => \A p \in In(order)' : Name[p] # Name[Current(v)']
  BY <1>1, <1>3, <1>6, EarlyOthers DEF OrderInv
<1>12. QED BY ONLY <1>9, <1>10, <1>11 DEF OrderInv

\* Every step keeps order and the names taken in line.
LEMMA OrderSteps ==
  ASSUME RegType, NameHeldByOne, RemovalInRange, OrderInv, [Next]_vars
  PROVE  OrderInv'
<1>1. CASE Elsewhere
  <2>1. taken' = taken /\ order' = order /\ ust' = ust /\ at' = at
    BY <1>1, ElsewhereRegistry DEF regVars
  <2>2. mixup' = mixup
    BY <1>1
       DEF Elsewhere, PassNext, Snapshot, Notify, NotifyFails, Notified, Drop, Emit,
           Restore, SetInterceptor, Tick, vars, errVars
  <2>3. SUFFICES ASSUME ~mixup PROVE OrderInv'
    BY <2>2, Zenon DEF OrderInv
  <2>4. /\ Len(order') = Len(order) /\ In(order)' = In(order)
        /\ \A v \in Users : (Early(v)' <=> Early(v)) /\ Current(v)' = Current(v)
    BY <2>1 DEF In, Early, Current
  <2>5. \A i, j \in 1..Len(order') : Name[order'[i]] = Name[order'[j]] => i = j
    BY <2>1, <2>3, <2>4 DEF OrderInv
  <2>6. \A x : x \in taken' <=> \/ \E p \in In(order)' : x = Name[p]
                                \/ \E v \in Users : Early(v)' /\ x = Name[Current(v)']
    BY <2>1, <2>3, <2>4 DEF OrderInv
  <2>7. \A v \in Users : Early(v)' => \A p \in In(order)' : Name[p] # Name[Current(v)']
    BY <2>1, <2>3, <2>4 DEF OrderInv
  <2>8. QED BY ONLY <2>5, <2>6, <2>7 DEF OrderInv
<1>2. ASSUME NEW u \in Users, UseNext(u) PROVE OrderInv'
  <2> USE DEF UserGoto, Early, OnlyUse, errVars
  <2>1. CASE UseRefused(u) \/ UseTell(u) \/ UseHookFails(u)
    BY <2>1, OrderKept DEF UseRefused, UseTell, UseHookFails, RegType
  <2>2. CASE UseInitialize(u) \/ UseChain(u)
    BY <2>2, OrderKept DEF UseInitialize, UseChain, RegType
  <2>3. CASE UseSilent(u)
    BY <2>3, OrderKept, NextPluginType DEF UseSilent
  <2>4. CASE UseHook(u)
    BY <2>4, OrderKept, NextPluginType DEF UseHook
  <2>5. QED
    BY <1>2, <2>1, <2>2, <2>3, <2>4, ReserveOrder, InitFailsOrder, JoinOrder, UndoOrder
       DEF UseNext
<1>3. QED BY <1>1, <1>2, NextSteps

RegistryInv == TypeInv /\ HoldInv /\ RemovalInRange /\ NameHeldByOne /\ OrderInv

\* The registry's invariant, with what it rests on.
LEMMA RegistryInvariant == Spec => []RegistryInv
<1>1. Init => OrderInv
  <2>1. SUFFICES ASSUME Init PROVE OrderInv
    OBVIOUS
  <2>2. In(order) = {} /\ taken = {} /\ Len(order) = 0 /\ \A u \in Users : ~Early(u)
    BY <2>1 DEF Init, In, Early
  <2>3. QED BY <2>2 DEF OrderInv
<1>2. TypeInv /\ RemovalInRange /\ NameHeldByOne /\ OrderInv /\ [Next]_vars => OrderInv'
  BY OrderSteps DEF TypeInv
<1>3. Spec => []TypeInv /\ []RemovalInRange /\ []NameHeldByOne /\ []HoldInv
  BY TypeInvariant, RemovalsInRange, NamesHeld, HoldInvariant, PTL
<1>4. QED BY <1>1, <1>2, <1>3, PTL DEF Spec, RegistryInv

\* Who is registered (plugin.go:43-79): the names taken are those of the plugins
\* that are notified, each once, and of those on their way, as long as no plugin
\* that failed removed the entry of another one.
THEOREM Registered == Spec => []RegistryConsistent
<1>1. RegistryInv => RegistryConsistent
  <2>1. SUFFICES ASSUME RegistryInv, ~mixup PROVE RegistryConsistent
    BY DEF RegistryConsistent
  <2>2. taken = {Name[p] : p \in In(order)}
                \cup {Name[Current(u)] : u \in
                        {v \in Users : ust[v] \in {"init", "chain", "join"}}}
    BY <2>1 DEF RegistryInv, OrderInv, Early
  <2>3. \A i, j \in 1..Len(order) : Name[order[i]] = Name[order[j]] => i = j
    BY <2>1 DEF RegistryInv, OrderInv
  <2>4. QED BY ONLY <2>2, <2>3 DEF RegistryConsistent
<1>2. QED BY <1>1, RegistryInvariant, PTL


--------------------------------------------------------------------------------
(* The chain of interceptors *)

Links == Nat \cup {Coalescer}
ChainInv == /\ sets \in Nat /\ interceptor \in Seq(Links)
            /\ seen \in [Users -> Seq(Links)]
            /\ InterceptorKept

\* What the coalescer's chain holds is what it found and itself.
LEMMA InChained ==
  ASSUME NEW s \in Seq(Links)
  PROVE  Chained(s) \in Seq(Links) /\ In(s) \subseteq In(Chained(s))
<1>1. <<Coalescer>> \in Seq(Links) /\ Len(<<Coalescer>>) = 1
  BY DEF Links
<1>2. /\ Chained(s) \in Seq(Links) /\ Len(Chained(s)) = 1 + Len(s)
      /\ \A i \in 1..Len(s) : Chained(s)[1 + i] = s[i]
  <2>1. PICK n \in Nat : n = Len(s)
    BY LenProperties
  <2>2. /\ Chained(s) \in Seq(Links) /\ Len(Chained(s)) = 1 + Len(s)
        /\ \A i \in 1..(1 + Len(s)) :
             Chained(s)[i] = IF i <= 1 THEN <<Coalescer>>[i] ELSE s[i - 1]
    BY <1>1, ConcatProperties DEF Chained
  <2>3. \A i \in 1..n : 1 + i \in 1..(1 + n) /\ ~(1 + i <= 1) /\ (1 + i) - 1 = i
    OBVIOUS
  <2>4. QED BY <2>1, <2>2, <2>3
<1>3. ASSUME NEW x \in In(s) PROVE x \in In(Chained(s))
  <2>1. PICK n \in Nat : n = Len(s)
    BY LenProperties
  <2>2. PICK i \in 1..n : x = s[i]
    BY <1>3, <2>1 DEF In
  <2>3. 1 + i \in 1..(1 + n)
    OBVIOUS
  <2>4. QED BY <1>2, <2>1, <2>2, <2>3 DEF In
<1>4. QED BY <1>2, <1>3

\* Every step keeps the last interceptor in the chain, or was raced.
LEMMA ChainSteps == ASSUME ChainInv, [Next]_vars PROVE ChainInv'
<1>1. CASE UNCHANGED chainVars
  BY <1>1, Zenon DEF ChainInv, InterceptorKept, chainVars, In
<1>2. CASE SetInterceptor
  <2>1. sets' = sets + 1 /\ interceptor' = <<sets + 1>> /\ seen' = seen
    BY <1>2 DEF SetInterceptor
  <2>2. sets' \in Nat /\ interceptor' \in Seq(Links)
    BY <2>1 DEF ChainInv, Links
  <2>3. sets' \in In(interceptor)'
    BY <2>1 DEF In
  <2>4. QED BY <2>1, <2>2, <2>3 DEF ChainInv, InterceptorKept
<1>3. ASSUME NEW u \in Users, UseInitialize(u) PROVE ChainInv'
  <2>1. UNCHANGED <<interceptor, sets, raced>>
    BY <1>3 DEF UseInitialize
  <2>2. seen' \in [Users -> Seq(Links)]
    BY <1>3 DEF UseInitialize, ChainInv
  <2>3. InterceptorKept'
    BY <2>1, Zenon DEF ChainInv, InterceptorKept, In
  <2>4. QED BY <2>1, <2>2, <2>3 DEF ChainInv
<1>4. ASSUME NEW u \in Users, UseChain(u) PROVE ChainInv'
  <2>1. /\ interceptor' = Chained(seen[u]) /\ sets' = sets
        /\ seen' = [seen EXCEPT ![u] = <<>>]
    BY <1>4 DEF UseChain
  <2>2. raced' <=> (raced \/ seen[u] # interceptor)
    BY <1>4, Zenon DEF UseChain
  <2>3. interceptor' \in Seq(Links) /\ In(seen[u]) \subseteq In(interceptor)'
    <3>1. seen[u] \in Seq(Links)
      BY DEF ChainInv
    <3>2. /\ Chained(seen[u]) \in Seq(Links)
          /\ In(seen[u]) \subseteq In(Chained(seen[u]))
      BY <3>1, InChained
    <3>3. In(interceptor)' = In(Chained(seen[u]))
      BY <2>1 DEF In
    <3>4. QED BY <2>1, <3>2, <3>3
  <2>4. seen' \in [Users -> Seq(Links)]
    <3>1. <<>> \in Seq(Links)
      BY EmptySeq
    <3>2. QED BY <2>1, <3>1 DEF ChainInv
  <2>5. ASSUME sets' > 0 PROVE sets' \in In(interceptor)' \/ raced'
    <3>1. CASE raced \/ seen[u] # interceptor
      BY <2>2, <3>1, Zenon
    <3>2. CASE ~raced /\ seen[u] = interceptor
      BY <2>1, <2>3, <2>5, <3>2 DEF ChainInv, InterceptorKept
    <3>3. QED BY <3>1, <3>2
  <2>6. QED BY <2>1, <2>3, <2>4, <2>5 DEF ChainInv, InterceptorKept
<1>5. QED
  <2>1. UNCHANGED chainVars \/ SetInterceptor
        \/ \E u \in Users : UseInitialize(u) \/ UseChain(u)
    BY DEF Next, UseNext, PassNext, UseRefused, UseReserve, UseInitFails, UseJoin,
           UseSilent, UseTell, UseHook, UseHookFails, UseUndo, OnlyUse, Snapshot,
           Notify, NotifyFails, Notified, Drop, Emit, Restore, Tick, vars
  <2>2. QED BY <1>1, <1>2, <1>3, <1>4, <2>1

\* An interceptor that was set (interceptor.go) stays in the chain when the
\* coalescer is added to it (plugin_coalescer.go:88-114), unless it was set
\* between the two halves of Initialize.
THEOREM InterceptorStays == Spec => []InterceptorKept
<1>1. Init => ChainInv
  <2>1. <<>> \in Seq(Links)
    BY EmptySeq
  <2>2. Init => sets \in Nat /\ interceptor \in Seq(Links) /\ seen \in [Users -> Seq(Links)]
    BY <2>1 DEF Init
  <2>3. Init => ~(sets > 0)
    BY DEF Init
  <2>4. QED BY <2>2, <2>3 DEF ChainInv, InterceptorKept
<1>2. ChainInv /\ [Next]_vars => ChainInv'
  BY ChainSteps
<1>3. ChainInv => InterceptorKept
  BY DEF ChainInv
<1>4. QED BY <1>1, <1>2, <1>3, PTL DEF Spec


--------------------------------------------------------------------------------
(* What the plugins know *)

\* As long as no hook failed, no entry was removed: whoever was told something, is
\* to be told, or is at its first call, is in order.
QuietInv ==
  ~hookErr =>
    /\ ~mixup /\ \A u \in Users : ust[u] # "undo"
    /\ \A p \in Plugins : told[p] # "none" => p \in In(order)
    /\ \A t \in Threads : In(todo[t]) \subseteq In(order)
    /\ \A u \in Users : Opening(u) => Current(u) \in In(order)

\* A step of Use keeps it, and order grows at most.
LEMMA QuietUse ==
  ASSUME RegType, EventType, QuietInv, NEW u \in Users, UseNext(u)
  PROVE  QuietInv'
<1> SUFFICES ASSUME ~hookErr' PROVE QuietInv'
  BY DEF QuietInv
<1> USE DEF UserGoto, OnlyUse, errVars, passVars
<1>1. /\ ~hookErr /\ ~UseHookFails(u) /\ ~UseUndo(u) /\ ~mixup'
  <2>1. UseUndo(u) => ust[u] = "undo" /\ hookErr' = hookErr
    BY DEF UseUndo
  <2>2. UseHookFails(u) => hookErr'
    BY DEF UseHookFails
  <2>3. hookErr => hookErr'
    BY ZenonT(60) DEF UseNext, UseRefused, UseReserve, UseInitialize, UseChain,
       UseInitFails, UseJoin, UseSilent, UseTell, UseHook, UseHookFails, UseUndo
  <2>4. mixup' => mixup \/ UseUndo(u)
    BY ZenonT(60) DEF UseNext, UseRefused, UseReserve, UseInitialize, UseChain,
       UseInitFails, UseJoin, UseSilent, UseTell, UseHook, UseHookFails
  <2>5. QED BY <2>1, <2>2, <2>3, <2>4, Zenon DEF QuietInv
<1>2. QuietInv!2
  BY <1>1 DEF QuietInv
<1>3. todo' = todo
  BY <1>1 DEF UseNext, UseRefused, UseReserve, UseInitialize, UseChain,
              UseInitFails, UseJoin, UseSilent, UseTell, UseHook
<1>4. \A v \in Users \ {u} : ust'[v] = ust[v] /\ at'[v] = at[v]
  BY <1>1, NextPluginType
     DEF UseNext, UseRefused, UseReserve, UseInitialize, UseChain, UseInitFails,
         UseJoin, UseSilent, UseTell, UseHook, RegType
<1>5. ust'[u] # "undo"
  BY <1>1, NextPluginType
     DEF UseNext, UseRefused, UseReserve, UseInitialize, UseChain, UseInitFails,
         UseJoin, UseSilent, UseTell, UseHook, RegType
<1>6. CASE UseJoin(u)
  <2>1. In(order)' = In(order) \cup {Current(u)}
    BY <1>6, CurrentType, InAppend DEF UseJoin, RegType, In
  <2>2. told' = told /\ at' = at
    BY <1>6 DEF UseJoin
  <2>3. Current(u)' = Current(u) /\ \A v \in Users : Current(v)' = Current(v)
    BY <2>2 DEF Current
  <2>4. \A v \in Users \ {u} : Opening(v)' => Opening(v)
    BY <1>4 DEF Opening
  <2>5. QED BY <1>1, <1>2, <1>3, <1>4, <1>5, <2>1, <2>2, <2>3, <2>4 DEF QuietInv
<1>7. CASE ~UseJoin(u)
  <2>1. In(order)' = In(order)
    BY <1>1, <1>7 DEF UseNext, UseRefused, UseReserve, UseInitialize, UseChain,
       UseInitFails, UseSilent, UseTell, UseHook, In
  <2>2. \A v \in Users : Opening(v)' => Opening(v) /\ Current(v)' = Current(v)
    <3>1. Opening(u)' => Opening(u) /\ at'[u] = at[u]
      BY <1>1, <1>7, NextPluginType
         DEF UseNext, UseRefused, UseReserve, UseInitialize, UseChain,
             UseInitFails, UseSilent, UseTell, UseHook, Opening, RegType
    <3>2. QED BY <1>4, <3>1 DEF Opening, Current
  <2>3. \A p \in Plugins : told'[p] # told[p] => p = Current(u) /\ Opening(u)
    BY <1>1, <1>7
       DEF UseNext, UseRefused, UseReserve, UseInitialize, UseChain, UseInitFails,
           UseSilent, UseTell, UseHook, CallHook, NextPlugin, Opening, EventType
  <2>4. \A p \in Plugins : told'[p] # "none" => p \in In(order)'
    BY <1>2, <2>1, <2>3
  <2>5. QED BY <1>1, <1>2, <1>3, <1>4, <1>5, <2>1, <2>2, <2>4 DEF QuietInv
<1>8. QED BY <1>6, <1>7

\* A notification keeps it.
LEMMA QuietPass ==
  ASSUME RegType, PassType, EventType, QuietInv, NEW t \in Threads, PassNext(t)
  PROVE  QuietInv'
<1> SUFFICES ASSUME ~hookErr' PROVE QuietInv'
  BY DEF QuietInv
<1> USE DEF PassGoto
<1>1. UNCHANGED regVars /\ mixup' = mixup /\ (hookErr => hookErr')
  BY DEF PassNext, Snapshot, Notify, NotifyFails, Notified, errVars
<1>2. QuietInv!2
  BY <1>1, Zenon DEF QuietInv
<1>3. /\ In(order)' = In(order)
      /\ \A v \in Users : (Opening(v)' <=> Opening(v)) /\ Current(v)' = Current(v)
      /\ \A v \in Users : ust'[v] = ust[v]
  BY <1>1 DEF regVars, In, Opening, Current
<1>4. ~mixup'
  BY <1>1, <1>2, Zenon
<1>5. \A s \in Threads : In(todo'[s]) \subseteq In(order)
  <2>1. CASE Snapshot(t)
    BY <1>2, <2>1 DEF Snapshot, PassType
  <2>2. CASE Notify(t)
    <3>1. In(Tail(todo[t])) \subseteq In(todo[t])
      BY <2>2, InTail DEF Notify, PassType
    <3>2. QED BY <1>2, <2>2, <3>1 DEF Notify, PassType
  <2>3. CASE NotifyFails(t)
    <3>1. In(<<>>) = {}
      BY DEF In
    <3>2. QED BY <1>2, <2>3, <3>1 DEF NotifyFails, PassType
  <2>4. CASE Notified(t)
    BY <1>2, <2>4 DEF Notified
  <2>5. QED BY <2>1, <2>2, <2>3, <2>4 DEF PassNext
<1>6. \A p \in Plugins : told'[p] # "none" => p \in In(order)
  <2>1. CASE told' = told
    BY <1>2, <2>1
  <2>2. CASE Notify(t)
    <3>1. Head(todo[t]) \in In(order)
      BY <1>2, <2>2, InTail DEF Notify, PassType
    <3>2. QED BY <1>2, <2>2, <3>1 DEF Notify, CallHook, EventType
  <2>3. QED BY <2>1, <2>2 DEF PassNext, Snapshot, NotifyFails, Notified
<1>7. QED BY <1>2, <1>3, <1>4, <1>5, <1>6 DEF QuietInv

\* Every step keeps it.
LEMMA QuietKept ==
  ASSUME RegType, PassType, EventType, QuietInv, [Next]_vars
  PROVE  QuietInv'
<1>1. CASE \/ \E t \in Droppers : Drop(t)
           \/ \E a \in Actors : Emit(a)
           \/ Restore \/ SetInterceptor \/ Tick \/ UNCHANGED vars
  <2>1. UNCHANGED <<regVars, told, todo>>
    BY <1>1 DEF Drop, Emit, Restore, SetInterceptor, Tick, vars, passVars
  <2>2. hookErr' = hookErr /\ mixup' = mixup
    BY <1>1 DEF Drop, Emit, Restore, SetInterceptor, Tick, vars, errVars
  <2>3. SUFFICES ASSUME ~hookErr PROVE QuietInv'
    BY <2>2, Zenon DEF QuietInv
  <2>4. QuietInv!2
    BY <2>3 DEF QuietInv
  <2>5. ~mixup'
    BY <2>2, <2>4, Zenon
  <2>6. /\ In(order)' = In(order)
        /\ \A v \in Users : (Opening(v)' <=> Opening(v)) /\ Current(v)' = Current(v)
        /\ \A v \in Users : ust'[v] = ust[v]
    BY <2>1 DEF regVars, In, Opening, Current
  <2>7. QED BY <2>1, <2>4, <2>5, <2>6 DEF QuietInv
<1>2. QED BY <1>1, QuietUse, QuietPass DEF Next


\* Unless notifications overlapped, one actor notifies at a time.
AloneInv ==
  ~overlapped =>
    \A a, b \in Actors : Notifying(a) /\ Notifying(b) => a = b

\* Users and the threads that notify are different actors.
LEMMA ActorKinds ==
  /\ \A u \in Users : u \in Actors /\ u \notin Threads
  /\ \A t \in Threads : t \in Actors /\ t \notin Users
BY PluginsAssumption DEF Actors, Threads, Droppers

\* A step is one actor's: nobody else starts to notify, and if it does, others that
\* do are an overlap.
LEMMA OneActor ==
  ASSUME RegType, PassType, EventType, [Next]_vars
  PROVE  /\ overlapped => overlapped'
         /\ \/ \A b \in Actors : Notifying(b)' => Notifying(b)
            \/ \E a \in Actors : /\ ~Alone(a) => overlapped'
                                 /\ \A b \in Actors \ {a} : Notifying(b)' => Notifying(b)
<1> USE ActorKinds
<1>1. ASSUME NEW u \in Users, UseNext(u)
      PROVE  /\ overlapped => overlapped'
             /\ \/ \A b \in Actors : Notifying(b)' => Notifying(b)
                \/ /\ ~Alone(u) => overlapped'
                   /\ \A b \in Actors \ {u} : Notifying(b)' => Notifying(b)
  <2>1. overlapped' = overlapped \/ UseJoin(u)
    BY <1>1 DEF UseNext, OnlyUse, errVars, UseRefused, UseReserve, UseInitialize,
       UseChain, UseInitFails, UseSilent, UseTell, UseHook, UseHookFails, UseUndo
  <2>2. UseJoin(u) => (overlapped' <=> (overlapped \/ ~Alone(u)))
    BY Zenon DEF UseJoin
  <2>3. /\ pst' = pst
        /\ \A v \in Users \ {u} : ust'[v] = ust[v]
    BY <1>1, NextPluginType
       DEF UseNext, UserGoto, OnlyUse, passVars, UseRefused, UseReserve,
           UseInitialize, UseChain, UseInitFails, UseJoin, UseSilent, UseTell,
           UseHook, UseHookFails, UseUndo, RegType
  <2>4. \A b \in Actors \ {u} : emitting'[b] = emitting[b]
    BY <1>1 DEF UseNext, OnlyUse, eventVars, UseRefused, UseReserve,
           UseInitialize, UseChain, UseInitFails, UseJoin, UseSilent, UseTell,
           UseHook, UseHookFails, UseUndo, CallHook, EventType
  <2>5. \A b \in Actors \ {u} : Notifying(b)' <=> Notifying(b)
    BY <2>3, <2>4 DEF Notifying, Actors
  <2>6. ~UseJoin(u) => (Notifying(u)' => Notifying(u))
    BY <1>1, NextPluginType
       DEF UseNext, UserGoto, OnlyUse, eventVars, UseRefused, UseReserve,
           UseInitialize, UseChain, UseInitFails, UseSilent, UseTell, UseHook,
           UseHookFails, UseUndo, CallHook, NextPlugin, EventType, RegType, Notifying
  <2>7. QED BY <2>1, <2>2, <2>5, <2>6
<1>2. ASSUME NEW t \in Threads, PassNext(t)
      PROVE  overlapped' = overlapped /\ \A b \in Actors : Notifying(b)' => Notifying(b)
  <2>1. overlapped' = overlapped /\ ust' = ust
    BY <1>2 DEF PassNext, Snapshot, Notify, NotifyFails, Notified, errVars, regVars
  <2>2. \A b \in Actors \ {t} : Notifying(b)' => Notifying(b)
    BY <1>2, <2>1 DEF PassNext, PassGoto, Snapshot, Notify, NotifyFails, Notified,
       eventVars, CallHook, EventType, PassType, Notifying, Actors
  <2>3. Notifying(t)
    BY <1>2 DEF PassNext, PassGoto, Snapshot, Notify, NotifyFails, Notified, Notifying
  <2>4. QED BY <2>1, <2>2, <2>3
<1>3. ASSUME NEW t \in Threads, (t \in Droppers /\ Drop(t)) \/ (t = "reconnect" /\ Restore)
      PROVE  /\ overlapped => overlapped'
             /\ ~Alone(t) => overlapped'
             /\ \A b \in Actors \ {t} : Notifying(b)' => Notifying(b)
  <2>1. overlapped' <=> (overlapped \/ ~Alone(t))
    BY <1>3, Zenon DEF Drop, Restore
  <2>2. \A b \in Actors \ {t} : Notifying(b)' => Notifying(b)
    BY <1>3 DEF Drop, Restore, PassGoto, regVars, eventVars, PassType, Notifying, Actors
  <2>3. QED BY <2>1, <2>2, Zenon
<1>4. CASE (\E a \in Actors : Emit(a)) \/ SetInterceptor \/ Tick \/ UNCHANGED vars
  <2>1. overlapped' = overlapped /\ \A b \in Actors : Notifying(b)' => Notifying(b)
    BY <1>4 DEF Emit, SetInterceptor, Tick, vars, regVars, passVars, eventVars, errVars,
                EventType, Notifying
  <2>2. QED BY <2>1
<1>5. "reconnect" \in Threads /\ Droppers \subseteq Threads
  BY DEF Threads
<1>6. CASE \E u \in Users : UseNext(u)
  BY <1>1, <1>6
<1>7. CASE \E t \in Threads : PassNext(t)
  BY <1>2, <1>7
<1>8. CASE (\E t \in Droppers : Drop(t)) \/ Restore
  <2>1. PICK t \in Threads : (t \in Droppers /\ Drop(t)) \/ (t = "reconnect" /\ Restore)
    BY <1>5, <1>8
  <2>2. QED BY <1>3, <2>1
<1>9. QED BY <1>4, <1>6, <1>7, <1>8 DEF Next

\* Every step keeps the notifiers apart.
LEMMA AloneSteps ==
  ASSUME RegType, PassType, EventType, AloneInv, [Next]_vars
  PROVE  AloneInv'
<1>1. SUFFICES ASSUME ~overlapped', NEW a \in Actors, NEW b \in Actors,
                      Notifying(a)', Notifying(b)', a # b
               PROVE  FALSE
  BY DEF AloneInv
<1>2. ~overlapped /\ ~(Notifying(a) /\ Notifying(b))
  BY <1>1, OneActor DEF AloneInv
<1>3. PICK c \in Actors : /\ Alone(c)
                          /\ \A d \in Actors \ {c} : Notifying(d)' => Notifying(d)
  BY <1>1, <1>2, OneActor
<1>4. QED BY <1>1, <1>2, <1>3 DEF Alone


\* What is being told is how the connection is.
NewsInv ==
  ~overlapped =>
    /\ \A t \in Threads : pst[t] # "idle" => (connected <=> t = "reconnect")
    /\ \A u \in Users : ust[u] = "hook" => connected

\* Every step keeps it: the connection changes only when nobody else notifies.
LEMMA NewsSteps ==
  ASSUME RegType, PassType, EventType, NewsInv, [Next]_vars
  PROVE  NewsInv'
<1> SUFFICES ASSUME ~overlapped' PROVE NewsInv'
  BY DEF NewsInv
<1>1. ~overlapped
  BY OneActor
<1>2. NewsInv!2
  BY <1>1 DEF NewsInv
<1>3. CASE connected' = connected /\ pst' = pst
  <2>1. ASSUME NEW u \in Users, ust'[u] = "hook" PROVE connected
    <3>1. ust[u] = "hook" \/ MustTell(u)
      <4>1. CASE \E v \in Users : UseNext(v)
        BY <2>1, <4>1, NextPluginType
           DEF UseNext, UserGoto, UseRefused, UseReserve, UseInitialize, UseChain,
               UseInitFails, UseJoin, UseSilent, UseTell, UseHook, UseHookFails,
               UseUndo, RegType
      <4>2. CASE Elsewhere
        BY <2>1, <4>2, ElsewhereRegistry DEF regVars
      <4>3. QED BY <4>1, <4>2, NextSteps
    <3>2. QED BY <1>2, <3>1 DEF MustTell
  <2>2. QED BY <1>2, <1>3, <2>1 DEF NewsInv
<1>4. ASSUME NEW t \in Threads, PassNext(t) PROVE NewsInv'
  <2>1. connected' = connected /\ ust' = ust /\ \A s \in Threads \ {t} : pst'[s] = pst[s]
    BY <1>4 DEF PassNext, PassGoto, Snapshot, Notify, NotifyFails, Notified, linkVars,
       regVars, PassType
  <2>2. pst[t] # "idle"
    BY <1>4 DEF PassNext, PassGoto, Snapshot, Notify, NotifyFails, Notified
  <2>3. QED BY <1>2, <2>1, <2>2 DEF NewsInv
<1>5. ASSUME NEW t \in Threads,
             (t \in Droppers /\ Drop(t)) \/ (t = "reconnect" /\ Restore)
      PROVE  NewsInv'
  <2>1. Alone(t)
    <3>1. overlapped' <=> (overlapped \/ ~Alone(t))
      BY <1>5, Zenon DEF Drop, Restore
    <3>2. QED BY <3>1
  <2>2. \A s \in Threads \ {t} : pst[s] = "idle"
    BY <2>1, ActorKinds DEF Alone, Notifying
  <2>3. \A u \in Users : ust[u] # "hook"
    BY <2>1, ActorKinds DEF Alone, Notifying
  <2>4. ust' = ust /\ \A s \in Threads \ {t} : pst'[s] = pst[s]
    BY <1>5 DEF Drop, Restore, PassGoto, regVars, PassType
  <2>5. connected' <=> t = "reconnect"
    BY <1>5 DEF Drop, Restore, Droppers
  <2>6. QED BY <2>2, <2>3, <2>4, <2>5 DEF NewsInv
<1>6. CASE ~(connected' = connected /\ pst' = pst)
  <2>1. ~\E u \in Users : UseNext(u)
    BY <1>6, QuietSteps DEF linkVars, passVars
  <2>2. ~((\E a \in Actors : Emit(a)) \/ SetInterceptor \/ Tick \/ UNCHANGED vars)
    BY <1>6 DEF Emit, SetInterceptor, Tick, vars, linkVars, passVars
  <2>3. "reconnect" \in Threads /\ Droppers \subseteq Threads
    BY DEF Threads
  <2>4. QED BY <1>4, <1>5, <2>1, <2>2, <2>3 DEF Next
<1>7. QED BY <1>3, <1>6

\* A plugin whose first call is still to be made has been told nothing.
FreshInv ==
  ~overlapped /\ ~hookErr => \A u \in Users : Opening(u) => told[Current(u)] = "none"

\* Every step keeps it: only an actor that notifies tells a plugin anything.
LEMMA FreshSteps ==
  ASSUME RegType, PassType, EventType, OrderInv, QuietInv, AloneInv, FreshInv,
         [Next]_vars
  PROVE  FreshInv'
<1> SUFFICES ASSUME ~overlapped', ~hookErr', NEW u \in Users, Opening(u)'
             PROVE  (told[Current(u)] = "none")'
  BY DEF FreshInv
<1>1. ~overlapped /\ ~hookErr
  <2>1. hookErr => hookErr'
    <3>1. CASE \E v \in Users : UseNext(v)
      BY <3>1, ZenonT(60)
         DEF UseNext, OnlyUse, errVars, UseRefused, UseReserve, UseInitialize,
             UseChain, UseInitFails, UseJoin, UseSilent, UseTell, UseHook,
             UseHookFails, UseUndo
    <3>2. CASE Elsewhere
      BY <3>2, Zenon DEF Elsewhere, PassNext, Snapshot, Notify, NotifyFails, Notified,
         Drop, Emit, Restore, SetInterceptor, Tick, vars, errVars
    <3>3. QED BY <3>1, <3>2, NextSteps
  <2>2. QED BY <2>1, OneActor
<1>2. \A v \in Users : Opening(v) => told[Current(v)] = "none"
  BY <1>1 DEF FreshInv
<1>3. \A a, b \in Actors : Notifying(a) /\ Notifying(b) => a = b
  BY <1>1 DEF AloneInv
<1>4. \A v \in Users : Opening(v) => Notifying(v)
  BY ActorKinds DEF Opening, Notifying
<1>5. CASE told' = told /\ Opening(u) /\ Current(u)' = Current(u)
  BY <1>2, <1>5
<1>6. CASE UseJoin(u)
  <2>1. Current(u)' = Current(u) /\ told' = told /\ Current(u) \in Plugins
    BY <1>6, CurrentType DEF UseJoin, Current
  <2>2. Current(u) \notin In(order)
    BY <1>1, <1>6 DEF UseJoin, UserGoto, Early, OrderInv, QuietInv
  <2>3. QED BY <1>1, <2>1, <2>2 DEF QuietInv
<1>7. ASSUME UseNext(u), ~UseJoin(u)
      PROVE  told' = told /\ Opening(u) /\ Current(u)' = Current(u)
  BY <1>7, NextPluginType
     DEF UseNext, UserGoto, OnlyUse, UseRefused, UseReserve, UseInitialize, UseChain,
         UseInitFails, UseSilent, UseTell, UseHook, UseHookFails, UseUndo, RegType,
         Opening, Current
<1>8. ASSUME NEW v \in Users, v # u, UseNext(v)
      PROVE  told' = told /\ Opening(u) /\ Current(u)' = Current(u)
  <2>1. ust'[u] = ust[u] /\ at'[u] = at[u]
    BY <1>8, NextPluginType
       DEF UseNext, UserGoto, UseRefused, UseReserve, UseInitialize, UseChain,
           UseInitFails, UseJoin, UseSilent, UseTell, UseHook, UseHookFails, UseUndo,
           RegType
  <2>2. Opening(u) /\ Current(u)' = Current(u)
    BY <2>1 DEF Opening, Current
  <2>3. ~UseHook(v)
    <3>1. UseHook(v) => Opening(v)
      BY DEF UseHook, NextPlugin, Opening
    <3>2. QED BY <1>3, <1>4, <1>8, <2>2, <3>1, ActorKinds
  <2>4. QED BY <1>8, <2>2, <2>3, QuietSteps
<1>9. ASSUME Elsewhere PROVE told' = told /\ Opening(u) /\ Current(u)' = Current(u)
  <2>1. Opening(u) /\ Current(u)' = Current(u)
    BY <1>9, ElsewhereRegistry DEF regVars, Opening, Current
  <2>2. ASSUME NEW t \in Threads, Notify(t) PROVE FALSE
    <3>1. Notifying(t) /\ Notifying(u)
      BY <1>4, <2>1, <2>2 DEF Notify, PassGoto, Notifying
    <3>2. QED BY <1>3, <3>1, ActorKinds
  <2>3. QED BY <1>9, <2>1, <2>2 DEF Elsewhere, PassNext, Snapshot, NotifyFails,
                Notified, Drop, Emit, Restore, SetInterceptor, Tick, vars
<1>10. QED BY <1>5, <1>6, <1>7, <1>8, <1>9, NextSteps


\* Somebody is yet to tell p how the connection is.
Pending(p) ==
  \/ \E t \in Threads : \/ pst[t] = "snapshot"
                        \/ pst[t] = "calls" /\ p \in In(todo[t])
  \/ \E u \in Users : Opening(u) /\ Current(u) = p

\* A registered plugin knows whether the client is connected, or is yet to be told.
ToldInv ==
  ~overlapped /\ ~hookErr =>
    \A p \in In(order) \cap Hooked : Pending(p) \/ (told[p] = "up" <=> connected)

\* The premises never come back once they are gone.
LEMMA NoRelapse == ASSUME RegType, PassType, EventType, [Next]_vars
                   PROVE  (overlapped => overlapped') /\ (hookErr => hookErr')
<1>1. CASE \E v \in Users : UseNext(v)
  <2>1. hookErr => hookErr'
    BY <1>1, ZenonT(60)
       DEF UseNext, OnlyUse, errVars, UseRefused, UseReserve, UseInitialize,
           UseChain, UseInitFails, UseJoin, UseSilent, UseTell, UseHook,
           UseHookFails, UseUndo
  <2>2. QED BY <2>1, OneActor
<1>2. CASE Elsewhere
  <2>1. hookErr => hookErr'
    BY <1>2, Zenon DEF Elsewhere, PassNext, Snapshot, Notify, NotifyFails, Notified,
       Drop, Emit, Restore, SetInterceptor, Tick, vars, errVars
  <2>2. QED BY <2>1, OneActor
<1>3. QED BY <1>1, <1>2, NextSteps

\* A step of Use keeps it.
LEMMA ToldUse ==
  ASSUME RegType, PassType, EventType, QuietInv, AloneInv, NewsInv, FreshInv, ToldInv,
         NEW u \in Users, UseNext(u)
  PROVE  ToldInv'
<1>1. [Next]_vars
  BY DEF Next
<1> SUFFICES ASSUME ~overlapped', ~hookErr', NEW p \in In(order)' \cap Hooked
             PROVE  Pending(p)' \/ (told'[p] = "up" <=> connected')
  BY DEF ToldInv
<1>2. ~overlapped /\ ~hookErr
  BY <1>1, NoRelapse
<1>3. p \in In(order) => Pending(p) \/ (told[p] = "up" <=> connected)
  BY <1>2 DEF ToldInv
<1>4. UNCHANGED <<connected, pst, todo>>
  BY QuietSteps DEF linkVars, passVars
<1>5. \A v \in Users \ {u} : ust'[v] = ust[v] /\ at'[v] = at[v]
  BY NextPluginType
     DEF UseNext, UserGoto, UseRefused, UseReserve, UseInitialize, UseChain,
         UseInitFails, UseJoin, UseSilent, UseTell, UseHook, UseHookFails, UseUndo,
         RegType
<1>6. Pending(p) => Pending(p)' \/ (Opening(u) /\ Current(u) = p)
  BY <1>4, <1>5 DEF Pending, Opening, Current, In
<1>7. ~UseUndo(u) /\ ~UseHookFails(u)
  <2>1. UseUndo(u) => ust[u] = "undo"
    BY DEF UseUndo, UserGoto
  <2>2. UseHookFails(u) => hookErr'
    BY DEF UseHookFails
  <2>3. QED BY <1>2, <2>1, <2>2 DEF QuietInv
<1>8. CASE UseJoin(u)
  <2>1. Opening(u)' /\ ~Opening(u) /\ Current(u)' = Current(u) /\ told' = told
    BY <1>8 DEF UseJoin, UserGoto, Opening, Current, RegType
  <2>2. In(order)' = In(order) \cup {Current(u)}
    BY <1>8, CurrentType, InAppend DEF UseJoin, RegType, In
  <2>3. CASE p = Current(u)
    BY <2>1, <2>3 DEF Pending
  <2>4. CASE p \in In(order)
    BY <1>3, <1>4, <1>6, <2>1, <2>4
  <2>5. QED BY <2>2, <2>3, <2>4
<1>9. CASE ~UseJoin(u)
  <2>1. In(order)' = In(order)
    BY <1>7, <1>9 DEF UseNext, UseRefused, UseReserve, UseInitialize, UseChain,
       UseInitFails, UseSilent, UseTell, UseHook, In
  <2>2. CASE UseSilent(u) /\ p = Current(u)
    <3>1. told' = told /\ told[p] = "none" /\ ~connected
      BY <1>2, <2>2 DEF UseSilent, NextPlugin, OnlyUse, Opening, FreshInv, MustTell
    <3>2. QED BY <1>4, <3>1
  <2>3. CASE UseHook(u) /\ p = Current(u)
    <3>1. connected
      BY <1>2, <2>3 DEF UseHook, NextPlugin, NewsInv
    <3>2. told'[p] = "up"
      BY <2>3, CurrentType DEF UseHook, CallHook, EventType
    <3>3. QED BY <1>4, <3>1, <3>2
  <2>4. CASE ~((UseSilent(u) \/ UseHook(u)) /\ p = Current(u))
    <3>1. told'[p] = told[p]
      <4>1. CASE Quiet(u)
        BY <4>1, QuietSteps
      <4>2. CASE UseHook(u)
        BY <2>4, <4>2, PluginsAssumption DEF UseHook, CallHook, EventType
      <4>3. QED BY <4>1, <4>2, QuietSteps
    <3>2. Opening(u) /\ Current(u) = p => Opening(u)' /\ Current(u)' = p
      BY <1>7, <1>9, <2>4
         DEF UseNext, UserGoto, UseRefused, UseReserve, UseInitialize, UseChain,
             UseInitFails, UseTell, Opening, Current, RegType
    <3>3. Opening(u)' /\ Current(u)' = p => Pending(p)'
      BY DEF Pending
    <3>4. QED BY <1>3, <1>4, <1>6, <2>1, <3>1, <3>2, <3>3
  <2>5. QED BY <2>2, <2>3, <2>4
<1>10. QED BY <1>8, <1>9

\* A notification keeps it.
LEMMA ToldPass ==
  ASSUME RegType, PassType, EventType, AloneInv, NewsInv, ToldInv,
         NEW t \in Threads, PassNext(t)
  PROVE  ToldInv'
<1>1. [Next]_vars
  BY DEF Next
<1> SUFFICES ASSUME ~overlapped', ~hookErr', NEW p \in In(order)' \cap Hooked
             PROVE  Pending(p)' \/ (told'[p] = "up" <=> connected')
  BY DEF ToldInv
<1>2. ~overlapped /\ ~hookErr
  BY <1>1, NoRelapse
<1>3. UNCHANGED regVars /\ connected' = connected
  BY DEF PassNext, Snapshot, Notify, NotifyFails, Notified, linkVars
<1>4. p \in In(order)
  BY <1>3 DEF regVars, In
<1>5. Pending(p) \/ (told[p] = "up" <=> connected)
  BY <1>2, <1>4 DEF ToldInv
<1>6. Notifying(t) /\ pst[t] # "idle"
  BY DEF PassNext, PassGoto, Snapshot, Notify, NotifyFails, Notified, Notifying
<1>7. \A b \in Actors \ {t} : ~Notifying(b)
  BY <1>2, <1>6, ActorKinds DEF AloneInv
<1>8. /\ \A s \in Threads \ {t} : pst[s] = "idle"
      /\ \A u \in Users : ~Opening(u)
  BY <1>7, ActorKinds DEF Notifying, Opening
<1>9. connected <=> t = "reconnect"
  BY <1>2, <1>6 DEF NewsInv
<1>10. pst[t] = "calls" /\ p \notin In(todo[t]) => (told[p] = "up" <=> connected)
  BY <1>5, <1>8 DEF Pending
<1>11. CASE Snapshot(t)
  <2>1. pst'[t] = "calls" /\ In(todo'[t]) = In(order)
    BY <1>11 DEF Snapshot, PassGoto, PassType
  <2>2. QED BY <1>4, <2>1 DEF Pending, In
<1>12. CASE Notify(t)
  <2>1. /\ pst'[t] = "calls" /\ todo'[t] = Tail(todo[t])
        /\ In(todo[t]) = In(Tail(todo[t])) \cup {Head(todo[t])}
    BY <1>12, InTail DEF Notify, PassGoto, PassType
  <2>2. CASE p \in In(Tail(todo[t]))
    BY <2>1, <2>2 DEF Pending, In
  <2>3. CASE p = Head(todo[t])
    <3>1. told'[p] = News(t)
      BY <1>12, <2>3, PluginsAssumption DEF Notify, CallHook, EventType
    <3>2. QED BY <1>3, <1>9, <3>1 DEF News
  <2>4. CASE p \notin In(todo[t])
    <3>1. told'[p] = told[p] /\ pst[t] = "calls"
      BY <1>12, <2>1, <2>4, PluginsAssumption
         DEF Notify, PassGoto, CallHook, EventType
    <3>2. QED BY <1>3, <1>10, <2>4, <3>1
  <2>5. QED BY <2>1, <2>2, <2>3, <2>4
<1>13. CASE NotifyFails(t)
  BY <1>13 DEF NotifyFails
<1>14. CASE Notified(t)
  <2>1. told' = told /\ pst[t] = "calls" /\ In(todo[t]) = {}
    BY <1>14 DEF Notified, PassGoto, In
  <2>2. QED BY <1>3, <1>10, <2>1
<1>15. QED BY <1>11, <1>12, <1>13, <1>14 DEF PassNext

\* Every step keeps it.
LEMMA ToldSteps ==
  ASSUME RegType, PassType, EventType, QuietInv, AloneInv, NewsInv, FreshInv, ToldInv,
         [Next]_vars
  PROVE  ToldInv'
<1>1. CASE (\E a \in Actors : Emit(a)) \/ SetInterceptor \/ Tick \/ UNCHANGED vars
  <2>1. UNCHANGED <<regVars, passVars, told, connected, overlapped, hookErr>>
    BY <1>1 DEF Emit, SetInterceptor, Tick, vars, linkVars, errVars
  <2>2. /\ In(order)' = In(order) /\ \A p : Pending(p)' <=> Pending(p)
        /\ UNCHANGED <<told, connected, overlapped, hookErr>>
    BY <2>1 DEF regVars, passVars, In, Pending, Opening, Current
  <2>3. QED BY <2>2, Zenon DEF ToldInv
<1>2. CASE (\E t \in Droppers : Drop(t)) \/ Restore
  <2>1. \E t \in Threads : pst'[t] = "snapshot"
    BY <1>2 DEF Drop, Restore, PassGoto, PassType, Threads
  <2>2. \A p : Pending(p)'
    BY <2>1 DEF Pending
  <2>3. QED BY <2>2 DEF ToldInv
<1>3. QED BY <1>1, <1>2, ToldUse, ToldPass DEF Next


\* The watchdog's last event, or the one about to be emitted, is its state.
EventInv ==
  ~overlapped =>
    /\ \A a \in Actors : emitting[a] # "none" => emitting[a] = told[Watchdog]
    /\ last = told[Watchdog] \/ \E a \in Actors : emitting[a] # "none"

\* A hook called by the only actor that notifies keeps it.
LEMMA EventHook ==
  ASSUME EventType, EventInv, ~overlapped, NEW a \in Actors, NEW p \in Plugins,
         NEW how \in {"up", "down"}, CallHook(a, p, how),
         \A b \in Actors \ {a} : ~Notifying(b)
  PROVE  EventInv'
<1>1. Watchdog \in Plugins
  BY PluginsAssumption
<1>2. \A b \in Actors : emitting[b] = "none"
  BY DEF CallHook, Notifying, EventType
<1>3. last = told[Watchdog] /\ last' = last
  BY <1>2 DEF EventInv, CallHook
<1>4. CASE p = Watchdog
  <2>1. /\ told'[Watchdog] = how /\ emitting'[a] = how
        /\ \A b \in Actors \ {a} : emitting'[b] = "none"
    BY <1>1, <1>2, <1>4 DEF CallHook, EventType
  <2>2. QED BY <2>1 DEF EventInv
<1>5. CASE p # Watchdog
  <2>1. told'[Watchdog] = told[Watchdog] /\ emitting' = emitting
    BY <1>1, <1>5 DEF CallHook, EventType
  <2>2. QED BY <1>2, <1>3, <2>1 DEF EventInv
<1>6. QED BY <1>4, <1>5

\* Every step keeps it.
LEMMA EventSteps ==
  ASSUME RegType, PassType, EventType, AloneInv, EventInv, [Next]_vars
  PROVE  EventInv'
<1> SUFFICES ASSUME ~overlapped' PROVE EventInv'
  BY DEF EventInv
<1>1. ~overlapped
  BY OneActor
<1>2. \A a, b \in Actors : Notifying(a) /\ Notifying(b) => a = b
  BY <1>1 DEF AloneInv
<1>3. CASE UNCHANGED <<told, eventVars>>
  BY <1>1, <1>3 DEF EventInv, eventVars
<1>4. ASSUME NEW u \in Users, UseHook(u) PROVE EventInv'
  <2>1. Notifying(u) /\ CallHook(u, Current(u), "up")
    BY <1>4, ActorKinds DEF UseHook, NextPlugin, Notifying
  <2>2. QED BY <1>1, <1>2, <2>1, ActorKinds, CurrentType, EventHook
<1>5. ASSUME NEW t \in Threads, Notify(t), ~UNCHANGED <<told, eventVars>> PROVE EventInv'
  <2>1. Notifying(t) /\ CallHook(t, Head(todo[t]), News(t)) /\ todo[t] # <<>>
    BY <1>5, ActorKinds DEF Notify, PassGoto, Notifying
  <2>2. QED BY <1>1, <1>2, <2>1, ActorKinds, HeadType, NewsType, EventHook
<1>6. ASSUME NEW a \in Actors, Emit(a) PROVE EventInv'
  <2>1. /\ emitting[a] = told[Watchdog] /\ last' = emitting[a] /\ told' = told
        /\ \A b \in Actors \ {a} : emitting'[b] = emitting[b]
        /\ emitting'[a] = "none"
    BY <1>1, <1>6 DEF Emit, EventInv, EventType
  <2>2. QED BY <1>1, <2>1 DEF EventInv
<1>7. CASE \E u \in Users : UseNext(u)
  BY <1>3, <1>4, <1>7, QuietSteps
<1>8. CASE \E t \in Threads : PassNext(t)
  BY <1>3, <1>5, <1>8 DEF PassNext, Snapshot, NotifyFails, Notified
<1>9. CASE \/ \E t \in Droppers : Drop(t)
           \/ Restore \/ SetInterceptor \/ Tick \/ UNCHANGED vars
  BY <1>3, <1>9 DEF Drop, Restore, SetInterceptor, Tick, vars
<1>10. QED BY <1>6, <1>7, <1>8, <1>9 DEF Next

\* What is known, with what it rests on.
KnownInv == /\ TypeInv /\ OrderInv /\ QuietInv /\ AloneInv /\ NewsInv /\ FreshInv
            /\ ToldInv /\ EventInv

\* It is an invariant.
LEMMA KnownInvariant == Spec => []KnownInv
<1>1. Init => QuietInv /\ AloneInv /\ NewsInv /\ FreshInv /\ ToldInv /\ EventInv
  <2>1. SUFFICES ASSUME Init
                 PROVE  QuietInv /\ AloneInv /\ NewsInv /\ FreshInv /\ ToldInv /\ EventInv
    OBVIOUS
  <2>2. /\ \A a \in Actors : ~Notifying(a)
        /\ \A u \in Users : ~Opening(u)
        /\ \A t \in Threads : pst[t] = "idle" /\ In(todo[t]) = {}
        /\ In(order) = {} /\ ~mixup
    BY <2>1 DEF Init, Actors, Notifying, Opening, In
  <2>3. /\ \A p \in Plugins : told[p] = "none"
        /\ \A u \in Users : ust[u] = "check"
        /\ last = "none" /\ Watchdog \in Plugins
        /\ \A a \in Actors : emitting[a] = "none"
    BY <2>1, PluginsAssumption DEF Init
  <2>4. QuietInv
    BY <2>2, <2>3 DEF QuietInv
  <2>5. AloneInv /\ NewsInv /\ FreshInv /\ ToldInv
    BY <2>2, <2>3 DEF AloneInv, NewsInv, FreshInv, ToldInv
  <2>6. EventInv
    BY <2>3 DEF EventInv
  <2>7. QED BY <2>4, <2>5, <2>6
<1>2. /\ TypeInv /\ OrderInv
      /\ QuietInv /\ AloneInv /\ NewsInv /\ FreshInv /\ ToldInv /\ EventInv
      /\ [Next]_vars
      => (QuietInv /\ AloneInv /\ NewsInv /\ FreshInv /\ ToldInv /\ EventInv)'
  BY QuietKept, AloneSteps, NewsSteps, FreshSteps, ToldSteps, EventSteps DEF TypeInv
<1>3. RegistryInv => TypeInv /\ OrderInv
  BY DEF RegistryInv
<1>4. QED BY <1>1, <1>2, <1>3, RegistryInvariant, PTL DEF Spec, KnownInv

\* Use with its late look at the connection (plugin.go:62-76) and the notifications
\* (82-110, client.go:311-328, 506-519, 939-948): when all is done, none overlapped
\* another and no hook failed, every registered plugin, the watchdog and its last
\* event agree with the connection.
THEOREM PluginsKnow == Spec => []PluginsAgree
<1>1. KnownInv => PluginsAgree
  <2>1. SUFFICES ASSUME KnownInv, ~overlapped, ~hookErr,
                        \A a \in Actors : ~Notifying(a)
                 PROVE  /\ \A p \in In(order) \cap Hooked : (told[p] = "up") = connected
                        /\ Watchdog \in In(order) => last = told[Watchdog]
    BY DEF PluginsAgree
  <2>2. /\ \A a \in Actors : emitting[a] = "none"
        /\ \A t \in Threads : pst[t] = "idle"
        /\ \A u \in Users : ~Opening(u)
    BY <2>1, ActorKinds DEF Notifying, Opening
  <2>3. \A p \in In(order) \cap Hooked : told[p] = "up" <=> connected
    BY <2>1, <2>2 DEF KnownInv, ToldInv, Pending
  <2>4. connected \in BOOLEAN
    BY <2>1 DEF KnownInv, TypeInv, LinkType
  <2>5. last = told[Watchdog]
    BY <2>1, <2>2 DEF KnownInv, EventInv
  <2>6. QED BY <2>3, <2>4, <2>5
<1>2. QED BY <1>1, KnownInvariant, PTL
================================================================================
