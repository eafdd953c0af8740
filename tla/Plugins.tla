-------------------------------- MODULE Plugins --------------------------------
(***************************************************************************)
(* The plugin manager (plugin.go) with the watchdog (plugin_watchdog.go) as  *)
(* one of its plugins and the coalescer's Initialize as another: goroutines  *)
(* that call Use, and those that notify the plugins of a lost or restored    *)
(* connection (client.go), of which Connection says when they run.           *)
(*                                                                          *)
(* The map from names to plugins is only ever asked whether a name is in it, *)
(* and is the set of names taken.  Hooks and Initialize run unlocked.        *)
(***************************************************************************)
EXTENDS Integers, Sequences

CONSTANTS
  Users,      \* goroutines that call Use
  Plugins, Names,
  NoName,     \* the empty name, and that of a nil plugin
  Name,       \* the name of each plugin
  Wants,      \* the plugins a user passes to Use
  Hooked,     \* plugins that are ConnectionPlugins
  Failing,    \* plugins whose Initialize or hooks may return an error
  Watchdog, Coalescer,   \* two of the plugins
  MaxDrops,   \* bound: times the connection is found lost
  MaxSets,    \* bound: calls of SetInterceptor
  MaxTime     \* bound: time

ASSUME PluginsAssumption ==
  /\ Name \in [Plugins -> Names \cup {NoName}] /\ NoName \notin Names
  /\ Wants \in [Users -> Seq(Plugins)] /\ \A u \in Users : Len(Wants[u]) > 0
  /\ Hooked \subseteq Plugins /\ Failing \subseteq Plugins
  /\ Watchdog \in Hooked \ Failing
  /\ {MaxDrops, MaxSets, MaxTime} \subseteq Nat
  /\ Users \cap {"listener", "caller", "reconnect"} = {}

VARIABLES
  taken, order,       \* pluginManager: keys of plugins, order
  ust, at,            \* user u: stage of its Use, index of the plugin it is at
  seen,               \* interceptor that Initialize of the coalescer read
  interceptor,        \* Client.interceptor, as the sequence of a chain
  connected,          \* Client.connected is closed
  listeners,          \* listenLoops that still read
  restorable,         \* somebody who marked the client down may reconnect now
  pst, todo,          \* notification t: stage, plugins it has yet to call
  told,               \* last hook called of each plugin
  emitting,           \* event an actor has to emit, between unlock and emit
  start, total,       \* watchdog: downtimeStart, totalDowntime
  now, drops, sets,   \* the clock, and what is bounded
  last,               \* history: last event that was offered
  toldDown, forgotten,\* history: time the watchdog was told down, and lost count of
  overlapped, hookErr,\* history: notifications overlapped, a hook failed
  mixup,              \* history: a failed plugin removed another one's entry
  raced               \* history: SetInterceptor came during Initialize

regVars   == <<taken, order, ust, at>>
chainVars == <<seen, interceptor, sets, raced>>
linkVars  == <<connected, listeners, restorable, drops>>
passVars  == <<pst, todo>>
dogVars   == <<start, total, forgotten>>
eventVars == <<emitting, last>>
timeVars  == <<now, toldDown>>
errVars   == <<overlapped, hookErr, mixup>>
vars == <<regVars, chainVars, linkVars, passVars, told, dogVars, eventVars,
          timeVars, errVars>>

Droppers == {"listener", "caller"}
Threads  == Droppers \cup {"reconnect"}
Actors   == Users \cup Threads
Never    == -1           \* the zero time.Time
UseStages  == {"check", "init", "chain", "join", "test", "hook", "undo",
               "done", "error"}
PassStages == {"idle", "snapshot", "calls"}
In(s)      == {s[i] : i \in 1..Len(s)}
Current(u) == Wants[u][at[u]]

Init ==
  /\ taken = {} /\ order = <<>>
  /\ ust = [u \in Users |-> "check"] /\ at = [u \in Users |-> 1]
  /\ seen = [u \in Users |-> <<>>] /\ interceptor = <<>>
  /\ connected = TRUE /\ listeners = 1 /\ restorable = FALSE
  /\ pst = [t \in Threads |-> "idle"] /\ todo = [t \in Threads |-> <<>>]
  /\ told = [p \in Plugins |-> "none"]
  /\ emitting = [a \in Actors |-> "none"] /\ last = "none"
  /\ start = Never /\ total = 0 /\ now = 0 /\ drops = 0 /\ sets = 0
  /\ toldDown = 0 /\ forgotten = 0
  /\ overlapped = FALSE /\ hookErr = FALSE /\ mixup = FALSE /\ raced = FALSE

--------------------------------------------------------------------------------
(* The watchdog and the other hooks *)

\* Faulty: the start of the downtime is kept.
OnConnectedKeepsStart ==
  /\ total' = IF start = Never THEN total ELSE total + (now - start)
  /\ UNCHANGED <<start, forgotten>>

OnConnected ==
  /\ total' = IF start = Never THEN total ELSE total + (now - start)
  /\ start' = Never
  /\ UNCHANGED forgotten

\* A second call without OnConnected in between starts the downtime again.
OnDisconnected ==
  /\ start' = now
  /\ forgotten' = IF start = Never THEN forgotten ELSE forgotten + (now - start)
  /\ UNCHANGED total

\* Actor a calls the hook of p that says how ("up" or "down") the client is.
CallHook(a, p, how) ==
  /\ emitting[a] = "none"
  /\ told' = [told EXCEPT ![p] = how]
  /\ emitting' = IF p = Watchdog THEN [emitting EXCEPT ![a] = how] ELSE emitting
  /\ IF p # Watchdog THEN UNCHANGED dogVars
     ELSE IF how = "up" THEN OnConnected ELSE OnDisconnected
  /\ UNCHANGED last

\* Stats: the downtime under way.
CurrentDowntime ==
  IF told[Watchdog] # "up" /\ start # Never THEN now - start ELSE 0

\* The event is offered to the channel after the lock is released: it does not
\* block, and is dropped when the buffer is full.
Emit(a) ==
  /\ emitting[a] # "none"
  /\ last' = emitting[a]
  /\ emitting' = [emitting EXCEPT ![a] = "none"]
  /\ UNCHANGED <<regVars, chainVars, linkVars, passVars, told, dogVars,
                 timeVars, errVars>>

--------------------------------------------------------------------------------
(* Use *)

UserGoto(u, from, to) ==
  emitting[u] = "none" /\ ust[u] = from /\ ust' = [ust EXCEPT ![u] = to]

\* Faulty: the index runs past the plugins of the call.
NextPluginOneMore(u, from) ==
  /\ emitting[u] = "none" /\ ust[u] = from
  /\ IF at[u] <= Len(Wants[u])
     THEN ust' = [ust EXCEPT ![u] = "check"] /\ at' = [at EXCEPT ![u] = @ + 1]
     ELSE ust' = [ust EXCEPT ![u] = "done"] /\ UNCHANGED at

\* The next plugin of the call, if there is one.
NextPlugin(u, from) ==
  /\ emitting[u] = "none" /\ ust[u] = from
  /\ IF at[u] < Len(Wants[u])
     THEN ust' = [ust EXCEPT ![u] = "check"] /\ at' = [at EXCEPT ![u] = @ + 1]
     ELSE ust' = [ust EXCEPT ![u] = "done"] /\ UNCHANGED at

OnlyUse == UNCHANGED <<chainVars, linkVars, passVars, told, dogVars, eventVars,
                       timeVars, errVars>>

\* Without a name, or with one that is taken or reserved.
UseRefused(u) ==
  /\ Name[Current(u)] \in taken \cup {NoName}
  /\ UserGoto(u, "check", "error")
  /\ UNCHANGED <<taken, order, at>> /\ OnlyUse

UseReserveLate(u) ==                     \* faulty: the name is not reserved
  /\ Name[Current(u)] \notin taken \cup {NoName}
  /\ UserGoto(u, "check", "init")
  /\ UNCHANGED <<taken, order, at>> /\ OnlyUse

UseReserve(u) ==
  /\ Name[Current(u)] \notin taken \cup {NoName}
  /\ UserGoto(u, "check", "init")
  /\ taken' = taken \cup {Name[Current(u)]}
  /\ UNCHANGED <<order, at>> /\ OnlyUse

\* Initialize; that of the coalescer first reads the interceptor.
UseInitialize(u) ==
  /\ UserGoto(u, "init", IF Current(u) = Coalescer THEN "chain" ELSE "join")
  /\ seen' = IF Current(u) = Coalescer THEN [seen EXCEPT ![u] = interceptor]
                                       ELSE seen
  /\ UNCHANGED <<taken, order, at, interceptor, sets, raced, linkVars, passVars,
                 told, dogVars, eventVars, timeVars, errVars>>

ChainedAlone(existing) == <<Coalescer>>           \* faulty: replaces it
Chained(existing) == <<Coalescer>> \o existing

\* ... and then sets the chain of itself and what it read.
UseChain(u) ==
  /\ UserGoto(u, "chain", "join")
  /\ interceptor' = Chained(seen[u])
  /\ seen' = [seen EXCEPT ![u] = <<>>]
  /\ raced' = (raced \/ seen[u] # interceptor)
  /\ UNCHANGED <<taken, order, at, sets, linkVars, passVars, told, dogVars,
                 eventVars, timeVars, errVars>>

UseInitFailsUndoes(u) ==       \* faulty: also removes an entry from order
  /\ Current(u) \in Failing
  /\ UserGoto(u, "init", "undo")
  /\ UNCHANGED <<taken, order, at>> /\ OnlyUse

UseInitFails(u) ==
  /\ Current(u) \in Failing
  /\ UserGoto(u, "init", "error")
  /\ taken' = taken \ {Name[Current(u)]}
  /\ UNCHANGED <<order, at>> /\ OnlyUse

\* Somebody is between a look at the connection and the hooks it leads to.
Notifying(a) ==
  \/ emitting[a] # "none"
  \/ IF a \in Threads THEN pst[a] # "idle" ELSE ust[a] \in {"test", "hook"}
Alone(a) == \A b \in Actors \ {a} : ~Notifying(b)

UseJoin(u) ==
  /\ UserGoto(u, "join", "test")
  /\ order' = Append(order, Current(u))
  /\ overlapped' = (overlapped \/ ~Alone(u))
  /\ UNCHANGED <<taken, at, chainVars, linkVars, passVars, told, dogVars,
                 eventVars, timeVars, hookErr, mixup>>

MustTellAlways(u) == Current(u) \in Hooked      \* faulty: connected or not
MustTell(u) == Current(u) \in Hooked /\ connected

UseSilent(u) ==
  /\ ~MustTell(u) /\ NextPlugin(u, "test")
  /\ UNCHANGED <<taken, order>> /\ OnlyUse

UseTell(u) ==
  /\ MustTell(u) /\ UserGoto(u, "test", "hook")
  /\ UNCHANGED <<taken, order, at>> /\ OnlyUse

UseHook(u) ==
  /\ NextPlugin(u, "hook")
  /\ CallHook(u, Current(u), "up")
  /\ UNCHANGED <<taken, order, chainVars, linkVars, passVars, timeVars, errVars>>

UseHookFails(u) ==
  /\ Current(u) \in Failing
  /\ UserGoto(u, "hook", "undo")
  /\ hookErr' = TRUE
  /\ UNCHANGED <<taken, order, at, chainVars, linkVars, passVars, told, dogVars,
                 eventVars, timeVars, overlapped, mixup>>

\* Faulty: the name stays taken.
UseUndoKeepsName(u) ==
  /\ UserGoto(u, "undo", "error")
  /\ order' = SubSeq(order, 1, Len(order) - 1)
  /\ mixup' = (mixup \/ order[Len(order)] # Current(u))
  /\ UNCHANGED <<taken, at, chainVars, linkVars, passVars, told, dogVars,
                 eventVars, timeVars, overlapped, hookErr>>

\* The name of the failed plugin and the last entry of order, whosever it is.
UseUndo(u) ==
  /\ UserGoto(u, "undo", "error")
  /\ taken' = taken \ {Name[Current(u)]}
  /\ order' = SubSeq(order, 1, Len(order) - 1)
  /\ mixup' = (mixup \/ order[Len(order)] # Current(u))
  /\ UNCHANGED <<at, chainVars, linkVars, passVars, told, dogVars, eventVars,
                 timeVars, overlapped, hookErr>>

--------------------------------------------------------------------------------
(* Notifications of the connection *)

PassGoto(t, from, to) ==
  emitting[t] = "none" /\ pst[t] = from /\ pst' = [pst EXCEPT ![t] = to]

\* A listener that fails, or a caller whose response timed out, marks the
\* client disconnected.
Drop(t) ==
  /\ PassGoto(t, "idle", "snapshot")
  /\ drops < MaxDrops /\ drops' = drops + 1
  /\ connected' = FALSE
  /\ IF t = "listener" THEN listeners > 0 /\ listeners' = listeners - 1
                       ELSE UNCHANGED listeners
  /\ overlapped' = (overlapped \/ ~Alone(t))
  /\ UNCHANGED <<restorable, regVars, chainVars, todo, told, dogVars, eventVars,
                 timeVars, hookErr, mixup>>

\* A reconnect succeeded: connected is signalled, a listener is started.
Restore ==
  /\ restorable /\ restorable' = FALSE
  /\ PassGoto("reconnect", "idle", "snapshot")
  /\ connected' = TRUE /\ listeners' = listeners + 1
  /\ overlapped' = (overlapped \/ ~Alone("reconnect"))
  /\ UNCHANGED <<drops, regVars, chainVars, todo, told, dogVars, eventVars,
                 timeVars, hookErr, mixup>>

\* The copy of order, under the manager's lock.
Snapshot(t) ==
  /\ PassGoto(t, "snapshot", "calls")
  /\ todo' = [todo EXCEPT ![t] = order]
  /\ UNCHANGED <<regVars, chainVars, linkVars, told, dogVars, eventVars,
                 timeVars, errVars>>

News(t) == IF t = "reconnect" THEN "up" ELSE "down"

\* notifyConnected and notifyDisconnected go on to the next plugin.
Notify(t) ==
  /\ PassGoto(t, "calls", "calls") /\ todo[t] # <<>>
  /\ todo' = [todo EXCEPT ![t] = Tail(@)]
  /\ IF Head(todo[t]) \in Hooked THEN CallHook(t, Head(todo[t]), News(t))
                                 ELSE UNCHANGED <<told, dogVars, eventVars>>
  /\ UNCHANGED <<regVars, chainVars, linkVars, timeVars, errVars>>

\* The first error of a hook ends the notification.
NotifyFails(t) ==
  /\ PassGoto(t, "calls", "calls") /\ todo[t] # <<>>
  /\ Head(todo[t]) \in Hooked \cap Failing
  /\ todo' = [todo EXCEPT ![t] = <<>>]
  /\ hookErr' = TRUE
  /\ UNCHANGED <<regVars, chainVars, linkVars, told, dogVars, eventVars,
                 timeVars, overlapped, mixup>>

Notified(t) ==
  /\ PassGoto(t, "calls", "idle") /\ todo[t] = <<>>
  /\ restorable' = (restorable \/ t \in Droppers)
  /\ UNCHANGED <<connected, listeners, drops, todo, regVars, chainVars, told,
                 dogVars, eventVars, timeVars, errVars>>

--------------------------------------------------------------------------------
SetInterceptor ==
  /\ sets < MaxSets /\ sets' = sets + 1
  /\ interceptor' = <<sets + 1>>
  /\ UNCHANGED <<seen, raced, regVars, linkVars, passVars, told, dogVars,
                 eventVars, timeVars, errVars>>

Tick ==
  /\ now < MaxTime /\ now' = now + 1
  /\ toldDown' = IF told[Watchdog] = "down" THEN toldDown + 1 ELSE toldDown
  /\ UNCHANGED <<regVars, chainVars, linkVars, passVars, told, dogVars,
                 eventVars, errVars>>

UseNext(u) ==
  \/ UseRefused(u) \/ UseReserve(u) \/ UseInitialize(u) \/ UseChain(u)
  \/ UseInitFails(u) \/ UseJoin(u) \/ UseSilent(u) \/ UseTell(u) \/ UseHook(u)
  \/ UseHookFails(u) \/ UseUndo(u)

PassNext(t) == Snapshot(t) \/ Notify(t) \/ NotifyFails(t) \/ Notified(t)

Next ==
  \/ \E u \in Users : UseNext(u)
  \/ \E t \in Threads : PassNext(t)
  \/ \E t \in Droppers : Drop(t)
  \/ \E a \in Actors : Emit(a)
  \/ Restore \/ SetInterceptor \/ Tick

Spec == Init /\ [][Next]_vars

--------------------------------------------------------------------------------
(* Correctness *)

TypeOK ==
  /\ taken \subseteq Names /\ order \in Seq(Plugins)
  /\ ust \in [Users -> UseStages]
  /\ at \in [Users -> Nat] /\ \A u \in Users : at[u] \in 1..Len(Wants[u])
  /\ connected \in BOOLEAN /\ listeners \in Nat /\ restorable \in BOOLEAN
  /\ pst \in [Threads -> PassStages] /\ todo \in [Threads -> Seq(Plugins)]
  /\ told \in [Plugins -> {"none", "up", "down"}]
  /\ emitting \in [Actors -> {"none", "up", "down"}]
  /\ last \in {"none", "up", "down"}
  /\ start \in Nat \cup {Never} /\ {total, now, toldDown, forgotten} \subseteq Nat
  /\ {overlapped, hookErr, mixup, raced} \subseteq BOOLEAN

\* From the reservation of its name to the end of its Use, or while it is
\* registered, no other Use gets past the check with a plugin of that name.
Registering == {"init", "chain", "join", "test", "hook", "undo"}
NameHeldByOne ==
  /\ \A u \in Users : ust[u] \in Registering => Name[Current(u)] \in taken
  /\ \A u, v \in Users : /\ {ust[u], ust[v]} \subseteq Registering
                         /\ Name[Current(u)] = Name[Current(v)]
                         => u = v

\* order[:len(order)-1] is never taken of an empty slice: every plugin about to
\* be removed has an entry of its own that nobody else removes.
Undoing == {u \in Users : ust[u] = "undo"}
RemovalInRange == Undoing # {} => order # <<>>

\* The plugins that are notified are those whose names are taken, each once,
\* unless the failure of one removed the entry of another (plugin.go:72).
RegistryConsistent ==
  ~mixup =>
    /\ \A i, j \in 1..Len(order) : Name[order[i]] = Name[order[j]] => i = j
    /\ taken = {Name[p] : p \in In(order)}
               \cup {Name[Current(u)] : u \in
                       {v \in Users : ust[v] \in {"init", "chain", "join"}}}

\* When everybody is done, nobody's notification overlapped another's and no
\* hook failed, every registered plugin and the last event know whether the
\* client is connected.
PluginsAgree ==
  (\A a \in Actors : ~Notifying(a)) /\ ~overlapped /\ ~hookErr =>
    /\ \A p \in In(order) \cap Hooked : (told[p] = "up") = connected
    /\ Watchdog \in In(order) => last = told[Watchdog]

\* The downtimes the watchdog adds up, with the current one, are the time since
\* it was told down, but for what a second OnDisconnected made it forget.
DowntimeAccounted == total + CurrentDowntime + forgotten = toldDown

\* The last interceptor that was set stays installed while the coalescer is
\* registered, unless it was set between the two halves of its Initialize.
InterceptorKept == sets > 0 => sets \in In(interceptor) \/ raced
================================================================================
