--------------------------- MODULE ConnectionPool ---------------------------
(***************************************************************************)
(* CockroachPool (src/adapters/cockroach_pool.rs): a semaphore, a mutexed  *)
(* stack of idle connections, an atomic state word per connection, four    *)
(* atomic gauges, and one driver task per connection that notices when the *)
(* connection ends.  Tasks, drivers and the warm-up interleave between any *)
(* two atomic operations whose order can matter; what a caller does with a *)
(* connection it holds is left to the module that extends this one.        *)
(***************************************************************************)
EXTENDS Naturals, Sequences, FiniteSets

CONSTANTS
    Calls,      \* callers of acquire(), each for its own operation
    Conns,      \* the connections that can be opened in one behaviour
    Max,        \* max_connections
    Word,       \* the gauges are unsigned words: they wrap at Word
    NoConn

ASSUME PoolAssumption ==
    /\ Max \in Nat \ {0}
    /\ Word \in Nat /\ Word > Max + Cardinality(Calls)
    /\ NoConn \notin Conns
    /\ IsFiniteSet(Calls) /\ IsFiniteSet(Conns)

VARIABLES
    state,      \* PooledClient.state of each connection
    broken,     \* connections whose protocol connection has ended
    driver,     \* each driver's position in close_connection
    available,  \* the stack of idle connections
    lock,       \* the call that holds the mutex over the stack
    permits,    \* free permits of the semaphore
    gauge,      \* idle, in_use, open and waiters
    warm,       \* prewarm's position, connection and count
    at,         \* each call's position in the pool
    conn        \* the connection each call holds

poolVars == <<state, broken, driver, available, lock, permits, gauge, warm,
              at, conn>>

NoCall == "no call"

PoolTypeOK ==
    /\ state \in [Conns -> {"none", "checked_out", "idle", "closed"}]
    /\ broken \subseteq Conns
    /\ driver \in [Conns -> {"none", "running", "ended", "count_open",
                             "count_open_idle", "count_idle", "done"}]
    /\ available \in Seq(Conns)
    /\ lock \in Calls \cup {NoCall}
    /\ permits \in 0..Max
    /\ gauge \in [{"idle", "in_use", "open", "waiters"} -> 0..(Word - 1)]
    /\ warm \in [step : {"open", "store", "count", "push", "ready", "failed"},
                 conn : Conns \cup {NoConn}, opened : 0..Max]
    /\ at \in [Calls -> {"out", "waiting", "permitted", "popped", "opening",
                         "held", "count_idle", "push", "count_open", "release"}]
    /\ conn \in [Calls -> Conns \cup {NoConn}]

PoolInit ==
    /\ state = [c \in Conns |-> "none"]
    /\ broken = {}
    /\ driver = [c \in Conns |-> "none"]
    /\ available = <<>>
    /\ lock = NoCall
    /\ permits = Max
    /\ gauge = [g \in {"idle", "in_use", "open", "waiters"} |-> 0]
    /\ warm = [step |-> "open", conn |-> NoConn, opened |-> 0]
    /\ at = [t \in Calls |-> "out"]
    /\ conn = [t \in Calls |-> NoConn]

Inc(g) == [gauge EXCEPT ![g] = (@ + 1) % Word]
Dec(g) == [gauge EXCEPT ![g] = (@ + Word - 1) % Word]

Goto(t, where) == at' = [at EXCEPT ![t] = where]

-----------------------------------------------------------------------------
(* register_connection: a new connection and its driver. *)

Register(c) ==
    /\ state[c] = "none"
    /\ state' = [state EXCEPT ![c] = "checked_out"]
    /\ driver' = [driver EXCEPT ![c] = "running"]
    /\ gauge' = Inc("open")

-----------------------------------------------------------------------------
(* prewarm: before the pool is handed out. *)

WarmOpen(c) ==
    /\ warm.step = "open" /\ warm.opened < Max
    /\ Register(c)
    /\ warm' = [warm EXCEPT !.step = "store", !.conn = c]
    /\ UNCHANGED <<broken, available, lock, permits, at, conn>>

\* connect() returns the error and the pool is dropped.
WarmFails ==
    /\ warm.step = "open" /\ warm.opened < Max
    /\ warm' = [warm EXCEPT !.step = "failed"]
    /\ UNCHANGED <<state, broken, driver, available, lock, permits, gauge, at,
                   conn>>

\* An unconditional store: the driver may have closed the connection already.
WarmStore ==
    /\ warm.step = "store"
    /\ state' = [state EXCEPT ![warm.conn] = "idle"]
    /\ warm' = [warm EXCEPT !.step = "count"]
    /\ UNCHANGED <<broken, driver, available, lock, permits, gauge, at, conn>>

WarmCount ==
    /\ warm.step = "count"
    /\ gauge' = Inc("idle")
    /\ warm' = [warm EXCEPT !.step = "push"]
    /\ UNCHANGED <<state, broken, driver, available, lock, permits, at, conn>>

WarmPush ==
    /\ warm.step = "push"
    /\ available' = Append(available, warm.conn)
    /\ warm' = [step |-> "open", conn |-> NoConn, opened |-> warm.opened + 1]
    /\ UNCHANGED <<state, broken, driver, lock, permits, gauge, at, conn>>

WarmDone ==
    /\ warm.step = "open" /\ warm.opened = Max
    /\ warm' = [warm EXCEPT !.step = "ready"]
    /\ UNCHANGED <<state, broken, driver, available, lock, permits, gauge, at,
                   conn>>

-----------------------------------------------------------------------------
(* acquire. *)

Enqueue(t) ==
    /\ warm.step = "ready"
    /\ at[t] = "out"
    /\ gauge' = Inc("waiters")
    /\ Goto(t, "waiting")
    /\ UNCHANGED <<state, broken, driver, available, lock, permits, warm, conn>>

\* Mutant: the permit is dropped as soon as it is acquired.
Permit_Dropped(t) ==
    /\ at[t] = "waiting"
    /\ permits > 0
    /\ gauge' = [gauge EXCEPT !["waiters"] = (@ + Word - 1) % Word,
                              !["in_use"] = (@ + 1) % Word]
    /\ Goto(t, "permitted")
    /\ UNCHANGED <<state, broken, driver, available, lock, permits, warm, conn>>

Permit(t) ==
    /\ at[t] = "waiting"
    /\ permits > 0
    /\ permits' = permits - 1
    /\ gauge' = [gauge EXCEPT !["waiters"] = (@ + Word - 1) % Word,
                              !["in_use"] = (@ + 1) % Word]
    /\ Goto(t, "permitted")
    /\ UNCHANGED <<state, broken, driver, available, lock, warm, conn>>

\* The acquisition deadline passes.
AcquireTimeout(t) ==
    /\ at[t] = "waiting"
    /\ gauge' = Dec("waiters")
    /\ Goto(t, "out")
    /\ UNCHANGED <<state, broken, driver, available, lock, permits, warm, conn>>

\* The caller drops the future at this await: nothing after it runs.
AbandonWait(t) ==
    /\ at[t] = "waiting"
    /\ Goto(t, "out")
    /\ UNCHANGED <<state, broken, driver, available, lock, permits, gauge, warm,
                   conn>>

\* Mutant: the connection is looked at and left on the stack.
Pop_Peeks(t) ==
    /\ at[t] = "permitted"
    /\ lock \in {NoCall, t}
    /\ available # <<>>
    /\ LET c == available[Len(available)] IN
       /\ state[c] = "idle"
       /\ state' = [state EXCEPT ![c] = "checked_out"]
       /\ conn' = [conn EXCEPT ![t] = c]
       /\ lock' = t
       /\ Goto(t, "popped")
    /\ UNCHANGED <<broken, driver, available, permits, gauge, warm>>

\* take_idle_connection pops one connection and tries to check it out.
Pop(t) ==
    /\ at[t] = "permitted"
    /\ lock \in {NoCall, t}
    /\ available # <<>>
    /\ LET c == available[Len(available)] IN
       /\ available' = SubSeq(available, 1, Len(available) - 1)
       /\ lock' = t
       /\ \/ /\ state[c] = "idle"
             /\ state' = [state EXCEPT ![c] = "checked_out"]
             /\ conn' = [conn EXCEPT ![t] = c]
             /\ Goto(t, "popped")
          \/ state[c] # "idle" /\ UNCHANGED <<state, conn, at>>
    /\ UNCHANGED <<broken, driver, permits, gauge, warm>>

\* The popped connection is used, unless its client is closed already.
Checkout(t) ==
    /\ at[t] = "popped"
    /\ conn[t] \notin broken
    /\ gauge' = Dec("idle")
    /\ lock' = NoCall
    /\ Goto(t, "held")
    /\ UNCHANGED <<state, broken, driver, available, permits, warm, conn>>

Discard(t) ==
    /\ at[t] = "popped"
    /\ conn[t] \in broken
    /\ state' = [state EXCEPT ![conn[t]] = "closed"]
    /\ gauge' = [gauge EXCEPT
                   !["idle"] = (@ + Word - 1) % Word,
                   !["open"] = IF state[conn[t]] = "closed" THEN @
                               ELSE (@ + Word - 1) % Word]
    /\ conn' = [conn EXCEPT ![t] = NoConn]
    /\ Goto(t, "permitted")
    /\ UNCHANGED <<broken, driver, available, lock, permits, warm>>

\* Mutant: the mutex is still held while a connection is opened.
NoneIdle_KeepsLock(t) ==
    /\ at[t] = "permitted"
    /\ lock \in {NoCall, t}
    /\ available = <<>>
    /\ lock' = t
    /\ Goto(t, "opening")
    /\ UNCHANGED <<state, broken, driver, available, permits, gauge, warm, conn>>

NoneIdle(t) ==
    /\ at[t] = "permitted"
    /\ lock \in {NoCall, t}
    /\ available = <<>>
    /\ lock' = NoCall
    /\ Goto(t, "opening")
    /\ UNCHANGED <<state, broken, driver, available, permits, gauge, warm, conn>>

Open(t, c) ==
    /\ at[t] = "opening"
    /\ Register(c)
    /\ conn' = [conn EXCEPT ![t] = c]
    /\ Goto(t, "held")
    /\ UNCHANGED <<broken, available, lock, permits, warm>>

OpenFails(t) ==
    /\ at[t] = "opening"
    /\ gauge' = Dec("in_use")
    /\ permits' = permits + 1
    /\ Goto(t, "out")
    /\ UNCHANGED <<state, broken, driver, available, lock, warm, conn>>

\* Dropped at the await of open_connection: the permit returns, no gauge does.
AbandonOpen(t) ==
    /\ at[t] = "opening"
    /\ permits' = permits + 1
    /\ Goto(t, "out")
    /\ UNCHANGED <<state, broken, driver, available, lock, gauge, warm, conn>>

-----------------------------------------------------------------------------
(* Drop for PooledConnection, its permit being dropped last. *)

\* The first atomic operations of drop, given the checkout's reusable flag.
Drop(t, reusable) ==
    /\ at[t] = "held"
    /\ gauge' = Dec("in_use")
    /\ LET c == conn[t] IN
       IF state[c] = "checked_out"
       THEN /\ state' = [state EXCEPT ![c] = IF reusable THEN "idle" ELSE "closed"]
            /\ Goto(t, IF reusable THEN "count_idle" ELSE "count_open")
       ELSE /\ UNCHANGED state
            /\ Goto(t, "release")
    /\ UNCHANGED <<broken, driver, available, lock, permits, warm, conn>>

\* Mutant: a returned connection is counted and not pushed.
CountIdle_Forgotten(t) ==
    /\ at[t] = "count_idle"
    /\ gauge' = Inc("idle")
    /\ Goto(t, "release")
    /\ UNCHANGED <<state, broken, driver, available, lock, permits, warm, conn>>

CountIdle(t) ==
    /\ at[t] = "count_idle"
    /\ gauge' = Inc("idle")
    /\ Goto(t, "push")
    /\ UNCHANGED <<state, broken, driver, available, lock, permits, warm, conn>>

Push(t) ==
    /\ at[t] = "push"
    /\ lock = NoCall
    /\ available' = Append(available, conn[t])
    /\ conn' = [conn EXCEPT ![t] = NoConn]
    /\ Goto(t, "release")
    /\ UNCHANGED <<state, broken, driver, lock, permits, gauge, warm>>

CountClosed(t) ==
    /\ at[t] = "count_open"
    /\ gauge' = Dec("open")
    /\ Goto(t, "release")
    /\ UNCHANGED <<state, broken, driver, available, lock, permits, warm, conn>>

ReturnPermit(t) ==
    /\ at[t] = "release"
    /\ permits' = permits + 1
    /\ conn' = [conn EXCEPT ![t] = NoConn]
    /\ Goto(t, "out")
    /\ UNCHANGED <<state, broken, driver, available, lock, gauge, warm>>

-----------------------------------------------------------------------------
(* The driver task of a connection. *)

\* The protocol connection ends; from now on is_closed() holds.
Break(c) ==
    /\ driver[c] = "running"
    /\ broken' = broken \cup {c}
    /\ driver' = [driver EXCEPT ![c] = "ended"]
    /\ UNCHANGED <<state, available, lock, permits, gauge, warm, at, conn>>

\* Mutant: an idle connection is closed like one in use.
CloseSwap_ForgetsIdle(c) ==
    /\ driver[c] = "ended"
    /\ state' = [state EXCEPT ![c] = "closed"]
    /\ driver' = [driver EXCEPT ![c] = IF state[c] = "closed" THEN "done"
                                       ELSE "count_open"]
    /\ UNCHANGED <<broken, available, lock, permits, gauge, warm, at, conn>>

\* close_connection: the swap, and then the gauges it owes.
CloseSwap(c) ==
    /\ driver[c] = "ended"
    /\ state' = [state EXCEPT ![c] = "closed"]
    /\ driver' = [driver EXCEPT ![c] =
                    CASE state[c] = "closed" -> "done"
                      [] state[c] = "idle" -> "count_open_idle"
                      [] OTHER -> "count_open"]
    /\ UNCHANGED <<broken, available, lock, permits, gauge, warm, at, conn>>

CloseCountOpen(c) ==
    /\ driver[c] \in {"count_open", "count_open_idle"}
    /\ gauge' = Dec("open")
    /\ driver' = [driver EXCEPT ![c] = IF @ = "count_open" THEN "done"
                                       ELSE "count_idle"]
    /\ UNCHANGED <<state, broken, available, lock, permits, warm, at, conn>>

CloseCountIdle(c) ==
    /\ driver[c] = "count_idle"
    /\ gauge' = Dec("idle")
    /\ driver' = [driver EXCEPT ![c] = "done"]
    /\ UNCHANGED <<state, broken, available, lock, permits, warm, at, conn>>

-----------------------------------------------------------------------------
Warm ==
    WarmFails \/ WarmStore \/ WarmCount \/ WarmPush \/ WarmDone
      \/ \E c \in Conns : WarmOpen(c)

\* Everything acquire and drop do on their own, once called.
PoolStep(t) ==
    \/ Permit(t) \/ Pop(t) \/ Checkout(t) \/ Discard(t) \/ NoneIdle(t)
    \/ CountIdle(t) \/ Push(t) \/ CountClosed(t) \/ ReturnPermit(t)
    \/ \E c \in Conns : Open(t, c)

Driver(c) == Break(c) \/ CloseSwap(c) \/ CloseCountOpen(c) \/ CloseCountIdle(c)
=============================================================================
