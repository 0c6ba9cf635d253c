---------------------- MODULE PooledTransactionsProofs ----------------------
(***************************************************************************)
(* Proofs about PooledTransactions over ConnectionPool, for any number of  *)
(* callers, connections and attempts and any size of the pool.             *)
(***************************************************************************)
EXTENDS PooledTransactions, FiniteSetTheorems, SequenceTheorems, TLAPS

\* The states a connection can be in while the call that has it is at a
\* position: its own step made it so, and only a driver may have closed it.
HeldState(p) ==
    CASE p \in {"popped", "held"}      -> {"checked_out", "closed"}
      [] p \in {"count_idle", "push"}  -> {"idle", "closed"}
      [] OTHER                         -> {"closed"}

\* A call has a connection from the pop to the push or the release.
CallPlace(t) ==
    /\ at[t] \in {"out", "waiting", "permitted", "opening"} => conn[t] = NoConn
    /\ at[t] \in {"popped", "held", "count_idle", "push", "count_open"} => conn[t] # NoConn
    /\ conn[t] # NoConn => state[conn[t]] \in HeldState(at[t])

\* No connection is on the stack twice.
EachOnce == \A i, j \in 1..Len(available) : available[i] = available[j] => i = j

\* The stack holds connections that are idle, or were until a driver closed
\* them, each once.
StackPlace ==
    /\ \A c \in Stacked : state[c] \in {"idle", "closed"}
    /\ EachOnce

\* The warm-up has one connection in hand and has stacked the others.
WarmPlace ==
    /\ warm.step \in {"open", "ready", "failed"} => warm.conn = NoConn
    /\ warm.step \in {"store", "count", "push"} =>
         /\ warm.conn \in Conns /\ warm.opened < Max
         /\ state[warm.conn] \in IF warm.step = "store" THEN {"checked_out", "closed"}
                                 ELSE {"idle", "closed"}
    /\ warm.step # "ready" =>
         /\ Len(available) = warm.opened
         /\ \A t \in Calls : at[t] = "out"

\* No connection is in two places.
PlacesApart ==
    /\ \A s, t \in Calls : conn[s] = conn[t] /\ conn[s] # NoConn => s = t
    /\ \A t \in Calls : conn[t] \notin Stacked
    /\ warm.conn \notin Stacked

PlacesInv ==
    /\ \A t \in Calls : CallPlace(t)
    /\ StackPlace
    /\ WarmPlace
    /\ PlacesApart
    /\ NoneStranded

\* The positions of a call that has taken a connection's room in the pool and
\* not given it back, and of a call that has a permit.
RoomAt == {"popped", "opening", "held", "count_idle", "push"}
InsideAt == RoomAt \cup {"permitted", "count_open", "release"}

\* How many members of D a function maps into P.
CountIn(f, D, P) == Cardinality({s \in D : f[s] \in P})

Inside == CountIn(at, Calls, InsideAt)
Roomed == CountIn(at, Calls, RoomAt)

\* Every permit is free or with one call, and the stack and the calls that have
\* taken room fill no more than the pool.
PermitsInv ==
    /\ permits + Inside = Max
    /\ Len(available) + Roomed <= Max

\* How far a call is, by its position in the pool: nothing is decided before
\* it holds a connection, and it has left the connection before it drops it.
Fresh(t) == /\ goal[t] = "none" /\ phase[t] = FirstPhase(t)
            /\ reusable[t] = FreshCheckout(t)

CallProgress(t) ==
    /\ at[t] \in {"waiting", "permitted", "popped", "opening"} => Fresh(t)
    /\ at[t] = "out" /\ goal[t] = "none" => Fresh(t)
    /\ at[t] \in {"count_idle", "push", "count_open", "release"} => goal[t] # "none"
    /\ goal[t] = "retry" => attempt[t] + 1 < MaxAttempts
    /\ at[t] = "held" =>
         /\ phase[t] = "leave" <=> goal[t] # "none" /\ phase[t] \notin {"rollback", "rollback_commit"}
         /\ phase[t] = "rollback" => goal[t] \in {"retry", "failed"}
         /\ phase[t] = "rollback_commit" => goal[t] \in {"retry", "failed", "unknown"}
         /\ phase[t] = "statement" => t \in Reads
         /\ phase[t] \in {"begin", "op", "commit", "rollback", "rollback_commit"} =>
              t \notin Reads /\ ~reusable[t]

\* The transactions that the call's connection may have on it.
Allowed(t) ==
    IF at[t] = "popped" \/ reusable[t] \/ phase[t] \in {"begin", "statement"} THEN {NoTxn}
    ELSE IF phase[t] \in {"op", "commit", "rollback"} THEN {NoTxn, [txn |-> "open", by |-> t]}
    ELSE {NoTxn, [txn |-> "open", by |-> t], [txn |-> "committing", by |-> t]}

UsesOwn(t) == at[t] \in {"popped", "held"} => srv[conn[t]] \in Allowed(t)

\* A connection that can be handed out is clean, and so is one that the warm-up
\* has; one that a call uses has that call's transaction on it, if any.
TxnInv ==
    /\ \A c \in Conns : state[c] \in {"none", "idle"} => srv[c] = NoTxn
    /\ warm.conn # NoConn => srv[warm.conn] = NoTxn
    /\ \A t \in Calls : UsesOwn(t)

\* A COMMIT that is not answered belongs to one call, which reports that it
\* does not know, and which has no other commit.
CommitInv ==
    /\ \A t \in Calls : commits[t] \in {0, 1}
    /\ \A t \in Reads : commits[t] = 0
    /\ \A t \in Calls \ Reads : goal[t] = "ok" => commits[t] = 1
    /\ \A t \in Calls : goal[t] \in {"none", "retry", "failed"} => commits[t] = 0
    /\ \A c \in Conns : srv[c].txn = "committing" =>
         /\ srv[c].by \in Calls \ Reads
         /\ goal[srv[c].by] \in {"unknown", "cancelled"}
         /\ commits[srv[c].by] = 0
         /\ \A d \in Conns : srv[d] = srv[c] => d = c

PoolInv ==
    /\ TypeOK
    /\ PlacesInv
    /\ PermitsInv
    /\ \A t \in Calls : CallProgress(t)
    /\ TxnInv
    /\ CommitInv

-----------------------------------------------------------------------------
(* Places.                                                                 *)

\* A connection that is pushed joins the stack, and the stack grows by one.
LEMMA AppendStack ==
    ASSUME available \in Seq(Conns), NEW c \in Conns, available' = Append(available, c)
    PROVE  /\ available' \in Seq(Conns) /\ Len(available) \in Nat
           /\ Len(available') = Len(available) + 1
           /\ Stacked' = Stacked \cup {c}
           /\ EachOnce /\ c \notin Stacked => EachOnce'
<1> DEFINE n == Len(available)
<1>1. /\ n \in Nat /\ available' \in Seq(Conns) /\ Len(available') = n + 1
      /\ \A i \in 1..n : available'[i] = available[i]
      /\ available'[n + 1] = c
  OBVIOUS
<1>2. \A i : i \in 1..(n + 1) <=> i \in 1..n \/ i = n + 1
  BY <1>1
<1>3. Stacked' = Stacked \cup {c}
  BY <1>1, <1>2 DEF Stacked
<1>4. EachOnce /\ c \notin Stacked => EachOnce'
  BY <1>1, <1>2 DEF Stacked, EachOnce
<1> QED
  BY <1>1, <1>3, <1>4

\* A connection that is popped leaves the stack, which shrinks by one.
LEMMA PopStack ==
    ASSUME available \in Seq(Conns), available # <<>>, EachOnce,
           available' = SubSeq(available, 1, Len(available) - 1)
    PROVE  /\ available' \in Seq(Conns) /\ Len(available) \in Nat
           /\ Len(available') = Len(available) - 1
           /\ available[Len(available)] \in Conns \cap Stacked
           /\ Stacked' = Stacked \ {available[Len(available)]}
           /\ EachOnce'
<1> DEFINE n == Len(available)
<1>1. /\ n \in Nat /\ n - 1 \in Nat /\ n - 1 \in Int
      /\ \A i \in 1..n : available[i] \in Conns
  OBVIOUS
<1>2. n \in 1..n /\ \A i \in 1..(n - 1) : available[i] \in Conns
  BY <1>1
<1>3. /\ available' \in Seq(Conns) /\ Len(available') = n - 1
      /\ \A i \in 1..(n - 1) : available'[i] = available[i]
  <2> DEFINE rest == SubSeq(available, 1, n - 1)
  <2>1. /\ rest \in Seq(Conns) /\ Len(rest) = IF 1 <= n - 1 THEN (n - 1) - 1 + 1 ELSE 0
        /\ \A i \in 1..((n - 1) - 1 + 1) : rest[i] = available[1 + i - 1]
    BY <1>1, <1>2, SubSeqProperties
  <2>2. (n - 1) - 1 + 1 = n - 1 /\ \A i \in 1..(n - 1) : 1 + i - 1 = i
    BY <1>1
  <2>3. \A i \in 1..(n - 1) : rest[i] = available[i]
    BY <2>1, <2>2
  <2>4. Len(rest) = n - 1
    BY <1>1, <2>1, <2>2
  <2> HIDE DEF rest
  <2>5. rest \in Seq(Conns)
    BY <2>1
  <2>6. available' = rest
    BY DEF rest
  <2> QED
    BY <2>3, <2>4, <2>5, <2>6
<1>4. \A i : i \in 1..n <=> i \in 1..(n - 1) \/ i = n
  BY <1>1
<1>5. ~(n \in 1..(n - 1))
  BY <1>1
<1>6. Stacked' = {available[i] : i \in 1..(n - 1)}
  BY <1>3 DEF Stacked
<1>7. Stacked' = Stacked \ {available[n]}
  BY <1>2, <1>4, <1>5, <1>6 DEF Stacked, EachOnce
<1>8. EachOnce'
  BY <1>3, <1>4 DEF EachOnce
<1> QED
  BY <1>1, <1>2, <1>3, <1>7, <1>8 DEF Stacked

\* A step of the warm-up keeps every connection in one place (prewarm).
LEMMA WarmPlaces ==
    ASSUME PoolTypeOK, PlacesInv, Warm
    PROVE  PlacesInv'
<1> USE PoolAssumption DEF PlacesInv, CallPlace, StackPlace, WarmPlace, PlacesApart,
        NoneStranded, HeldState, PoolTypeOK
<1>0. UNCHANGED available => UNCHANGED <<Stacked, EachOnce>>
  BY DEF Stacked, EachOnce
<1>1. ASSUME NEW c \in Conns, WarmOpen(c) PROVE PlacesInv'
  BY <1>0, <1>1 DEF WarmOpen, Register
<1>2. CASE WarmFails
  BY <1>0, <1>2 DEF WarmFails
<1>3. CASE WarmStore
  BY <1>0, <1>3 DEF WarmStore
<1>4. CASE WarmCount
  BY <1>0, <1>4 DEF WarmCount
<1>5. CASE WarmPush
  <2>1. Stacked' = Stacked \cup {warm.conn} /\ EachOnce' /\ Len(available') = Len(available) + 1
    BY <1>5, AppendStack DEF WarmPush
  <2>2. /\ UNCHANGED <<state, at, conn>> /\ warm.conn \in Conns /\ warm'.step = "open"
        /\ warm'.conn = NoConn /\ warm'.opened = warm.opened + 1
        /\ state[warm.conn] \in {"idle", "closed"}
    BY <1>5 DEF WarmPush
  <2>3. /\ \A t \in Calls : conn[t] = NoConn
        /\ \A c \in Stacked : c # NoConn
    BY <1>5 DEF WarmPush, Stacked
  <2>4. (\A t \in Calls : CallPlace(t))'
    BY <2>2
  <2>5. StackPlace'
    BY <2>1, <2>2
  <2>6. WarmPlace'
    BY <1>5, <2>1, <2>2 DEF WarmPush
  <2>7. PlacesApart'
    BY <2>1, <2>2, <2>3
  <2>8. NoneStranded'
    BY <2>1, <2>2
  <2> QED
    BY <2>4, <2>5, <2>6, <2>7, <2>8
<1>6. CASE WarmDone
  BY <1>0, <1>6 DEF WarmDone
<1> QED
  BY <1>1, <1>2, <1>3, <1>4, <1>5, <1>6 DEF Warm

\* A call inside acquire or drop keeps every connection in one place
\* (take_idle_connection, acquire, Drop for PooledConnection).
LEMMA StepPlaces ==
    ASSUME PoolTypeOK, PlacesInv, NEW t \in Calls, PoolStep(t)
    PROVE  PlacesInv'
<1> USE PoolAssumption DEF PlacesInv, CallPlace, StackPlace, WarmPlace, PlacesApart,
        NoneStranded, HeldState, PoolTypeOK, Goto
<1>0. UNCHANGED available => UNCHANGED <<Stacked, EachOnce>>
  BY DEF Stacked, EachOnce
<1>1. CASE Permit(t)
  BY <1>0, <1>1, SMTT(30) DEF Permit
<1>2. CASE Pop(t)
  <2> DEFINE c == available[Len(available)]
  <2>1. /\ Stacked' = Stacked \ {c} /\ EachOnce' /\ Len(available') = Len(available) - 1
        /\ c \in Conns \cap Stacked
    BY <1>2, PopStack DEF Pop
  <2>2. CASE state[c] = "idle"
    <3>1. /\ state' = [state EXCEPT ![c] = "checked_out"] /\ conn' = [conn EXCEPT ![t] = c]
          /\ at[t] = "permitted" /\ at' = [at EXCEPT ![t] = "popped"] /\ UNCHANGED warm
          /\ conn[t] = NoConn /\ warm.step = "ready" /\ warm.conn = NoConn
      BY <1>2, <2>2 DEF Pop
    <3>2. (\A s \in Calls : CallPlace(s))'
      BY <2>1, <3>1
    <3>3. StackPlace' /\ WarmPlace'
      BY <2>1, <3>1
    <3>4. PlacesApart'
      BY <2>1, <3>1
    <3>5. NoneStranded'
      BY <2>1, <3>1
    <3> QED
      BY <3>2, <3>3, <3>4, <3>5
  <2>3. CASE state[c] # "idle"
    BY <1>2, <2>1, <2>3 DEF Pop
  <2> QED
    BY <2>2, <2>3
<1>3. CASE Checkout(t)
  BY <1>0, <1>3 DEF Checkout
<1>4. CASE Discard(t)
  BY <1>0, <1>4 DEF Discard
<1>5. CASE NoneIdle(t)
  BY <1>0, <1>5 DEF NoneIdle
<1>6. CASE CountIdle(t)
  BY <1>0, <1>6 DEF CountIdle
<1>7. CASE Push(t)
  <2>1. Stacked' = Stacked \cup {conn[t]} /\ EachOnce' /\ Len(available') = Len(available) + 1
    BY <1>7, AppendStack DEF Push
  <2> QED
    BY <1>7, <2>1 DEF Push
<1>8. CASE CountClosed(t)
  BY <1>0, <1>8 DEF CountClosed
<1>9. CASE ReturnPermit(t)
  BY <1>0, <1>9, SMTT(30) DEF ReturnPermit
<1>10. ASSUME NEW c \in Conns, Open(t, c) PROVE PlacesInv'
  BY <1>0, <1>10, SMTT(30) DEF Open, Register
<1> QED
  BY <1>1, <1>2, <1>3, <1>4, <1>5, <1>6, <1>7, <1>8, <1>9, <1>10 DEF PoolStep

\* The other ways into and out of the pool (acquire's early returns, its
\* cancellation, and the first operations of drop).
LEMMA OtherPlaces ==
    ASSUME PoolTypeOK, PlacesInv, NEW t \in Calls,
           \/ Enqueue(t) \/ AcquireTimeout(t) \/ AbandonWait(t)
           \/ OpenFails(t) \/ AbandonOpen(t) \/ \E r \in BOOLEAN : Drop(t, r)
    PROVE  PlacesInv'
<1> USE PoolAssumption DEF PlacesInv, CallPlace, StackPlace, WarmPlace, PlacesApart,
        NoneStranded, HeldState, PoolTypeOK, Goto
<1>0. UNCHANGED available => UNCHANGED <<Stacked, EachOnce>>
  BY DEF Stacked, EachOnce
<1>1. CASE Enqueue(t)
  BY <1>0, <1>1 DEF Enqueue
<1>2. CASE AcquireTimeout(t)
  BY <1>0, <1>2 DEF AcquireTimeout
<1>3. CASE AbandonWait(t)
  BY <1>0, <1>3 DEF AbandonWait
<1>4. CASE OpenFails(t)
  BY <1>0, <1>4 DEF OpenFails
<1>5. CASE AbandonOpen(t)
  BY <1>0, <1>5 DEF AbandonOpen
<1>6. ASSUME NEW r \in BOOLEAN, Drop(t, r) PROVE PlacesInv'
  <2>1. /\ at[t] = "held" /\ UNCHANGED <<available, conn, warm>> /\ warm.step = "ready"
        /\ \E p \in {"count_idle", "count_open", "release"} :
             /\ at' = [at EXCEPT ![t] = p]
             /\ \/ /\ state[conn[t]] = "checked_out" /\ p \in {"count_idle", "count_open"}
                   /\ state' = [state EXCEPT ![conn[t]] =
                                  IF p = "count_idle" THEN "idle" ELSE "closed"]
                \/ state[conn[t]] = "closed" /\ UNCHANGED state /\ p = "release"
    BY <1>6 DEF Drop
  <2>2. CallPlace(t)'
    BY <2>1
  <2>3. ASSUME NEW s \in Calls, s # t PROVE CallPlace(s)'
    BY <2>1, <2>3
  <2>4. StackPlace'
    <3>1. \A c \in Stacked : c \in Conns /\ c # conn[t]
      BY DEF Stacked
    <3>2. \A c \in Stacked : state'[c] = state[c]
      BY <2>1, <3>1
    <3> QED
      BY <1>0, <2>1, <3>2
  <2>5. WarmPlace' /\ PlacesApart'
    BY <1>0, <2>1
  <2>6. NoneStranded'
    BY <1>0, <2>1
  <2> QED
    BY <2>2, <2>3, <2>4, <2>5, <2>6
<1> QED
  BY <1>1, <1>2, <1>3, <1>4, <1>5, <1>6

\* A driver only closes (close_connection).
LEMMA DriverPlaces ==
    ASSUME PoolTypeOK, PlacesInv, NEW c \in Conns, Driver(c)
    PROVE  PlacesInv'
<1> USE PoolAssumption DEF PlacesInv, CallPlace, StackPlace, WarmPlace, PlacesApart,
        NoneStranded, HeldState, PoolTypeOK
<1>0. UNCHANGED available => UNCHANGED <<Stacked, EachOnce>>
  BY DEF Stacked, EachOnce
<1>1. CASE Break(c)
  BY <1>0, <1>1 DEF Break
<1>2. CASE CloseSwap(c)
  BY <1>0, <1>2 DEF CloseSwap
<1>3. CASE CloseCountOpen(c)
  BY <1>0, <1>3 DEF CloseCountOpen
<1>4. CASE CloseCountIdle(c)
  BY <1>0, <1>4 DEF CloseCountIdle
<1> QED
  BY <1>1, <1>2, <1>3, <1>4 DEF Driver
-----------------------------------------------------------------------------
(* Permits.                                                                *)

\* The functions f and g differ at one point at most.
OneMoves(f, g, D, t) == t \in D /\ \A s \in D : s # t => g[s] = f[s]

\* A call that moves from one position to another joins or leaves a set of
\* positions, and the number of calls in the set changes by one.
LEMMA Recount ==
    ASSUME NEW D, IsFiniteSet(D), NEW f, NEW g, NEW t, OneMoves(f, g, D, t), NEW P
    PROVE  /\ CountIn(f, D, P) \in Nat /\ CountIn(g, D, P) \in Nat
           /\ CountIn(g, D, P)
                = CountIn(f, D, P) - (IF f[t] \in P THEN 1 ELSE 0) + (IF g[t] \in P THEN 1 ELSE 0)
<1> DEFINE S == {s \in D : f[s] \in P}
           T == {s \in D : g[s] \in P}
<1> USE DEF OneMoves
<1>1. IsFiniteSet(S) /\ IsFiniteSet(T)
  BY FS_Subset
<1>2. Cardinality(S) \in Nat /\ Cardinality(T) \in Nat
  BY <1>1, FS_CardinalityType
<1>3. (f[t] \in P <=> g[t] \in P) => T = S
  OBVIOUS
<1>4. f[t] \notin P /\ g[t] \in P => T = S \cup {t} /\ t \notin S
  OBVIOUS
<1>5. f[t] \in P /\ g[t] \notin P => T = S \ {t} /\ t \in S
  OBVIOUS
<1> HIDE DEF S, T
<1>6. t \notin S => Cardinality(S \cup {t}) = Cardinality(S) + 1
  BY <1>1, FS_AddElement
<1>7. t \in S => Cardinality(S \ {t}) = Cardinality(S) - 1
  BY <1>1, FS_RemoveElement
<1>8. CountIn(f, D, P) = Cardinality(S) /\ CountIn(g, D, P) = Cardinality(T)
  BY DEF CountIn, S, T
<1>9. CountIn(f, D, P) \in Nat /\ CountIn(g, D, P) \in Nat
  BY <1>2, <1>8
<1>10. CASE (f[t] \in P) = (g[t] \in P)
  <2>1. CountIn(g, D, P) = CountIn(f, D, P)
    BY <1>3, <1>8, <1>10
  <2> QED
    BY <1>9, <1>10, <2>1
<1>11. CASE f[t] \notin P /\ g[t] \in P
  <2>1. CountIn(g, D, P) = CountIn(f, D, P) + 1
    <3>1. T = S \cup {t} /\ t \notin S
      BY <1>4, <1>11
    <3> QED
      BY <1>6, <1>8, <3>1
  <2> QED
    BY <1>9, <1>11, <2>1
<1>12. CASE f[t] \in P /\ g[t] \notin P
  <2>1. CountIn(g, D, P) = CountIn(f, D, P) - 1
    <3>1. T = S \ {t} /\ t \in S
      BY <1>5, <1>12
    <3> QED
      BY <1>7, <1>8, <3>1
  <2> QED
    BY <1>9, <1>12, <2>1
<1> QED
  BY <1>9, <1>10, <1>11, <1>12

\* The same, by cases.
LEMMA RecountCases ==
    ASSUME NEW D, IsFiniteSet(D), NEW f, NEW g, NEW t, OneMoves(f, g, D, t), NEW P
    PROVE  /\ (f[t] \in P <=> g[t] \in P) => CountIn(g, D, P) = CountIn(f, D, P)
           /\ f[t] \notin P /\ g[t] \in P => CountIn(g, D, P) = CountIn(f, D, P) + 1
           /\ f[t] \in P /\ g[t] \notin P => CountIn(g, D, P) = CountIn(f, D, P) - 1
<1>1. CountIn(f, D, P) \in Nat
  BY Recount
<1>2. CountIn(g, D, P)
        = CountIn(f, D, P) - (IF f[t] \in P THEN 1 ELSE 0) + (IF g[t] \in P THEN 1 ELSE 0)
  BY Recount
<1> HIDE DEF CountIn
<1> QED
  BY <1>1, <1>2

\* A call's move counted in permits and in room.
LEMMA Moves ==
    ASSUME PoolTypeOK, NEW t \in Calls, NEW p, Goto(t, p)
    PROVE  /\ Inside' \in Nat /\ Roomed' \in Nat
           /\ (at[t] \in InsideAt <=> p \in InsideAt) => Inside' = Inside
           /\ at[t] \notin InsideAt /\ p \in InsideAt => Inside' = Inside + 1
           /\ at[t] \in InsideAt /\ p \notin InsideAt => Inside' = Inside - 1
           /\ (at[t] \in RoomAt <=> p \in RoomAt) => Roomed' = Roomed
           /\ at[t] \notin RoomAt /\ p \in RoomAt => Roomed' = Roomed + 1
           /\ at[t] \in RoomAt /\ p \notin RoomAt => Roomed' = Roomed - 1
<1>1. IsFiniteSet(Calls) /\ at'[t] = p /\ OneMoves(at, at', Calls, t)
  BY PoolAssumption DEF PoolTypeOK, Goto, OneMoves
<1>2. \A P : /\ CountIn(at, Calls, P) \in Nat /\ CountIn(at', Calls, P) \in Nat
             /\ CountIn(at', Calls, P)
                  = CountIn(at, Calls, P) - (IF at[t] \in P THEN 1 ELSE 0)
                                          + (IF at'[t] \in P THEN 1 ELSE 0)
  <2> TAKE P
  <2>1. CountIn(at, Calls, P) \in Nat
    BY <1>1, Recount
  <2>2. CountIn(at', Calls, P) \in Nat
    BY <1>1, Recount
  <2>3. CountIn(at', Calls, P)
                  = CountIn(at, Calls, P) - (IF at[t] \in P THEN 1 ELSE 0)
                                          + (IF at'[t] \in P THEN 1 ELSE 0)
    BY <1>1, Recount
  <2> QED
    BY <2>1, <2>2, <2>3
<1>3. Inside' = CountIn(at', Calls, InsideAt) /\ Roomed' = CountIn(at', Calls, RoomAt)
  BY DEF Inside, Roomed, CountIn
<1>4. Inside = CountIn(at, Calls, InsideAt) /\ Roomed = CountIn(at, Calls, RoomAt)
  BY DEF Inside, Roomed
<1> QED
  BY <1>1, <1>2, <1>3, <1>4

\* Room is taken with a permit.
LEMMA RoomWithPermit ==
    ASSUME PoolTypeOK
    PROVE  /\ Inside \in Nat /\ Roomed \in Nat
           /\ Roomed <= Inside
           /\ \A t \in Calls : at[t] \in InsideAt \ RoomAt => Roomed < Inside
<1> DEFINE I == {s \in Calls : at[s] \in InsideAt}
           R == {s \in Calls : at[s] \in RoomAt}
<1>1. IsFiniteSet(I) /\ R \subseteq I
  BY PoolAssumption, FS_Subset DEF InsideAt
<1>2. /\ IsFiniteSet(R) /\ Cardinality(R) <= Cardinality(I)
      /\ Cardinality(I) = Cardinality(R) => I = R
  BY <1>1, FS_Subset
<1>3. Cardinality(I) \in Nat /\ Cardinality(R) \in Nat
  BY <1>1, <1>2, FS_CardinalityType
<1>4. \A t \in Calls : at[t] \in InsideAt \ RoomAt => I # R
  OBVIOUS
<1> HIDE DEF I, R
<1>5. Cardinality(R) < Cardinality(I) \/ Cardinality(R) = Cardinality(I)
  BY <1>2, <1>3
<1>6. Inside = Cardinality(I) /\ Roomed = Cardinality(R)
  BY DEF Inside, Roomed, CountIn, I, R
<1> QED
  BY <1>2, <1>3, <1>4, <1>5, <1>6
\* Every step keeps the permits and the room accounted for (the semaphore, and
\* a permit that is dropped after the connection is returned).
LEMMA WarmPermits ==
    ASSUME PoolTypeOK, PlacesInv, PermitsInv, Warm
    PROVE  PermitsInv'
<1>1. UNCHANGED <<at, permits>>
  BY DEF Warm, WarmFails, WarmStore, WarmCount, WarmPush, WarmDone, WarmOpen
<1>2. UNCHANGED <<Inside, Roomed>>
  BY <1>1 DEF Inside, Roomed
<1>3. \/ UNCHANGED available
      \/ /\ \A t \in Calls : at[t] = "out"
         /\ Len(available') = Len(available) + 1 /\ Len(available) < Max
         /\ Len(available) \in Nat
  BY AppendStack DEF Warm, WarmFails, WarmStore, WarmCount, WarmPush, WarmDone, WarmOpen,
     PlacesInv, WarmPlace, PoolTypeOK
<1>4. (\A t \in Calls : at[t] = "out") => Roomed = 0
  <2>1. (\A t \in Calls : at[t] = "out") => {s \in Calls : at[s] \in RoomAt} = {}
    BY DEF RoomAt
  <2> QED
    BY <2>1, FS_EmptySet DEF Roomed, CountIn
<1> QED
  BY <1>1, <1>2, <1>3, <1>4, PoolAssumption DEF PermitsInv

\* Inside acquire and drop (the semaphore's permit travels with the call).
LEMMA StepPermits ==
    ASSUME PoolTypeOK, PlacesInv, PermitsInv, NEW t \in Calls, PoolStep(t)
    PROVE  PermitsInv' /\ permits' \in 0..Max
<1>0. /\ permits \in Nat /\ Max \in Nat /\ Len(available) \in Nat
      /\ Inside \in Nat /\ Roomed \in Nat /\ Roomed <= Inside
      /\ at[t] = "permitted" => Roomed < Inside
      /\ available \in Seq(Conns)
  BY PoolAssumption, RoomWithPermit, SMTT(30) DEF PoolTypeOK, InsideAt, RoomAt
<1> USE <1>0 DEF PermitsInv, InsideAt, RoomAt
<1>1. CASE Permit(t)
  BY <1>1, Moves DEF Permit
<1>2. CASE Pop(t)
  <2>1. Len(available') = Len(available) - 1
    BY <1>2, PopStack DEF Pop, PlacesInv, StackPlace
  <2>2. \/ Goto(t, "popped") \/ UNCHANGED at
    BY <1>2 DEF Pop
  <2>3. UNCHANGED at => UNCHANGED <<Inside, Roomed>>
    BY DEF Inside, Roomed
  <2>4. at[t] = "permitted" /\ UNCHANGED permits
    BY <1>2 DEF Pop
  <2>5. Inside' = Inside /\ (Roomed' = Roomed \/ Roomed' = Roomed + 1)
    BY <2>2, <2>3, <2>4, Moves
  <2> QED
    BY <2>1, <2>4, <2>5
<1>3. CASE Checkout(t)
  BY <1>3, Moves DEF Checkout
<1>4. CASE Discard(t)
  BY <1>4, Moves DEF Discard
<1>5. CASE NoneIdle(t)
  BY <1>5, Moves DEF NoneIdle
<1>6. CASE CountIdle(t)
  BY <1>6, Moves DEF CountIdle
<1>7. CASE Push(t)
  <2>1. Len(available') = Len(available) + 1
    BY <1>7, AppendStack DEF Push, PlacesInv, CallPlace, PoolTypeOK
  <2> QED
    <3>1. Goto(t, "release") /\ at[t] = "push" /\ UNCHANGED permits
      BY <1>7 DEF Push
    <3>2. Inside' = Inside /\ Roomed' = Roomed - 1
      BY <3>1, Moves
    <3> QED
      BY <2>1, <3>1, <3>2
<1>8. CASE CountClosed(t)
  BY <1>8, Moves DEF CountClosed
<1>9. CASE ReturnPermit(t)
  BY <1>9, Moves DEF ReturnPermit
<1>10. ASSUME NEW c \in Conns, Open(t, c) PROVE PermitsInv' /\ permits' \in 0..Max
  BY <1>10, Moves DEF Open, Register
<1> QED
  BY <1>1, <1>2, <1>3, <1>4, <1>5, <1>6, <1>7, <1>8, <1>9, <1>10 DEF PoolStep

\* On the way in and out.
LEMMA OtherPermits ==
    ASSUME PoolTypeOK, PermitsInv, NEW t \in Calls,
           \/ Enqueue(t) \/ AcquireTimeout(t) \/ AbandonWait(t)
           \/ OpenFails(t) \/ AbandonOpen(t) \/ \E r \in BOOLEAN : Drop(t, r)
    PROVE  PermitsInv' /\ permits' \in 0..Max
<1>0. /\ permits \in Nat /\ Max \in Nat /\ Len(available) \in Nat
      /\ Inside \in Nat /\ Roomed \in Nat /\ Roomed <= Inside
      /\ at[t] = "permitted" => Roomed < Inside
      /\ available \in Seq(Conns)
  BY PoolAssumption, RoomWithPermit, SMTT(30) DEF PoolTypeOK, InsideAt, RoomAt
<1> USE <1>0 DEF PermitsInv, InsideAt, RoomAt
<1>1. CASE Enqueue(t)
  BY <1>1, Moves, SMTT(30) DEF Enqueue
<1>2. CASE AcquireTimeout(t)
  <2>1. Goto(t, "out") /\ at[t] = "waiting" /\ UNCHANGED <<permits, available>>
    BY <1>2 DEF AcquireTimeout
  <2>2. Inside' = Inside /\ Roomed' = Roomed
    BY <2>1, Moves
  <2> QED
    BY <2>1, <2>2, PoolAssumption DEF PoolTypeOK
<1>3. CASE AbandonWait(t)
  BY <1>3, Moves, SMTT(30) DEF AbandonWait
<1>4. CASE OpenFails(t)
  BY <1>4, Moves DEF OpenFails
<1>5. CASE AbandonOpen(t)
  <2>1. Goto(t, "out") /\ at[t] = "opening" /\ permits' = permits + 1 /\ UNCHANGED available
    BY <1>5 DEF AbandonOpen
  <2>2. Inside' = Inside - 1 /\ Roomed' = Roomed - 1 /\ Inside' \in Nat
    BY <2>1, Moves
  <2> QED
    BY <2>1, <2>2
<1>6. ASSUME NEW r \in BOOLEAN, Drop(t, r) PROVE PermitsInv' /\ permits' \in 0..Max
  BY <1>6, Moves DEF Drop
<1> QED
  BY <1>1, <1>2, <1>3, <1>4, <1>5, <1>6
-----------------------------------------------------------------------------
(* What a step of the pool leaves of the calls.                            *)

\* A call that stays where it is, decided as it is, is as far as it was.
LEMMA ProgressFrame ==
    ASSUME NEW t \in Calls, CallProgress(t), at'[t] = at[t], goal'[t] = goal[t],
           phase'[t] = phase[t], reusable'[t] = reusable[t], attempt'[t] = attempt[t]
    PROVE  CallProgress(t)'
BY DEF CallProgress, Fresh

\* What another call has on its connection stays.
LEMMA UsesFrame ==
    ASSUME NEW t \in Calls, UsesOwn(t), at'[t] = at[t], conn'[t] = conn[t],
           phase'[t] = phase[t], reusable'[t] = reusable[t], srv'[conn[t]] = srv[conn[t]]
    PROVE  UsesOwn(t)'
BY DEF UsesOwn, Allowed

\* The warm-up hands no connection to a call and keeps its own clean.
LEMMA WarmCalls ==
    ASSUME PoolInv, Warm, UNCHANGED callVars
    PROVE  (\A t \in Calls : CallProgress(t))' /\ TxnInv' /\ CommitInv'
<1>1. UNCHANGED <<at, conn>>
  BY DEF Warm, WarmFails, WarmStore, WarmCount, WarmPush, WarmDone, WarmOpen
<1>2. \A t \in Calls : CallProgress(t)'
  BY <1>1, ProgressFrame DEF PoolInv, callVars
<1>3. CommitInv'
  BY DEF PoolInv, CommitInv, callVars
<1> SUFFICES TxnInv'
  BY <1>2, <1>3
<1> USE <1>1 DEF PoolInv, TypeOK, PoolTypeOK, PlacesInv, WarmPlace, TxnInv, UsesOwn, Allowed, callVars
<1>4. ASSUME NEW c \in Conns, WarmOpen(c) PROVE TxnInv'
  BY <1>4 DEF WarmOpen, Register
<1>5. CASE WarmFails
  BY <1>5 DEF WarmFails
<1>6. CASE WarmStore
  <2>1. /\ warm.conn \in Conns /\ srv[warm.conn] = NoTxn /\ warm'.conn = warm.conn
        /\ state' = [state EXCEPT ![warm.conn] = "idle"] /\ UNCHANGED srv
        /\ \A t \in Calls : at[t] = "out"
    BY <1>6, PoolAssumption DEF WarmStore
  <2> QED
    BY <2>1
<1>7. CASE WarmCount
  BY <1>7 DEF WarmCount
<1>8. CASE WarmPush
  BY <1>8 DEF WarmPush
<1>9. CASE WarmDone
  BY <1>9 DEF WarmDone
<1> QED
  BY <1>4, <1>5, <1>6, <1>7, <1>8, <1>9 DEF Warm

\* A connection is checked out clean, and one that is pushed was left.
LEMMA StepCalls ==
    ASSUME PoolInv, NEW t \in Calls, PoolStep(t), UNCHANGED callVars
    PROVE  (\A s \in Calls : CallProgress(s))' /\ TxnInv' /\ CommitInv'
<1>1. /\ \A s \in Calls : s # t => at'[s] = at[s]
      /\ at'[t] = at[t] \/ /\ at[t] \in {"waiting", "permitted", "popped", "opening"}
                           /\ at'[t] \in {"permitted", "popped", "opening", "held"}
                        \/ /\ at[t] \in {"count_idle", "push", "count_open", "release"}
                           /\ at'[t] \in {"push", "release", "out"}
  BY DEF PoolInv, TypeOK, PoolTypeOK, PoolStep, Goto, Permit, Pop, Checkout, Discard, NoneIdle,
     CountIdle, Push, CountClosed, ReturnPermit, Open
<1>2. \A s \in Calls : s # t => CallProgress(s)'
  BY <1>1, ProgressFrame DEF PoolInv, callVars
<1>3. CallProgress(t)'
  BY <1>1 DEF PoolInv, CallProgress, Fresh, FirstPhase, FreshCheckout, callVars
<1>4. CommitInv'
  BY DEF PoolInv, CommitInv, callVars
<1> SUFFICES TxnInv'
  BY <1>2, <1>3, <1>4
<1>5. /\ at = [s \in Calls |-> at[s]] /\ conn \in [Calls -> Conns \cup {NoConn}]
      /\ state = [c \in Conns |-> state[c]] /\ available \in Seq(Conns)
      /\ \A s \in Calls : UsesOwn(s) /\ CallPlace(s)
      /\ \A c \in Conns : state[c] \in {"none", "idle"} => srv[c] = NoTxn
      /\ warm.conn # NoConn => srv[warm.conn] = NoTxn
      /\ StackPlace /\ CallProgress(t) /\ UNCHANGED callVars
  BY DEF PoolInv, TypeOK, PoolTypeOK, PlacesInv, TxnInv
<1>6. ASSUME UNCHANGED warm,
             \A c \in Conns : state'[c] = state[c] \/ state'[c] \in {"checked_out", "closed"},
             \A s \in Calls : s # t => at'[s] = at[s] /\ conn'[s] = conn[s],
             UsesOwn(t)'
      PROVE  TxnInv'
  BY <1>5, <1>6, UsesFrame DEF TxnInv, callVars
<1> USE <1>5 DEF Goto, CallPlace
<1>7. CASE Permit(t)
  BY <1>6, <1>7 DEF Permit, UsesOwn
<1>8. CASE Pop(t)
  <2> DEFINE c == available[Len(available)]
  <2>1. c \in Conns
    BY <1>8, PopStack DEF Pop, StackPlace
  <2>2. CASE state[c] # "idle"
    BY <1>6, <1>8, <2>2 DEF Pop, UsesOwn
  <2>3. CASE state[c] = "idle"
    <3>1. /\ state' = [state EXCEPT ![c] = "checked_out"] /\ srv[c] = NoTxn
          /\ conn' = [conn EXCEPT ![t] = c] /\ at' = [at EXCEPT ![t] = "popped"]
          /\ UNCHANGED <<warm, srv>>
      BY <1>8, <2>1, <2>3 DEF Pop, callVars
    <3>2. UsesOwn(t)'
      BY <3>1 DEF UsesOwn, Allowed
    <3> QED
      BY <1>6, <2>1, <3>1, <3>2
  <2> QED
    BY <2>2, <2>3
<1>9. CASE Checkout(t)
  <2>1. phase[t] \in {"begin", "statement"} /\ srv[conn[t]] = NoTxn
    BY <1>9 DEF Checkout, CallProgress, Fresh, FirstPhase, UsesOwn, Allowed
  <2>2. UsesOwn(t)'
    BY <1>9, <2>1 DEF Checkout, UsesOwn, Allowed, callVars
  <2> QED
    BY <1>6, <1>9, <2>2 DEF Checkout
<1>10. CASE Discard(t)
  BY <1>6, <1>10 DEF Discard, UsesOwn
<1>11. CASE NoneIdle(t)
  BY <1>6, <1>11 DEF NoneIdle, UsesOwn
<1>12. CASE CountIdle(t)
  BY <1>6, <1>12 DEF CountIdle, UsesOwn
<1>13. CASE Push(t)
  BY <1>6, <1>13 DEF Push, UsesOwn
<1>14. CASE CountClosed(t)
  BY <1>6, <1>14 DEF CountClosed, UsesOwn
<1>15. CASE ReturnPermit(t)
  BY <1>6, <1>15 DEF ReturnPermit, UsesOwn
<1>16. ASSUME NEW c \in Conns, Open(t, c) PROVE TxnInv'
  <2>1. UsesOwn(t)'
    BY <1>16 DEF Open, Register, UsesOwn, Allowed, callVars
  <2> QED
    BY <1>6, <1>16, <2>1 DEF Open, Register
<1> QED
  BY <1>7, <1>8, <1>9, <1>10, <1>11, <1>12, <1>13, <1>14, <1>15, <1>16 DEF PoolStep

\* A driver opens no connection and frees none.
LEMMA DriverCalls ==
    ASSUME PoolInv, NEW c \in Conns, Driver(c), UNCHANGED callVars
    PROVE  (\A s \in Calls : CallProgress(s))' /\ TxnInv' /\ CommitInv'
<1>1. /\ UNCHANGED <<at, conn, warm>>
      /\ state' = state \/ state' = [state EXCEPT ![c] = "closed"]
  BY DEF Driver, Break, CloseSwap, CloseCountOpen, CloseCountIdle
<1>2. \A s \in Calls : CallProgress(s)'
  BY <1>1, ProgressFrame DEF PoolInv, callVars
<1>3. TxnInv'
  <2>1. /\ \A d \in Conns : state[d] \in {"none", "idle"} => srv[d] = NoTxn
        /\ warm.conn # NoConn => srv[warm.conn] = NoTxn
        /\ \A s \in Calls : UsesOwn(s)
        /\ state = [d \in Conns |-> state[d]]
    BY DEF PoolInv, TypeOK, PoolTypeOK, TxnInv
  <2>2. UNCHANGED srv /\ \A s \in Calls : UsesOwn(s)'
    BY <1>1, <2>1, UsesFrame DEF callVars
  <2>3. \A d \in Conns : state'[d] \in {"none", "idle"} => srv[d] = NoTxn
    BY <1>1, <2>1
  <2> QED
    BY <1>1, <2>1, <2>2, <2>3 DEF TxnInv
<1>4. CommitInv'
  BY DEF PoolInv, CommitInv, callVars
<1> QED
  BY <1>2, <1>3, <1>4
-----------------------------------------------------------------------------
(* The steps of a call that holds a connection.                            *)

\* Such a step leaves the other calls where they are and touches only the
\* connection that the call holds.
Touches(t) ==
    /\ UNCHANGED poolVars
    /\ \A s \in Calls : s # t => /\ phase'[s] = phase[s] /\ reusable'[s] = reusable[s]
                                 /\ goal'[s] = goal[s] /\ attempt'[s] = attempt[s]
                                 /\ commits'[s] = commits[s]
    /\ \A c \in Conns : c # conn[t] => srv'[c] = srv[c]

\* What the other calls and the other connections keep.
LEMMA HeldFrame ==
    ASSUME PoolInv, NEW t \in Calls, at[t] = "held", Touches(t),
           CallProgress(t)', UsesOwn(t)'
    PROVE  (\A s \in Calls : CallProgress(s))' /\ TxnInv'
<1>1. /\ \A s \in Calls : CallProgress(s) /\ UsesOwn(s) /\ CallPlace(s)
      /\ PlacesApart /\ WarmPlace
      /\ conn \in [Calls -> Conns \cup {NoConn}]
      /\ \A c \in Conns : state[c] \in {"none", "idle"} => srv[c] = NoTxn
  BY DEF PoolInv, PlacesInv, TxnInv, TypeOK, PoolTypeOK
<1>2. conn[t] \in Conns /\ state[conn[t]] \in {"checked_out", "closed"} /\ warm.conn = NoConn
  BY <1>1 DEF CallPlace, HeldState, WarmPlace
<1>3. ASSUME NEW s \in Calls, s # t PROVE CallProgress(s)'
  BY <1>1, <1>3, ProgressFrame DEF Touches, poolVars
<1>4. ASSUME NEW s \in Calls, s # t PROVE UsesOwn(s)'
  <2>1. CASE conn[s] = NoConn
    BY <1>1, <2>1 DEF UsesOwn, CallPlace, Touches, poolVars
  <2>2. CASE conn[s] # NoConn
    <3>1. conn[s] # conn[t] /\ conn[s] \in Conns
      BY <1>1, <1>4, <2>2 DEF PlacesApart
    <3> QED
      BY <1>1, <1>4, <3>1, UsesFrame DEF Touches, poolVars
  <2> QED
    BY <2>1, <2>2
<1>5. \A c \in Conns : state'[c] \in {"none", "idle"} => srv'[c] = NoTxn
  BY <1>1, <1>2 DEF Touches, poolVars
<1> QED
  BY <1>2, <1>3, <1>4, <1>5 DEF TxnInv, Touches, poolVars

\* The commits of a step that neither commits nor leaves a COMMIT behind.
LEMMA NothingCommitted ==
    ASSUME PoolInv, NEW t \in Calls, at[t] = "held", Touches(t),
           UNCHANGED commits,
           srv'[conn[t]] = srv[conn[t]] \/ srv'[conn[t]].txn # "committing",
           \/ goal'[t] = goal[t]
           \/ goal[t] \in {"none", "retry", "failed"} /\ goal'[t] \in {"retry", "failed"}
           \/ goal'[t] = "cancelled"
           \/ t \in Reads /\ goal[t] = "none"
    PROVE  CommitInv'
<1>1. CommitInv /\ conn[t] \in Conns
  BY DEF PoolInv, PlacesInv, CallPlace, TypeOK, PoolTypeOK
<1>2. \A c \in Conns : srv'[c].txn = "committing" => srv'[c] = srv[c]
  BY <1>1 DEF Touches
<1>3. \A c \in Conns : srv[c].txn = "committing" => srv[c].by \in Calls \ Reads
  BY <1>1 DEF CommitInv
<1>4. \A s \in Calls : s # t => goal'[s] = goal[s]
  BY DEF Touches
<1> QED
  BY <1>1, <1>2, <1>3, <1>4, AttemptsAssumption DEF CommitInv
\* A COMMIT that is left behind makes the outcome unknown.
LEMMA CommitLeft ==
    ASSUME PoolInv, NEW t \in Calls \ Reads, at[t] = "held", goal[t] = "none",
           Touches(t), srv'[conn[t]] = [txn |-> "committing", by |-> t], UNCHANGED commits,
           goal'[t] \in {"unknown", "cancelled"}
    PROVE  CommitInv'
<1>1. CommitInv /\ conn[t] \in Conns
  BY DEF PoolInv, PlacesInv, CallPlace, TypeOK, PoolTypeOK
<1>2. \A c \in Conns : srv[c].txn = "committing" => srv[c].by # t /\ srv[c].by \in Calls \ Reads
  BY <1>1 DEF CommitInv
<1>3. commits[t] = 0
  BY <1>1 DEF CommitInv
<1>4. \A s \in Calls : s # t => goal'[s] = goal[s]
  BY DEF Touches
<1>5. /\ \A s \in Calls : commits'[s] \in {0, 1}
      /\ \A s \in Reads : commits'[s] = 0
      /\ \A s \in Calls \ Reads : goal'[s] = "ok" => commits'[s] = 1
      /\ \A s \in Calls : goal'[s] \in {"none", "retry", "failed"} => commits'[s] = 0
  BY <1>1, <1>4 DEF CommitInv
<1>6. ASSUME NEW c \in Conns, srv'[c].txn = "committing"
      PROVE  /\ srv'[c].by \in Calls \ Reads
             /\ goal'[srv'[c].by] \in {"unknown", "cancelled"}
             /\ commits'[srv'[c].by] = 0
             /\ \A d \in Conns : srv'[d] = srv'[c] => d = c
  <2>1. /\ \A d \in Conns : d # conn[t] => srv'[d] = srv[d]
        /\ srv'[conn[t]] = [txn |-> "committing", by |-> t]
    BY DEF Touches
  <2>2. CASE c = conn[t]
    BY <1>2, <1>3, <2>1, <2>2
  <2>3. CASE c # conn[t]
    <3>1. srv'[c] = srv[c] /\ srv[c].by # t /\ srv[c].by \in Calls \ Reads
      BY <1>2, <1>6, <2>1, <2>3
    <3>2. goal'[srv[c].by] \in {"unknown", "cancelled"} /\ commits[srv[c].by] = 0
      BY <1>1, <1>4, <1>6, <3>1 DEF CommitInv
    <3>3. \A d \in Conns : srv'[d] = srv'[c] => d = c
      BY <1>1, <1>6, <2>1, <3>1 DEF CommitInv
    <3> QED
      BY <3>1, <3>2, <3>3
  <2> QED
    BY <2>2, <2>3
<1> QED
  BY <1>5, <1>6 DEF CommitInv

\* Steps between BEGIN and the end of the transaction or the statement.
LEMMA HeldCalls ==
    ASSUME PoolInv, NEW t \in Calls,
           \/ BeginOk(t) \/ BeginFails(t)
           \/ OperationOk(t) \/ OperationFails(t) \/ OperationTimeout(t)
           \/ CommitOk(t) \/ CommitRefused(t) \/ CommitLost(t) \/ CommitTimeout(t)
           \/ RollbackOk(t) \/ RollbackFails(t) \/ StatementEnds(t) \/ Cancel(t)
    PROVE  (\A s \in Calls : CallProgress(s))' /\ TxnInv' /\ CommitInv'
<1>1. /\ at[t] = "held" /\ conn[t] \in Conns
      /\ CallProgress(t) /\ UsesOwn(t)
      /\ phase = [s \in Calls |-> phase[s]] /\ goal = [s \in Calls |-> goal[s]]
      /\ reusable \in [Calls -> BOOLEAN] /\ srv = [c \in Conns |-> srv[c]]
      /\ commits = [s \in Calls |-> commits[s]]
  BY DEF PoolInv, PlacesInv, TxnInv, CallPlace, TypeOK, PoolTypeOK, BeginOk, BeginFails, OperationOk,
     OperationFails, OperationTimeout, CommitOk, CommitRefused, CommitLost, CommitTimeout,
     RollbackOk, RollbackFails, StatementEnds, Cancel, Await
<1>2. RetryOrFail(t) \in {"retry", "failed"} /\ (RetryOrFail(t) = "retry" => attempt[t] + 1 < MaxAttempts)
  BY DEF RetryOrFail, CanRetry
<1>3. ASSUME Touches(t), CallProgress(t)', UsesOwn(t)', CommitInv'
      PROVE  (\A s \in Calls : CallProgress(s))' /\ TxnInv' /\ CommitInv'
  BY <1>1, <1>3, HeldFrame
<1> USE <1>1 DEF Await, MoveTo, Leaves, SetTxn
<1>4. CASE BeginOk(t)
  <2>1. Touches(t)
    BY <1>4 DEF BeginOk, Touches
  <2>2. CallProgress(t)'
    BY <1>2, <1>4 DEF BeginOk, CallProgress, poolVars
  <2>3. UsesOwn(t)'
    BY <1>4 DEF BeginOk, UsesOwn, Allowed, CallProgress, NoTxn, poolVars
  <2>4. CommitInv'
    BY <1>2, <1>4, <2>1, NothingCommitted DEF BeginOk, CallProgress, NoTxn
  <2> QED
    BY <1>3, <2>1, <2>2, <2>3, <2>4
<1>5. CASE BeginFails(t)
  <2>1. Touches(t)
    BY <1>5 DEF BeginFails, Touches
  <2>2. CallProgress(t)'
    BY <1>2, <1>5 DEF BeginFails, CallProgress, poolVars
  <2>3. UsesOwn(t)'
    BY <1>5 DEF BeginFails, UsesOwn, Allowed, CallProgress, NoTxn, poolVars
  <2>4. CommitInv'
    BY <1>2, <1>5, <2>1, NothingCommitted DEF BeginFails, CallProgress, NoTxn
  <2> QED
    BY <1>3, <2>1, <2>2, <2>3, <2>4
<1>6. CASE OperationOk(t)
  <2>1. Touches(t)
    BY <1>6 DEF OperationOk, Touches
  <2>2. CallProgress(t)'
    BY <1>2, <1>6 DEF OperationOk, CallProgress, poolVars
  <2>3. UsesOwn(t)'
    BY <1>6 DEF OperationOk, UsesOwn, Allowed, CallProgress, NoTxn, poolVars
  <2>4. CommitInv'
    BY <1>2, <1>6, <2>1, NothingCommitted DEF OperationOk, CallProgress, NoTxn
  <2> QED
    BY <1>3, <2>1, <2>2, <2>3, <2>4
<1>7. CASE OperationFails(t)
  <2>1. Touches(t)
    BY <1>7 DEF OperationFails, Touches
  <2>2. CallProgress(t)'
    BY <1>2, <1>7 DEF OperationFails, CallProgress, poolVars
  <2>3. UsesOwn(t)'
    BY <1>7 DEF OperationFails, UsesOwn, Allowed, CallProgress, NoTxn, poolVars
  <2>4. CommitInv'
    BY <1>2, <1>7, <2>1, NothingCommitted DEF OperationFails, CallProgress, NoTxn
  <2> QED
    BY <1>3, <2>1, <2>2, <2>3, <2>4
<1>8. CASE OperationTimeout(t)
  <2>1. Touches(t)
    BY <1>8 DEF OperationTimeout, Touches
  <2>2. CallProgress(t)'
    BY <1>2, <1>8 DEF OperationTimeout, CallProgress, poolVars
  <2>3. UsesOwn(t)'
    BY <1>8 DEF OperationTimeout, UsesOwn, Allowed, CallProgress, NoTxn, poolVars
  <2>4. CommitInv'
    BY <1>2, <1>8, <2>1, NothingCommitted DEF OperationTimeout, CallProgress, NoTxn
  <2> QED
    BY <1>3, <2>1, <2>2, <2>3, <2>4
<1>9. CASE CommitRefused(t)
  <2>1. Touches(t)
    BY <1>9 DEF CommitRefused, Touches
  <2>2. CallProgress(t)'
    BY <1>2, <1>9 DEF CommitRefused, CallProgress, poolVars
  <2>3. UsesOwn(t)'
    BY <1>9 DEF CommitRefused, UsesOwn, Allowed, CallProgress, NoTxn, poolVars
  <2>4. CommitInv'
    BY <1>2, <1>9, <2>1, NothingCommitted DEF CommitRefused, CallProgress, NoTxn
  <2> QED
    BY <1>3, <2>1, <2>2, <2>3, <2>4
<1>10. CASE RollbackOk(t)
  <2>1. Touches(t)
    BY <1>10 DEF RollbackOk, Touches
  <2>2. CallProgress(t)'
    BY <1>2, <1>10 DEF RollbackOk, CallProgress, poolVars
  <2>3. UsesOwn(t)'
    BY <1>10 DEF RollbackOk, UsesOwn, Allowed, CallProgress, NoTxn, poolVars
  <2>4. CommitInv'
    BY <1>2, <1>10, <2>1, NothingCommitted DEF RollbackOk, CallProgress, NoTxn
  <2> QED
    BY <1>3, <2>1, <2>2, <2>3, <2>4
<1>11. CASE RollbackFails(t)
  <2>1. Touches(t)
    BY <1>11 DEF RollbackFails, Touches
  <2>2. CallProgress(t)'
    BY <1>2, <1>11 DEF RollbackFails, CallProgress, poolVars
  <2>3. UsesOwn(t)'
    BY <1>11 DEF RollbackFails, UsesOwn, Allowed, CallProgress, NoTxn, poolVars
  <2>4. CommitInv'
    BY <1>2, <1>11, <2>1, NothingCommitted DEF RollbackFails, CallProgress, NoTxn
  <2> QED
    BY <1>3, <2>1, <2>2, <2>3, <2>4
<1>12. CASE StatementEnds(t)
  <2>1. Touches(t)
    BY <1>12 DEF StatementEnds, Touches
  <2>2. CallProgress(t)'
    BY <1>2, <1>12 DEF StatementEnds, CallProgress, poolVars
  <2>3. UsesOwn(t)'
    BY <1>12 DEF StatementEnds, UsesOwn, Allowed, CallProgress, NoTxn, poolVars
  <2>4. CommitInv'
    BY <1>2, <1>12, <2>1, NothingCommitted DEF StatementEnds, CallProgress, NoTxn
  <2> QED
    BY <1>3, <2>1, <2>2, <2>3, <2>4
<1>13. CASE CommitOk(t)
  <2>1. Touches(t)
    BY <1>13 DEF CommitOk, Touches
  <2>2. CallProgress(t)'
    BY <1>2, <1>13 DEF CommitOk, CallProgress, poolVars
  <2>3. UsesOwn(t)'
    BY <1>13 DEF CommitOk, UsesOwn, Allowed, CallProgress, NoTxn, poolVars
  <2>4. CommitInv'
    <3>1. CommitInv /\ goal[t] = "none" /\ t \notin Reads
      BY <1>13 DEF CommitOk, CallProgress, PoolInv
    <3>2. commits[t] = 0 /\ commits'[t] = commits[t] + 1 /\ goal'[t] = "ok"
          /\ srv' = [srv EXCEPT ![conn[t]] = NoTxn]
      BY <1>13, <3>1 DEF CommitOk, CommitInv
    <3>3. \A c \in Conns : srv[c].txn = "committing" => srv[c].by # t /\ srv[c].by \in Calls
      BY <3>1 DEF CommitInv
    <3>4. \A s \in Calls : s # t => goal'[s] = goal[s] /\ commits'[s] = commits[s]
      BY <2>1 DEF Touches
    <3>5. \A c \in Conns : srv'[c].txn = "committing" => srv'[c] = srv[c]
      BY <3>2 DEF NoTxn
    <3>6. /\ \A s \in Calls : commits'[s] \in {0, 1}
          /\ \A s \in Reads : commits'[s] = 0
          /\ \A s \in Calls \ Reads : goal'[s] = "ok" => commits'[s] = 1
          /\ \A s \in Calls : goal'[s] \in {"none", "retry", "failed"} => commits'[s] = 0
      <4>1. commits'[t] = 1
        BY <3>2
      <4>2. \A s \in Reads : s \in Calls /\ s # t
        BY <3>1, AttemptsAssumption
      <4> QED
        BY <3>1, <3>2, <3>4, <4>1, <4>2 DEF CommitInv
    <3>7. \A c \in Conns : srv'[c].txn = "committing" =>
            /\ srv'[c].by \in Calls \ Reads
            /\ goal'[srv'[c].by] \in {"unknown", "cancelled"}
            /\ commits'[srv'[c].by] = 0
            /\ \A d \in Conns : srv'[d] = srv'[c] => d = c
      BY <3>1, <3>3, <3>4, <3>5 DEF CommitInv
    <3> QED
      BY <3>6, <3>7 DEF CommitInv
  <2> QED
    BY <1>3, <2>1, <2>2, <2>3, <2>4
<1>14. CASE CommitLost(t)
  <2>1. Touches(t)
    BY <1>14 DEF CommitLost, Touches
  <2>2. CallProgress(t)'
    BY <1>2, <1>14 DEF CommitLost, CallProgress, poolVars
  <2>3. UsesOwn(t)'
    BY <1>14 DEF CommitLost, UsesOwn, Allowed, CallProgress, NoTxn, poolVars
  <2>4. CommitInv'
    BY <1>14, <2>1, CommitLeft DEF CommitLost, CallProgress
  <2> QED
    BY <1>3, <2>1, <2>2, <2>3, <2>4
<1>15. CASE CommitTimeout(t)
  <2>1. Touches(t)
    BY <1>15 DEF CommitTimeout, Touches
  <2>2. CallProgress(t)'
    BY <1>2, <1>15 DEF CommitTimeout, CallProgress, poolVars
  <2>3. UsesOwn(t)'
    BY <1>15 DEF CommitTimeout, UsesOwn, Allowed, CallProgress, NoTxn, poolVars
  <2>4. CommitInv'
    BY <1>15, <2>1, CommitLeft DEF CommitTimeout, CallProgress
  <2> QED
    BY <1>3, <2>1, <2>2, <2>3, <2>4
<1>16. CASE Cancel(t)
  <2>1. Touches(t)
    BY <1>16 DEF Cancel, Touches
  <2>2. CallProgress(t)'
    BY <1>2, <1>16 DEF Cancel, CallProgress, poolVars, Awaits
  <2>3. UsesOwn(t)'
    BY <1>16 DEF Cancel, UsesOwn, Allowed, CallProgress, NoTxn, poolVars, Awaits
  <2>4. CommitInv'
    <3>1. CASE UNCHANGED srv \/ phase[t] = "begin"
      BY <1>16, <2>1, <3>1, NothingCommitted DEF Cancel
    <3>2. CASE phase[t] = "commit" /\ SetTxn(t, "committing")
      BY <1>16, <2>1, <3>2, CommitLeft DEF Cancel, CallProgress
    <3> QED
      BY <1>16, <3>1, <3>2 DEF Cancel
  <2> QED
    BY <1>3, <2>1, <2>2, <2>3, <2>4
<1> QED
  BY <1>4, <1>5, <1>6, <1>7, <1>8, <1>9, <1>10, <1>11, <1>12, <1>13, <1>14, <1>15, <1>16
\* A call outside a transaction: it begins to wait, gives up, sleeps before
\* the next attempt, or drops its connection.
LEMMA AroundCalls ==
    ASSUME PoolInv, NEW t \in Calls,
           Start(t) \/ Again(t) \/ Leave(t) \/ AcquireFails(t) \/ Abandon(t)
    PROVE  (\A s \in Calls : CallProgress(s))' /\ TxnInv' /\ CommitInv'
<1>1. /\ at = [s \in Calls |-> at[s]] /\ conn \in [Calls -> Conns \cup {NoConn}]
      /\ state = [c \in Conns |-> state[c]]
      /\ phase = [s \in Calls |-> phase[s]] /\ goal = [s \in Calls |-> goal[s]]
      /\ reusable \in [Calls -> BOOLEAN] /\ attempt \in [Calls -> Nat]
      /\ \A s \in Calls : UsesOwn(s) /\ CallPlace(s) /\ CallProgress(s)
      /\ \A c \in Conns : state[c] \in {"none", "idle"} => srv[c] = NoTxn
      /\ warm.conn # NoConn => srv[warm.conn] = NoTxn
      /\ CommitInv
  BY AttemptsAssumption DEF PoolInv, TypeOK, PoolTypeOK, PlacesInv, TxnInv
<1>2. /\ UNCHANGED <<srv, commits, warm, conn>>
      /\ \A s \in Calls : s # t => /\ at'[s] = at[s] /\ phase'[s] = phase[s]
                                   /\ reusable'[s] = reusable[s] /\ goal'[s] = goal[s]
                                   /\ attempt'[s] = attempt[s]
  BY <1>1 DEF Start, Again, Leave, AcquireFails, Abandon, callVars, poolVars, Goto, Enqueue, Drop,
     AcquireTimeout, OpenFails, AbandonWait, AbandonOpen
<1>3. ASSUME NEW s \in Calls, s # t PROVE CallProgress(s)' /\ UsesOwn(s)'
  BY <1>1, <1>2, <1>3, ProgressFrame, UsesFrame
<1>4. at[t] = "held" \/ (at'[t] \notin {"popped", "held"})
  BY <1>1 DEF Start, Again, Leave, AcquireFails, Abandon, poolVars, Goto, Enqueue, Drop,
     Await, AcquireTimeout, OpenFails, AbandonWait, AbandonOpen
<1>5. at[t] = "held" => at'[t] \in {"count_idle", "count_open", "release"}
  BY <1>1 DEF Start, Again, Leave, AcquireFails, Abandon, poolVars, Goto, Enqueue, Drop,
     AcquireTimeout, OpenFails, AbandonWait, AbandonOpen
<1>6. UsesOwn(t)'
  BY <1>4, <1>5 DEF UsesOwn
<1>7. \A c \in Conns : state'[c] \in {"none", "idle"} => srv'[c] = NoTxn
  <2>1. CASE Leave(t)
    <3>1. conn[t] \in Conns /\ srv[conn[t]] \in Allowed(t) /\ at[t] = "held"
      BY <1>1, <2>1 DEF Leave, Await, CallPlace, UsesOwn
    <3>2. \A c \in Conns : \/ state'[c] = state[c] \/ state'[c] = "closed"
                           \/ c = conn[t] /\ reusable[t]
      BY <1>1, <2>1, <3>1 DEF Leave, Drop
    <3>3. reusable[t] => srv[conn[t]] = NoTxn
      BY <3>1 DEF Allowed
    <3> QED
      BY <1>1, <1>2, <3>2, <3>3
  <2>2. CASE ~Leave(t)
    <3>1. UNCHANGED state
      BY <2>2 DEF Start, Again, AcquireFails, Abandon, poolVars, Enqueue,
         AcquireTimeout, OpenFails, AbandonWait, AbandonOpen
    <3> QED
      BY <1>1, <1>2, <3>1
  <2> QED
    BY <2>1, <2>2
<1>8. TxnInv'
  BY <1>1, <1>2, <1>3, <1>6, <1>7 DEF TxnInv
<1>9. CallProgress(t)'
  <2>1. CASE Start(t)
    BY <1>1, <2>1 DEF Start, Enqueue, Goto, CallProgress, Fresh, callVars, FirstPhase, FreshCheckout
  <2>2. CASE Again(t)
    BY <1>1, <2>2 DEF Again, CallProgress, Fresh, poolVars, FirstPhase, FreshCheckout
  <2>3. CASE Leave(t)
    BY <1>1, <1>5, <2>3 DEF Leave, Await, CallProgress, Fresh, callVars
  <2>4. CASE AcquireFails(t)
    BY <1>1, <2>4 DEF AcquireFails, AcquireTimeout, OpenFails, Goto, CallProgress, Fresh
  <2>5. CASE Abandon(t)
    BY <1>1, <2>5 DEF Abandon, AbandonWait, AbandonOpen, Goto, CallProgress, Fresh, poolVars
  <2> QED
    BY <2>1, <2>2, <2>3, <2>4, <2>5
<1>10. CommitInv'
  <2>1. goal'[t] = goal[t] \/ /\ goal[t] \in {"none", "retry"}
                              /\ goal'[t] \in {"none", "failed", "cancelled"}
    BY <1>1 DEF Start, Again, Leave, AcquireFails, Abandon, AcquireTimeout, OpenFails, AbandonWait,
       AbandonOpen, CallProgress, Fresh, callVars
  <2> QED
    BY <1>1, <1>2, <2>1 DEF CommitInv
<1> QED
  BY <1>3, <1>8, <1>9, <1>10

\* The database resolves a COMMIT once, for a call that does not know.
LEMMA ServerCalls ==
    ASSUME PoolInv, NEW c \in Conns, ServerResolves(c)
    PROVE  (\A s \in Calls : CallProgress(s))' /\ TxnInv' /\ CommitInv'
<1>1. /\ UNCHANGED <<poolVars, phase, reusable, attempt, goal>>
      /\ srv' = [srv EXCEPT ![c] = NoTxn] /\ srv = [d \in Conns |-> srv[d]]
  BY DEF ServerResolves, PoolInv, TypeOK
<1>2. \A s \in Calls : CallProgress(s)'
  BY <1>1, ProgressFrame DEF PoolInv, poolVars
<1>3. TxnInv'
  <2>1. ASSUME NEW s \in Calls PROVE UsesOwn(s)'
    <3>1. NoTxn \in Allowed(s) /\ Allowed(s)' = Allowed(s)
      BY <1>1 DEF Allowed, poolVars
    <3>2. UsesOwn(s) /\ (at[s] \in {"popped", "held"} => conn[s] \in Conns)
      BY DEF PoolInv, TxnInv, PlacesInv, CallPlace, TypeOK, PoolTypeOK
    <3> QED
      BY <1>1, <3>1, <3>2 DEF UsesOwn, poolVars
  <2>2. \A d \in Conns : state'[d] \in {"none", "idle"} => srv'[d] = NoTxn
    BY <1>1 DEF PoolInv, TxnInv, poolVars
  <2>3. warm'.conn # NoConn => srv'[warm'.conn] = NoTxn
    BY <1>1 DEF PoolInv, TxnInv, TypeOK, PoolTypeOK, poolVars
  <2> QED
    BY <2>1, <2>2, <2>3 DEF TxnInv
<1>4. CommitInv'
  <2>1. CommitInv /\ commits = [s \in Calls |-> commits[s]]
    BY DEF PoolInv, TypeOK
  <2>2. \A d \in Conns : srv'[d].txn = "committing" => srv'[d] = srv[d] /\ d # c
    BY <1>1 DEF NoTxn
  <2>3. CASE UNCHANGED commits
    BY <1>1, <2>1, <2>2, <2>3 DEF CommitInv
  <2>4. CASE srv[c].txn = "committing" /\ commits' = [commits EXCEPT ![srv[c].by] = @ + 1]
    <3> DEFINE t == srv[c].by
    <3>1. /\ t \in Calls \ Reads /\ goal[t] \in {"unknown", "cancelled"} /\ commits[t] = 0
          /\ \A d \in Conns : srv[d] = srv[c] => d = c
      BY <2>1, <2>4 DEF CommitInv
    <3>2. commits'[t] = 1 /\ \A s \in Calls : s # t => commits'[s] = commits[s]
      BY <2>1, <2>4, <3>1
    <3>3. \A d \in Conns : d # c /\ srv[d].txn = "committing" => srv[d].by # t
      BY <2>4, <3>1 DEF PoolInv, TypeOK
    <3> HIDE DEF t
    <3>4. /\ \A s \in Calls : commits'[s] \in {0, 1}
          /\ \A s \in Reads : commits'[s] = 0
          /\ \A s \in Calls \ Reads : goal'[s] = "ok" => commits'[s] = 1
          /\ \A s \in Calls : goal'[s] \in {"none", "retry", "failed"} => commits'[s] = 0
      BY <1>1, <2>1, <3>1, <3>2, AttemptsAssumption DEF CommitInv
    <3>5. \A d \in Conns : srv'[d].txn = "committing" =>
            /\ srv'[d].by \in Calls \ Reads
            /\ goal'[srv'[d].by] \in {"unknown", "cancelled"}
            /\ commits'[srv'[d].by] = 0
            /\ \A e \in Conns : srv'[e] = srv'[d] => e = d
      BY <1>1, <2>1, <2>2, <3>2, <3>3 DEF CommitInv
    <3> QED
      BY <3>4, <3>5 DEF CommitInv
  <2> QED
    BY <2>3, <2>4 DEF ServerResolves
<1> QED
  BY <1>2, <1>3, <1>4
-----------------------------------------------------------------------------
(* Types.                                                                  *)

\* The gauges are words (fetch_add and fetch_sub wrap).
LEMMA GaugeWords ==
    ASSUME PoolTypeOK
    PROVE  /\ \A n \in Nat : n % Word \in 0..(Word - 1)
           /\ \A g \in {"idle", "in_use", "open", "waiters"} :
                Inc(g) \in [{"idle", "in_use", "open", "waiters"} -> 0..(Word - 1)]
                /\ Dec(g) \in [{"idle", "in_use", "open", "waiters"} -> 0..(Word - 1)]
<1>1. Word \in Nat /\ Word > 0
  <2>1. Cardinality(Calls) \in Nat
    BY PoolAssumption, FS_CardinalityType
  <2> QED
    BY <2>1, PoolAssumption
<1>2. \A n \in Nat : n % Word \in 0..(Word - 1)
  BY <1>1
<1>3. \A g \in {"idle", "in_use", "open", "waiters"} : gauge[g] + 1 \in Nat /\ gauge[g] + Word - 1 \in Nat
  BY <1>1 DEF PoolTypeOK
<1> QED
  BY <1>2, <1>3 DEF Inc, Dec, PoolTypeOK

\* Two gauges that one step moves (permit granted, broken connection dropped).
LEMMA GaugePair ==
    ASSUME PoolTypeOK, NEW g \in {"idle", "in_use", "open", "waiters"},
           NEW h \in {"idle", "in_use", "open", "waiters"}, g # h,
           NEW m \in 0..(Word - 1), NEW n \in 0..(Word - 1),
           gauge' = [gauge EXCEPT ![g] = m, ![h] = n]
    PROVE  gauge' \in [{"idle", "in_use", "open", "waiters"} -> 0..(Word - 1)]
BY DEF PoolTypeOK

\* One gauge stepped up or down is a word.
LEMMA GaugeStep ==
    ASSUME PoolTypeOK, NEW g \in {"idle", "in_use", "open", "waiters"}
    PROVE  /\ gauge[g] \in 0..(Word - 1)
           /\ (gauge[g] + 1) % Word \in 0..(Word - 1)
           /\ (gauge[g] + Word - 1) % Word \in 0..(Word - 1)
<1>1. Word \in Nat /\ gauge[g] \in 0..(Word - 1)
  BY PoolAssumption DEF PoolTypeOK
<1>2. gauge[g] + 1 \in Nat /\ gauge[g] + Word - 1 \in Nat
  BY <1>1
<1> QED
  BY <1>1, <1>2, GaugeWords

\* The types of the pool's variables, step by step.
LEMMA WarmTypes ==
    ASSUME PoolInv, Warm
    PROVE  PoolTypeOK'
<1> USE GaugeWords, PoolAssumption DEF PoolInv, TypeOK, PoolTypeOK
<1>1. ASSUME NEW c \in Conns, WarmOpen(c) PROVE PoolTypeOK'
  BY <1>1 DEF WarmOpen, Register
<1>2. CASE WarmFails
  BY <1>2 DEF WarmFails
<1>3. CASE WarmStore
  BY <1>3 DEF WarmStore
<1>4. CASE WarmCount
  BY <1>4 DEF WarmCount
<1>5. CASE WarmPush
  <2>1. available' \in Seq(Conns) /\ warm.opened + 1 \in 0..Max
    BY <1>5, AppendStack DEF WarmPush, PlacesInv, WarmPlace
  <2> QED
    BY <1>5, <2>1 DEF WarmPush
<1>6. CASE WarmDone
  BY <1>6 DEF WarmDone
<1> QED
  BY <1>1, <1>2, <1>3, <1>4, <1>5, <1>6 DEF Warm

\* Inside acquire and drop.
LEMMA StepTypes ==
    ASSUME PoolInv, NEW t \in Calls, PoolStep(t)
    PROVE  PoolTypeOK'
<1>0. permits' \in 0..Max
  BY StepPermits DEF PoolInv, TypeOK
<1> USE <1>0, PoolAssumption DEF PoolInv, TypeOK, PoolTypeOK, Goto
<1>1. CASE Permit(t)
  <2>1. gauge' \in [{"idle", "in_use", "open", "waiters"} -> 0..(Word - 1)]
    <3>1. gauge' = [gauge EXCEPT !["waiters"] = (gauge["waiters"] + Word - 1) % Word,
                                 !["in_use"] = (gauge["in_use"] + 1) % Word]
      BY <1>1 DEF Permit
    <3> QED
      BY <3>1, GaugePair, GaugeStep
  <2>2. /\ at' = [at EXCEPT ![t] = "permitted"]
        /\ UNCHANGED <<state, broken, driver, available, lock, warm, conn>>
    BY <1>1 DEF Permit
  <2> QED
    BY <2>1, <2>2
<1>2. CASE Pop(t)
  <2>1. available' \in Seq(Conns) /\ available[Len(available)] \in Conns
    BY <1>2, PopStack DEF Pop, PlacesInv, StackPlace
  <2>2. /\ lock' = t /\ UNCHANGED <<broken, driver, permits, gauge, warm>>
        /\ UNCHANGED state \/ \E c \in Conns : state' = [state EXCEPT ![c] = "checked_out"]
        /\ UNCHANGED conn \/ \E c \in Conns : conn' = [conn EXCEPT ![t] = c]
        /\ UNCHANGED at \/ at' = [at EXCEPT ![t] = "popped"]
    BY <1>2, <2>1 DEF Pop
  <2>3. state' \in [Conns -> {"none", "checked_out", "idle", "closed"}]
    BY <2>2
  <2>4. conn' \in [Calls -> Conns \cup {NoConn}]
    <3>1. ASSUME NEW c \in Conns, conn' = [conn EXCEPT ![t] = c]
          PROVE  conn' \in [Calls -> Conns \cup {NoConn}]
      BY <3>1
    <3> QED
      BY <2>2, <3>1
  <2>5. at' \in [Calls -> {"out", "waiting", "permitted", "popped", "opening",
                           "held", "count_idle", "push", "count_open", "release"}]
    <3>1. CASE UNCHANGED at
      BY <3>1
    <3>2. CASE at' = [at EXCEPT ![t] = "popped"]
      BY <3>2
    <3> QED
      BY <2>2, <3>1, <3>2
  <2> QED
    BY <2>1, <2>2, <2>3, <2>4, <2>5
<1>3. CASE Checkout(t)
  BY <1>3, GaugeWords DEF Checkout
<1>4. CASE Discard(t)
  <2>1. gauge' \in [{"idle", "in_use", "open", "waiters"} -> 0..(Word - 1)]
    <3> DEFINE n == IF state[conn[t]] = "closed" THEN gauge["open"]
                    ELSE (gauge["open"] + Word - 1) % Word
    <3>1. gauge' = [gauge EXCEPT !["idle"] = (gauge["idle"] + Word - 1) % Word, !["open"] = n]
      BY <1>4 DEF Discard
    <3>2. n \in 0..(Word - 1)
      BY GaugeStep
    <3> HIDE DEF n
    <3> QED
      BY <3>1, <3>2, GaugePair, GaugeStep
  <2>2. /\ at' = [at EXCEPT ![t] = "permitted"] /\ conn' = [conn EXCEPT ![t] = NoConn]
        /\ state' = [state EXCEPT ![conn[t]] = "closed"]
        /\ UNCHANGED <<broken, driver, available, lock, permits, warm>>
    BY <1>4 DEF Discard
  <2> QED
    BY <2>1, <2>2
<1>5. CASE NoneIdle(t)
  BY <1>5, GaugeWords DEF NoneIdle
<1>6. CASE CountIdle(t)
  BY <1>6, GaugeWords DEF CountIdle
<1>7. CASE Push(t)
  <2>1. available' \in Seq(Conns)
    BY <1>7, AppendStack DEF Push, PlacesInv, CallPlace
  <2> QED
    BY <1>7, <2>1 DEF Push
<1>8. CASE CountClosed(t)
  BY <1>8, GaugeWords DEF CountClosed
<1>9. CASE ReturnPermit(t)
  BY <1>9, GaugeWords DEF ReturnPermit
<1>10. ASSUME NEW c \in Conns, Open(t, c) PROVE PoolTypeOK'
  BY <1>10, GaugeWords DEF Open, Register
<1> QED
  BY <1>1, <1>2, <1>3, <1>4, <1>5, <1>6, <1>7, <1>8, <1>9, <1>10 DEF PoolStep

\* On the way in and out.
LEMMA OtherTypes ==
    ASSUME PoolInv, NEW t \in Calls,
           \/ Enqueue(t) \/ AcquireTimeout(t) \/ AbandonWait(t)
           \/ OpenFails(t) \/ AbandonOpen(t) \/ \E r \in BOOLEAN : Drop(t, r)
    PROVE  PoolTypeOK'
<1>0. permits' \in 0..Max
  BY OtherPermits DEF PoolInv, TypeOK
<1> USE <1>0 DEF PoolInv, TypeOK, PoolTypeOK, Goto
<1>1. CASE Enqueue(t)
  BY <1>1, GaugeWords DEF Enqueue
<1>2. CASE AcquireTimeout(t)
  BY <1>2, GaugeWords DEF AcquireTimeout
<1>3. CASE AbandonWait(t)
  BY <1>3, GaugeWords DEF AbandonWait
<1>4. CASE OpenFails(t)
  BY <1>4, GaugeWords DEF OpenFails
<1>5. CASE AbandonOpen(t)
  BY <1>5, GaugeWords DEF AbandonOpen
<1>6. ASSUME NEW r \in BOOLEAN, Drop(t, r) PROVE PoolTypeOK'
  <2>1. /\ gauge' = Dec("in_use")
        /\ UNCHANGED <<broken, driver, available, lock, permits, warm, conn>>
    BY <1>6 DEF Drop
  <2>2. gauge' \in [{"idle", "in_use", "open", "waiters"} -> 0..(Word - 1)]
    BY <2>1, GaugeWords
  <2>3. \E p \in {"count_idle", "count_open", "release"} : at' = [at EXCEPT ![t] = p]
    BY <1>6 DEF Drop
  <2>4. UNCHANGED state \/ \E x \in {"idle", "closed"} : state' = [state EXCEPT ![conn[t]] = x]
    BY <1>6 DEF Drop
  <2>5. state' \in [Conns -> {"none", "checked_out", "idle", "closed"}]
    BY <2>4
  <2>6. at' \in [Calls -> {"out", "waiting", "permitted", "popped", "opening",
                           "held", "count_idle", "push", "count_open", "release"}]
    BY <2>3
  <2> QED
    BY <2>1, <2>2, <2>5, <2>6
<1> QED
  BY <1>1, <1>2, <1>3, <1>4, <1>5, <1>6

\* In a driver.
LEMMA DriverTypes ==
    ASSUME PoolInv, NEW c \in Conns, Driver(c)
    PROVE  PoolTypeOK'
<1> USE GaugeWords DEF PoolInv, TypeOK, PoolTypeOK
<1>1. CASE Break(c)
  BY <1>1 DEF Break
<1>2. CASE CloseSwap(c)
  BY <1>2 DEF CloseSwap
<1>3. CASE CloseCountOpen(c)
  BY <1>3 DEF CloseCountOpen
<1>4. CASE CloseCountIdle(c)
  BY <1>4 DEF CloseCountIdle
<1> QED
  BY <1>1, <1>2, <1>3, <1>4 DEF Driver

\* The types of the calls' variables.
CallTypeOK ==
    /\ phase \in [Calls -> Awaits \cup {"leave"}]
    /\ reusable \in [Calls -> BOOLEAN]
    /\ attempt \in [Calls -> 0..(MaxAttempts - 1)]
    /\ goal \in [Calls -> {"none", "retry"} \cup Ended]
    /\ srv \in [Conns -> [txn : {"none", "open", "committing"}, by : Calls \cup {NoCall}]]
    /\ commits \in [Calls -> 0..MaxAttempts]

\* What a connection's transaction can be set to has the type of one.
LEMMA SetTxnTypes ==
    ASSUME PoolInv, NEW t \in Calls, at[t] = "held", NEW x \in {"none", "open", "committing"},
           SetTxn(t, x)
    PROVE  srv' \in [Conns -> [txn : {"none", "open", "committing"}, by : Calls \cup {NoCall}]]
<1>1. srv \in [Conns -> [txn : {"none", "open", "committing"}, by : Calls \cup {NoCall}]]
  BY DEF PoolInv, TypeOK
<1>2. NoTxn \in [txn : {"none", "open", "committing"}, by : Calls \cup {NoCall}]
  BY DEF NoTxn
<1>3. [txn |-> x, by |-> t] \in [txn : {"none", "open", "committing"}, by : Calls \cup {NoCall}]
  OBVIOUS
<1>4. \E y \in [txn : {"none", "open", "committing"}, by : Calls \cup {NoCall}] :
        srv' = [srv EXCEPT ![conn[t]] = y]
  BY <1>2, <1>3 DEF SetTxn
<1> QED
  BY <1>1, <1>4

\* No call commits more often than it may try.
LEMMA CommitTypes ==
    ASSUME NEW f, f = [s \in Calls |-> f[s]], \A s \in Calls : f[s] \in {0, 1}
    PROVE  f \in [Calls -> 0..MaxAttempts]
<1>1. \A s \in Calls : f[s] \in 0..MaxAttempts
  BY AttemptsAssumption
<1> QED
  BY <1>1

\* Steps of a call that holds a connection keep the types of the calls'
\* variables.
LEMMA HeldTypes ==
    ASSUME PoolInv, NEW t \in Calls,
           \/ BeginOk(t) \/ BeginFails(t)
           \/ OperationOk(t) \/ OperationFails(t) \/ OperationTimeout(t)
           \/ CommitOk(t) \/ CommitRefused(t) \/ CommitLost(t) \/ CommitTimeout(t)
           \/ RollbackOk(t) \/ RollbackFails(t) \/ StatementEnds(t) \/ Cancel(t)
    PROVE  CallTypeOK'
<1> DEFINE Phases == Awaits \cup {"leave"}
           Goals == {"none", "retry"} \cup Ended
<1>1. /\ phase \in [Calls -> Phases] /\ goal \in [Calls -> Goals]
      /\ reusable \in [Calls -> BOOLEAN] /\ attempt \in [Calls -> 0..(MaxAttempts - 1)]
      /\ srv \in [Conns -> [txn : {"none", "open", "committing"}, by : Calls \cup {NoCall}]]
      /\ commits \in [Calls -> 0..MaxAttempts]
  BY DEF PoolInv, TypeOK
<1>2. UNCHANGED attempt
  BY DEF BeginOk, BeginFails, OperationOk, OperationFails, OperationTimeout, CommitOk, CommitRefused,
     CommitLost, CommitTimeout, RollbackOk, RollbackFails, StatementEnds, Cancel
<1>3. \E p \in Phases : phase' = [phase EXCEPT ![t] = p]
  BY DEF BeginOk, BeginFails, OperationOk, OperationFails, OperationTimeout, CommitOk, CommitRefused,
     CommitLost, CommitTimeout, RollbackOk, RollbackFails, StatementEnds, Cancel, Leaves, MoveTo, Awaits
<1>4. UNCHANGED goal \/ \E g \in Goals : goal' = [goal EXCEPT ![t] = g]
  <2>1. RetryOrFail(t) \in Goals /\ \A g \in {"failed", "ok", "unknown", "cancelled"} : g \in Goals
    BY DEF RetryOrFail, Ended
  <2> HIDE DEF Goals
  <2> QED
    BY <2>1 DEF BeginOk, BeginFails, OperationOk, OperationFails, OperationTimeout, CommitOk,
       CommitRefused, CommitLost, CommitTimeout, RollbackOk, RollbackFails, StatementEnds, Cancel, Leaves
<1>5. UNCHANGED reusable \/ reusable' = [reusable EXCEPT ![t] = TRUE]
  BY DEF BeginOk, BeginFails, OperationOk, OperationFails, OperationTimeout, CommitOk, CommitRefused,
     CommitLost, CommitTimeout, RollbackOk, RollbackFails, StatementEnds, Cancel
<1>6. /\ at[t] = "held"
      /\ UNCHANGED srv \/ \E x \in {"none", "open", "committing"} : SetTxn(t, x)
  BY DEF BeginOk, BeginFails, OperationOk, OperationFails, OperationTimeout, CommitOk, CommitRefused,
     CommitLost, CommitTimeout, RollbackOk, RollbackFails, StatementEnds, Cancel, Await
<1>7. UNCHANGED commits \/ commits' = [commits EXCEPT ![t] = @ + 1]
  BY DEF BeginOk, BeginFails, OperationOk, OperationFails, OperationTimeout, CommitOk, CommitRefused,
     CommitLost, CommitTimeout, RollbackOk, RollbackFails, StatementEnds, Cancel
<1>8. srv' \in [Conns -> [txn : {"none", "open", "committing"}, by : Calls \cup {NoCall}]]
  BY <1>1, <1>6, SetTxnTypes
<1>9. commits' \in [Calls -> 0..MaxAttempts]
  <2>1. commits' = [s \in Calls |-> commits'[s]]
    BY <1>1, <1>7
  <2>2. \A s \in Calls : commits'[s] \in {0, 1}
    BY HeldCalls DEF CommitInv
  <2> QED
    BY <2>1, <2>2, CommitTypes
<1> HIDE DEF Phases, Goals
<1>10. phase' \in [Calls -> Phases]
  BY <1>1, <1>3
<1>11. goal' \in [Calls -> Goals]
  BY <1>1, <1>4
<1>12. reusable' \in [Calls -> BOOLEAN]
  BY <1>1, <1>5
<1> QED
  BY <1>1, <1>2, <1>8, <1>9, <1>10, <1>11, <1>12 DEF CallTypeOK, Phases, Goals

\* So do the steps around the pool,
LEMMA AroundTypes ==
    ASSUME PoolInv, NEW t \in Calls,
           Start(t) \/ Again(t) \/ Leave(t) \/ AcquireFails(t) \/ Abandon(t)
    PROVE  CallTypeOK'
<1>1. CallTypeOK /\ CallProgress(t)
  BY DEF PoolInv, TypeOK, CallTypeOK
<1>2. CASE UNCHANGED callVars
  BY <1>1, <1>2 DEF CallTypeOK, callVars
<1>3. CASE Again(t)
  <2>1. /\ goal' = [goal EXCEPT ![t] = "none"] /\ attempt' = [attempt EXCEPT ![t] = attempt[t] + 1]
        /\ phase' = [phase EXCEPT ![t] = FirstPhase(t)]
        /\ reusable' = [reusable EXCEPT ![t] = FreshCheckout(t)] /\ UNCHANGED <<srv, commits>>
    BY <1>3 DEF Again
  <2>2. attempt[t] + 1 \in 0..(MaxAttempts - 1)
    BY <1>1, <1>3, AttemptsAssumption DEF Again, CallTypeOK, CallProgress
  <2>3. FirstPhase(t) \in Awaits \cup {"leave"} /\ FreshCheckout(t) \in BOOLEAN
    BY DEF FirstPhase, FreshCheckout, Awaits
  <2>4. attempt' \in [Calls -> 0..(MaxAttempts - 1)]
    BY <1>1, <2>1, <2>2 DEF CallTypeOK
  <2>5. phase' \in [Calls -> Awaits \cup {"leave"}]
    BY <1>1, <2>1, <2>3 DEF CallTypeOK
  <2>6. reusable' \in [Calls -> BOOLEAN]
    BY <1>1, <2>1, <2>3 DEF CallTypeOK
  <2>7. goal' \in [Calls -> {"none", "retry"} \cup Ended]
    BY <1>1, <2>1 DEF CallTypeOK
  <2> QED
    BY <1>1, <2>1, <2>4, <2>5, <2>6, <2>7 DEF CallTypeOK
<1>4. CASE AcquireFails(t) \/ Abandon(t)
  <2>1. /\ \E g \in Ended : goal' = [goal EXCEPT ![t] = g]
        /\ UNCHANGED <<phase, reusable, attempt, srv, commits>>
    BY <1>4 DEF AcquireFails, Abandon, Ended
  <2>2. goal' \in [Calls -> {"none", "retry"} \cup Ended]
    BY <1>1, <2>1 DEF CallTypeOK
  <2> QED
    BY <1>1, <2>1, <2>2 DEF CallTypeOK
<1> QED
  BY <1>2, <1>3, <1>4 DEF Start, Leave

\* and the database's.
LEMMA ServerTypes ==
    ASSUME PoolInv, NEW c \in Conns, ServerResolves(c)
    PROVE  CallTypeOK'
<1>1. CallTypeOK
  BY DEF PoolInv, TypeOK, CallTypeOK
<1>2. srv' \in [Conns -> [txn : {"none", "open", "committing"}, by : Calls \cup {NoCall}]]
  <2>1. NoTxn \in [txn : {"none", "open", "committing"}, by : Calls \cup {NoCall}]
    BY DEF NoTxn
  <2> QED
    BY <1>1, <2>1 DEF ServerResolves, CallTypeOK
<1>3. commits' \in [Calls -> 0..MaxAttempts]
  <2>1. commits' = [s \in Calls |-> commits'[s]]
    BY <1>1 DEF ServerResolves, CallTypeOK
  <2>2. \A s \in Calls : commits'[s] \in {0, 1}
    BY ServerCalls DEF CommitInv
  <2> QED
    BY <2>1, <2>2, CommitTypes
<1> QED
  BY <1>1, <1>2, <1>3 DEF ServerResolves, CallTypeOK
-----------------------------------------------------------------------------
(* The invariant.                                                          *)

\* A step that leaves the pool alone leaves its places and permits.
LEMMA PoolFrame ==
    ASSUME PoolInv, UNCHANGED poolVars
    PROVE  PoolTypeOK' /\ PlacesInv' /\ PermitsInv'
<1>1. PoolTypeOK'
  BY DEF PoolInv, TypeOK, PoolTypeOK, poolVars
<1>2. UNCHANGED <<Stacked, EachOnce, Inside, Roomed>>
  BY DEF Stacked, EachOnce, Inside, Roomed, poolVars
<1>3. PermitsInv'
  BY <1>2 DEF PoolInv, PermitsInv, poolVars
<1>4. (\A t \in Calls : CallPlace(t))' /\ WarmPlace'
  BY DEF PoolInv, PlacesInv, CallPlace, WarmPlace, poolVars
<1>5. StackPlace' /\ PlacesApart' /\ NoneStranded'
  BY <1>2 DEF PoolInv, PlacesInv, StackPlace, PlacesApart, NoneStranded, poolVars
<1> QED
  BY <1>1, <1>3, <1>4, <1>5 DEF PlacesInv

\* The pool starts cold, with every permit free.
LEMMA PoolInvInit == Init => PoolInv
<1> SUFFICES ASSUME Init PROVE PoolInv
  OBVIOUS
<1> USE PoolAssumption, AttemptsAssumption DEF Init, PoolInit
<1>1. PoolTypeOK
  <2>1. Cardinality(Calls) \in Nat
    BY FS_CardinalityType
  <2>2. 0 \in 0..(Word - 1) /\ Max \in 0..Max
    BY <2>1
  <2>3. available \in Seq(Conns)
    OBVIOUS
  <2> QED
    BY <2>2, <2>3 DEF PoolTypeOK
<1>2. CallTypeOK
  BY DEF CallTypeOK, FirstPhase, FreshCheckout, Awaits, NoTxn
<1>3. Stacked = {} /\ EachOnce /\ Len(available) = 0
  BY DEF Stacked, EachOnce
<1>4. PlacesInv
  <2>1. \A t \in Calls : CallPlace(t)
    BY DEF CallPlace
  <2>2. StackPlace /\ WarmPlace
    BY <1>3 DEF StackPlace, WarmPlace
  <2>3. PlacesApart /\ NoneStranded
    BY <1>3 DEF PlacesApart, NoneStranded
  <2> QED
    BY <2>1, <2>2, <2>3 DEF PlacesInv
<1>5. PermitsInv
  <2>1. {s \in Calls : at[s] \in InsideAt} = {} /\ {s \in Calls : at[s] \in RoomAt} = {}
    BY DEF InsideAt, RoomAt
  <2>2. Inside = 0 /\ Roomed = 0
    BY <2>1, FS_EmptySet DEF Inside, Roomed, CountIn
  <2> QED
    BY <1>3, <2>2 DEF PermitsInv
<1>6. \A t \in Calls : CallProgress(t)
  BY DEF CallProgress, Fresh
<1>7. TxnInv
  BY DEF TxnInv, UsesOwn
<1>8. CommitInv
  BY DEF CommitInv, NoTxn
<1> QED
  BY <1>1, <1>2, <1>4, <1>5, <1>6, <1>7, <1>8 DEF PoolInv, TypeOK, CallTypeOK

\* Every step keeps it.
LEMMA PoolInvStep == PoolInv /\ [Next]_vars => PoolInv'
<1> SUFFICES ASSUME PoolInv, [Next]_vars PROVE PoolInv'
  OBVIOUS
<1>1. PoolTypeOK /\ PlacesInv /\ PermitsInv /\ CallTypeOK
  BY DEF PoolInv, TypeOK, CallTypeOK
<1>2. ASSUME PoolTypeOK', PlacesInv', PermitsInv', CallTypeOK',
             (\A t \in Calls : CallProgress(t))' /\ TxnInv' /\ CommitInv'
      PROVE  PoolInv'
  BY <1>2 DEF PoolInv, TypeOK, CallTypeOK
<1>3. UNCHANGED callVars => CallTypeOK'
  BY <1>1 DEF CallTypeOK, callVars
<1>4. CASE Warm /\ UNCHANGED callVars
  BY <1>1, <1>2, <1>3, <1>4, WarmTypes, WarmPlaces, WarmPermits, WarmCalls
<1>5. ASSUME NEW t \in Calls, PoolStep(t) /\ UNCHANGED callVars PROVE PoolInv'
  BY <1>1, <1>2, <1>3, <1>5, StepTypes, StepPlaces, StepPermits, StepCalls
<1>6. ASSUME NEW t \in Calls,
             \/ BeginOk(t) \/ BeginFails(t)
             \/ OperationOk(t) \/ OperationFails(t) \/ OperationTimeout(t)
             \/ CommitOk(t) \/ CommitRefused(t) \/ CommitLost(t) \/ CommitTimeout(t)
             \/ RollbackOk(t) \/ RollbackFails(t) \/ StatementEnds(t) \/ Cancel(t)
      PROVE  PoolInv'
  <2>1. UNCHANGED poolVars
    BY <1>6 DEF BeginOk, BeginFails, OperationOk, OperationFails, OperationTimeout, CommitOk,
       CommitRefused, CommitLost, CommitTimeout, RollbackOk, RollbackFails, StatementEnds, Cancel
  <2> QED
    BY <1>2, <1>6, <2>1, PoolFrame, HeldTypes, HeldCalls
<1>7. ASSUME NEW t \in Calls,
             Start(t) \/ Again(t) \/ Leave(t) \/ AcquireFails(t) \/ Abandon(t)
      PROVE  PoolInv'
  <2>1. \/ UNCHANGED poolVars
        \/ Enqueue(t) \/ AcquireTimeout(t) \/ AbandonWait(t)
        \/ OpenFails(t) \/ AbandonOpen(t) \/ \E r \in BOOLEAN : Drop(t, r)
    BY <1>1, <1>7 DEF Start, Again, Leave, AcquireFails, Abandon, CallTypeOK
  <2>2. PoolTypeOK' /\ PlacesInv' /\ PermitsInv'
    BY <1>1, <2>1, PoolFrame, OtherTypes, OtherPlaces, OtherPermits
  <2> QED
    BY <1>2, <1>7, <2>2, AroundTypes, AroundCalls
<1>8. ASSUME NEW c \in Conns, Driver(c) /\ UNCHANGED callVars PROVE PoolInv'
  <2>1. UNCHANGED <<available, permits, at>>
    BY <1>8 DEF Driver, Break, CloseSwap, CloseCountOpen, CloseCountIdle
  <2>2. PermitsInv'
    BY <1>1, <2>1 DEF PermitsInv, Inside, Roomed
  <2> QED
    BY <1>1, <1>2, <1>3, <1>8, <2>2, DriverTypes, DriverPlaces, DriverCalls
<1>9. ASSUME NEW c \in Conns, ServerResolves(c) PROVE PoolInv'
  <2>1. UNCHANGED poolVars
    BY <1>9 DEF ServerResolves
  <2> QED
    BY <1>2, <1>9, <2>1, PoolFrame, ServerTypes, ServerCalls
<1>10. CASE UNCHANGED vars
  <2>1. UNCHANGED poolVars /\ UNCHANGED callVars
    BY <1>10 DEF vars
  <2>2. \A t \in Calls : CallProgress(t)'
    BY <2>1, ProgressFrame DEF PoolInv, poolVars, callVars
  <2>3. TxnInv'
    BY <2>1 DEF PoolInv, TxnInv, UsesOwn, Allowed, poolVars, callVars
  <2>4. CommitInv'
    BY <2>1 DEF PoolInv, CommitInv, callVars
  <2> QED
    BY <1>2, <1>3, <2>1, <2>2, <2>3, <2>4, PoolFrame
<1> QED
  BY <1>4, <1>5, <1>6, <1>7, <1>8, <1>9, <1>10 DEF Next, CallStep, WithDeadline

\* Everything the invariant says, of every behaviour.
THEOREM PoolInvariant == Spec => []PoolInv
BY PoolInvInit, PoolInvStep, PTL DEF Spec
-----------------------------------------------------------------------------
(* What the pool and the transaction wrapper promise.                      *)

\* A stack on which nothing is twice is as long as its set is large.
LEMMA StackSize ==
    ASSUME available \in Seq(Conns), EachOnce
    PROVE  IsFiniteSet(Stacked) /\ Cardinality(Stacked) = Len(available)
<1> DEFINE n == Len(available)
           f == [i \in 1..n |-> available[i]]
<1>1. n \in Nat
  OBVIOUS
<1>2. IsFiniteSet(1..n) /\ Cardinality(1..n) = n
  BY <1>1, FS_Interval, SMTT(30)
<1>3. f \in Bijection(1..n, Stacked)
  BY DEF Bijection, Injection, IsInjective, Surjection, Stacked, EachOnce
<1>4. ExistsBijection(1..n, Stacked)
  BY <1>3 DEF ExistsBijection
<1>5. IsFiniteSet(Stacked) /\ Cardinality(Stacked) = Cardinality(1..n)
  BY <1>2, <1>4, FS_Bijection
<1> QED
  BY <1>2, <1>5

\* Every variable of the pool and of the calls keeps its type; in particular
\* no call makes more attempts than MAX_TRANSACTION_ATTEMPTS.
THEOREM PoolTypeCorrect == Spec => []TypeOK
BY PoolInvariant, PTL DEF PoolInv

\* One call per connection, and none that is on the idle stack (the pop and the
\* compare-exchange of take_idle_connection against drop and the drivers).
THEOREM PoolExclusive == Spec => []ExclusiveCheckout
<1>1. PoolInv => ExclusiveCheckout
  BY StackSize DEF PoolInv, TypeOK, PoolTypeOK, PlacesInv, StackPlace, PlacesApart, ExclusiveCheckout
<1> QED
  BY <1>1, PoolInvariant, PTL

\* No connection that the pool counts as open is lost (drop pushes it, or the
\* call or the warm-up still has it).
THEOREM PoolNoneStranded == Spec => []NoneStranded
<1>1. PoolInv => NoneStranded
  BY DEF PoolInv, PlacesInv
<1> QED
  BY <1>1, PoolInvariant, PTL

\* A connection that can be handed out is clean (mark_uncertain until COMMIT or
\* ROLLBACK is answered).
THEOREM PoolIdleIsClean == Spec => []IdleIsClean
<1>1. PoolInv => IdleIsClean
  BY DEF PoolInv, TxnInv, IdleIsClean, NoTxn
<1> QED
  BY <1>1, PoolInvariant, PTL

\* What transaction() reports is what the database did, and does later.
THEOREM PoolAnswerTrue == Spec => []AnswerTrue
<1>1. PoolInv => AnswerTrue
  BY DEF PoolInv, CommitInv, AnswerTrue
<1> QED
  BY <1>1, PoolInvariant, PTL
-----------------------------------------------------------------------------
(* Capacity.                                                               *)

\* A set of connections that calls hold is no larger than the set of calls.
LEMMA HeldByCalls ==
    ASSUME PoolTypeOK, NEW S \in SUBSET Calls
    PROVE  /\ IsFiniteSet(S) /\ IsFiniteSet({conn[t] : t \in S})
           /\ Cardinality({conn[t] : t \in S}) <= Cardinality(S)
<1>1. IsFiniteSet(S)
  BY PoolAssumption, FS_Subset
<1> DEFINE T == {conn[t] : t \in S}
           f == [t \in S |-> conn[t]]
<1>2. f \in Surjection(S, T)
  BY DEF Surjection
<1>3. IsFiniteSet(T) /\ Cardinality(T) <= Cardinality(S)
  BY <1>1, <1>2, FS_Surjection
<1> QED
  BY <1>1, <1>3

\* The union of two finite sets is no larger than the two together.
LEMMA UnionSize ==
    ASSUME NEW S, IsFiniteSet(S), NEW T, IsFiniteSet(T)
    PROVE  /\ IsFiniteSet(S \cup T) /\ Cardinality(S) \in Nat /\ Cardinality(T) \in Nat
           /\ Cardinality(S \cup T) \in Nat
           /\ Cardinality(S \cup T) <= Cardinality(S) + Cardinality(T)
           /\ S \cap T = {} => Cardinality(S \cup T) = Cardinality(S) + Cardinality(T)
<1>1. IsFiniteSet(S \cup T) /\ IsFiniteSet(S \cap T)
  BY FS_Union, FS_Subset
<1>2. /\ Cardinality(S) \in Nat /\ Cardinality(T) \in Nat /\ Cardinality(S \cup T) \in Nat
      /\ Cardinality(S \cap T) \in Nat
  BY <1>1, FS_CardinalityType
<1>3. Cardinality(S \cup T) = Cardinality(S) + Cardinality(T) - Cardinality(S \cap T)
  BY FS_Union
<1>4. S \cap T = {} => Cardinality(S \cap T) = 0
  BY FS_EmptySet
<1> QED
  BY <1>1, <1>2, <1>3, <1>4

\* A connection is open only in a place that has room for it, so there are
\* never more of them, with those being opened, than the pool's size; and a
\* permit that is not free is with a call.
LEMMA RoomIsEnough == PoolInv => CapacityRespected
<1> SUFFICES ASSUME PoolInv PROVE CapacityRespected
  OBVIOUS
<1> DEFINE O == {c \in Conns : state[c] \in {"checked_out", "idle"}}
           B == {t \in Calls : at[t] = "opening"}
           A == {t \in Calls : at[t] \in RoomAt \ {"opening"}}
           R == {t \in Calls : at[t] \in RoomAt}
           H == {conn[t] : t \in A}
           W == {warm.conn} \cap Conns
<1>1. PoolTypeOK /\ PlacesInv /\ PermitsInv
  BY DEF PoolInv, TypeOK
<1>2. Max \in Nat /\ Len(available) \in Nat /\ warm.opened \in 0..Max
  BY <1>1, PoolAssumption DEF PoolTypeOK
<1>3. O \subseteq (Stacked \cup H) \cup W
  <2> SUFFICES ASSUME NEW c \in O PROVE c \in (Stacked \cup H) \cup W
    OBVIOUS
  <2>1. c \in Stacked \/ (\E t \in Calls : conn[t] = c) \/ warm.conn = c
    BY <1>1 DEF PlacesInv, NoneStranded
  <2>2. ASSUME NEW t \in Calls, conn[t] = c PROVE c \in H
    <3>1. c # NoConn /\ state[c] \in HeldState(at[t])
      BY <1>1, <2>2, PoolAssumption DEF PlacesInv, CallPlace
    <3>2. at[t] \in {"popped", "held", "count_idle", "push"}
      BY <3>1 DEF HeldState
    <3>3. t \in A
      BY <3>2 DEF RoomAt
    <3> QED
      BY <2>2, <3>3
  <2> QED
    BY <2>1, <2>2
<1>4. IsFiniteSet(Stacked) /\ Cardinality(Stacked) = Len(available)
  BY <1>1, StackSize DEF PoolTypeOK, PlacesInv, StackPlace
<1>5. /\ IsFiniteSet(A) /\ IsFiniteSet(H) /\ Cardinality(H) <= Cardinality(A)
  BY <1>1, HeldByCalls
<1>6. IsFiniteSet(B)
  BY PoolAssumption, FS_Subset
<1>7. R = A \cup B /\ A \cap B = {}
  BY DEF RoomAt
<1>8. IsFiniteSet(W) /\ (warm.step \in {"open", "ready", "failed"} => Cardinality(W) = 0)
      /\ Cardinality(W) <= 1
  <2>1. W = {} \/ W = {warm.conn}
    OBVIOUS
  <2>2. warm.step \in {"open", "ready", "failed"} => W = {}
    BY <1>1, PoolAssumption DEF PlacesInv, WarmPlace
  <2>3. Cardinality({}) = 0 /\ IsFiniteSet({})
    BY FS_EmptySet
  <2>4. Cardinality({warm.conn}) = 1 /\ IsFiniteSet({warm.conn})
    BY FS_Singleton
  <2> HIDE DEF W
  <2> QED
    BY <2>1, <2>2, <2>3, <2>4
<1>9. warm.step # "ready" => R = {} /\ A = {} /\ B = {}
  BY <1>1 DEF PlacesInv, WarmPlace, RoomAt
<1>10. Roomed = Cardinality(R)
  BY DEF Roomed, CountIn
<1>11. Len(available) + Roomed <= Max
  BY <1>1 DEF PermitsInv
<1>12. /\ warm.step # "ready" => Len(available) = warm.opened
       /\ warm.step \in {"store", "count", "push"} => warm.opened < Max
       /\ warm.step \in {"open", "store", "count", "push", "ready", "failed"}
  BY <1>1 DEF PlacesInv, WarmPlace, PoolTypeOK
<1>13. Cardinality(O) + Cardinality(B) <= Max => CapacityRespected
  <2>1. ASSUME \A t \in Calls : at[t] = "out" PROVE permits = Max
    <3>1. {t \in Calls : at[t] \in InsideAt} = {}
      BY <2>1 DEF InsideAt, RoomAt
    <3>2. Inside = 0
      BY <3>1, FS_EmptySet DEF Inside, CountIn
    <3>3. permits + Inside = Max /\ permits \in Nat
      BY <1>1, PoolAssumption DEF PermitsInv, PoolTypeOK
    <3> QED
      BY <3>2, <3>3
  <2> QED
    BY <2>1 DEF CapacityRespected
<1> HIDE DEF O, A, B, R, H, W
<1>14. /\ Cardinality(R) = Cardinality(A) + Cardinality(B)
       /\ Cardinality(A) \in Nat /\ Cardinality(B) \in Nat
  BY <1>5, <1>6, <1>7, UnionSize
<1>15. /\ IsFiniteSet(Stacked \cup H) /\ Cardinality(Stacked \cup H) \in Nat
       /\ Cardinality(Stacked \cup H) <= Len(available) + Cardinality(A)
  <2>1. /\ IsFiniteSet(Stacked \cup H) /\ Cardinality(Stacked \cup H) \in Nat
        /\ Cardinality(H) \in Nat
        /\ Cardinality(Stacked \cup H) <= Cardinality(Stacked) + Cardinality(H)
    BY <1>4, <1>5, UnionSize
  <2> QED
    BY <1>2, <1>4, <1>5, <1>14, <2>1
<1>16. /\ IsFiniteSet((Stacked \cup H) \cup W) /\ Cardinality(W) \in Nat
       /\ Cardinality((Stacked \cup H) \cup W) \in Nat
       /\ Cardinality((Stacked \cup H) \cup W) <= Len(available) + Cardinality(A) + Cardinality(W)
  <2>1. /\ IsFiniteSet((Stacked \cup H) \cup W) /\ Cardinality(W) \in Nat
        /\ Cardinality((Stacked \cup H) \cup W) \in Nat
        /\ Cardinality((Stacked \cup H) \cup W) <= Cardinality(Stacked \cup H) + Cardinality(W)
    BY <1>8, <1>15, UnionSize
  <2> QED
    BY <1>2, <1>14, <1>15, <2>1
<1>17. IsFiniteSet(O) /\ Cardinality(O) <= Cardinality((Stacked \cup H) \cup W)
  BY <1>3, <1>16, FS_Subset
<1>18. Cardinality(O) \in Nat
  BY <1>17, FS_CardinalityType
<1>19. Cardinality(O) + Cardinality(B) <= Len(available) + Cardinality(R) + Cardinality(W)
  BY <1>2, <1>14, <1>16, <1>17, <1>18
<1>20. CASE warm.step \in {"open", "ready", "failed"}
  BY <1>2, <1>8, <1>10, <1>11, <1>13, <1>14, <1>18, <1>19, <1>20
<1>21. CASE warm.step \in {"store", "count", "push"}
  <2>1. Cardinality(R) = 0
    BY <1>9, <1>21, FS_EmptySet
  <2> QED
    BY <1>2, <1>8, <1>12, <1>13, <1>14, <1>16, <1>18, <1>19, <1>21, <2>1, SMTT(30)
<1> QED
  BY <1>12, <1>13, <1>20, <1>21

\* Connections in use, idle and being opened are at most max_connections, and no
\* permit is lost by a call that failed or was cancelled (acquire and Drop).
THEOREM PoolCapacity == Spec => []CapacityRespected
BY RoomIsEnough, PoolInvariant, PTL
-----------------------------------------------------------------------------
(* The idle gauge.                                                         *)

\* What the steps that are under way still owe the gauge: a call or a driver
\* that has taken an idle connection off counts it down after, and a call or
\* the warm-up that has made one idle counts it up after.
Idles == CountIn(state, Conns, {"idle"})
Popped == CountIn(at, Calls, {"popped"})
Returned == CountIn(at, Calls, {"count_idle"})
Closing == CountIn(driver, Conns, {"count_open_idle", "count_idle"})
Warmed == IF warm.step = "count" THEN 1 ELSE 0

IdleShown == Idles + Popped + Closing - Returned - Warmed

\* The gauge shows that, as a word.
GaugeInv == \E k \in Int : IdleShown = gauge["idle"] + k * Word

\* The counts are numbers.
LEMMA CountsAreNumbers ==
    /\ Idles \in Nat /\ Popped \in Nat /\ Returned \in Nat /\ Closing \in Nat
    /\ Warmed \in Nat /\ IdleShown \in Int
<1>1. ASSUME NEW D, IsFiniteSet(D), NEW f, NEW P PROVE CountIn(f, D, P) \in Nat
  <2>1. IsFiniteSet({s \in D : f[s] \in P})
    BY <1>1, FS_Subset
  <2> QED
    BY <2>1, FS_CardinalityType DEF CountIn
<1>2. Idles \in Nat /\ Closing \in Nat
  BY <1>1, PoolAssumption DEF Idles, Closing
<1>3. Popped \in Nat /\ Returned \in Nat
  BY <1>1, PoolAssumption DEF Popped, Returned
<1> QED
  BY <1>2, <1>3 DEF Warmed, IdleShown

\* A word counted up or down differs by one and perhaps a turn (fetch_add and
\* fetch_sub wrap).
LEMMA Wraps ==
    ASSUME NEW g \in 0..(Word - 1)
    PROVE  /\ (g + 1) % Word = g + 1 \/ (g + 1) % Word = g + 1 - Word
           /\ (g + Word - 1) % Word = g - 1 \/ (g + Word - 1) % Word = g - 1 + Word
<1>1. Word \in Nat /\ Word > 0 /\ g \in Nat /\ g < Word
  BY PoolAssumption, FS_CardinalityType
<1>2. ASSUME NEW n \in Nat, n < Word PROVE n % Word = n
  BY <1>1, <1>2
<1>3. ASSUME NEW n \in Nat, n < Word PROVE (n + Word) % Word = n
  BY <1>1, <1>3
<1>4. CASE g + 1 < Word
  BY <1>1, <1>2, <1>4
<1>5. CASE g + 1 = Word
  BY <1>1, <1>3, <1>5
<1>6. CASE g = 0
  BY <1>1, <1>2, <1>6
<1>7. CASE g > 0
  BY <1>1, <1>3, <1>7
<1> QED
  BY <1>1, <1>4, <1>5, <1>6, <1>7

\* A step that moves what is owed and the gauge alike keeps them together.
LEMMA GaugeMoves ==
    ASSUME PoolTypeOK, GaugeInv,
           \/ IdleShown' = IdleShown /\ gauge'["idle"] = gauge["idle"]
           \/ IdleShown' = IdleShown + 1 /\ gauge'["idle"] = (gauge["idle"] + 1) % Word
           \/ IdleShown' = IdleShown - 1 /\ gauge'["idle"] = (gauge["idle"] + Word - 1) % Word
    PROVE  GaugeInv'
<1>1. PICK k \in Int : IdleShown = gauge["idle"] + k * Word
  BY DEF GaugeInv
<1>2. gauge["idle"] \in 0..(Word - 1) /\ Word \in Nat /\ gauge["idle"] \in Int
  BY PoolAssumption DEF PoolTypeOK
<1>3. /\ (k + 1) * Word = k * Word + Word /\ (k - 1) * Word = k * Word - Word
      /\ k * Word \in Int
  BY <1>2
<1>4. /\ \/ (gauge["idle"] + 1) % Word = gauge["idle"] + 1
         \/ (gauge["idle"] + 1) % Word = gauge["idle"] + 1 - Word
      /\ \/ (gauge["idle"] + Word - 1) % Word = gauge["idle"] - 1
         \/ (gauge["idle"] + Word - 1) % Word = gauge["idle"] - 1 + Word
  BY <1>2, Wraps
<1>5. \E j \in {k, k + 1, k - 1} : IdleShown' = gauge'["idle"] + j * Word
  BY <1>1, <1>2, <1>3, <1>4
<1> QED
  BY <1>5 DEF GaugeInv

\* A call's move, counted.
LEMMA CallCounted ==
    ASSUME NEW t \in Calls, \A s \in Calls : s # t => at'[s] = at[s]
    PROVE  /\ Popped' = Popped - (IF at[t] = "popped" THEN 1 ELSE 0)
                               + (IF at'[t] = "popped" THEN 1 ELSE 0)
           /\ Returned' = Returned - (IF at[t] = "count_idle" THEN 1 ELSE 0)
                                   + (IF at'[t] = "count_idle" THEN 1 ELSE 0)
<1>1. /\ Popped' = CountIn(at', Calls, {"popped"}) /\ Returned' = CountIn(at', Calls, {"count_idle"})
      /\ Popped = CountIn(at, Calls, {"popped"}) /\ Returned = CountIn(at, Calls, {"count_idle"})
  BY DEF Popped, Returned, CountIn
<1>2. IsFiniteSet(Calls) /\ OneMoves(at, at', Calls, t)
  BY PoolAssumption DEF OneMoves
<1>3. /\ (at[t] \in {"popped"} <=> at'[t] \in {"popped"}) => Popped' = Popped
      /\ at[t] \notin {"popped"} /\ at'[t] \in {"popped"} => Popped' = Popped + 1
      /\ at[t] \in {"popped"} /\ at'[t] \notin {"popped"} => Popped' = Popped - 1
  BY <1>1, <1>2, RecountCases
<1>4. /\ (at[t] \in {"count_idle"} <=> at'[t] \in {"count_idle"}) => Returned' = Returned
      /\ at[t] \notin {"count_idle"} /\ at'[t] \in {"count_idle"} => Returned' = Returned + 1
      /\ at[t] \in {"count_idle"} /\ at'[t] \notin {"count_idle"} => Returned' = Returned - 1
  BY <1>1, <1>2, RecountCases
<1> QED
  BY <1>3, <1>4, CountsAreNumbers

\* A connection's change of state, counted.
LEMMA ConnCounted ==
    ASSUME NEW c \in Conns, \A d \in Conns : d # c => state'[d] = state[d]
    PROVE  Idles' = Idles - (IF state[c] = "idle" THEN 1 ELSE 0)
                          + (IF state'[c] = "idle" THEN 1 ELSE 0)
<1>1. Idles' = CountIn(state', Conns, {"idle"}) /\ Idles = CountIn(state, Conns, {"idle"})
  BY DEF Idles, CountIn
<1>2. IsFiniteSet(Conns) /\ OneMoves(state, state', Conns, c)
  BY PoolAssumption DEF OneMoves
<1>3. /\ (state[c] \in {"idle"} <=> state'[c] \in {"idle"}) => Idles' = Idles
      /\ state[c] \notin {"idle"} /\ state'[c] \in {"idle"} => Idles' = Idles + 1
      /\ state[c] \in {"idle"} /\ state'[c] \notin {"idle"} => Idles' = Idles - 1
  BY <1>1, <1>2, RecountCases
<1> QED
  BY <1>3, CountsAreNumbers

\* A driver's move, counted.
LEMMA DriverCounted ==
    ASSUME NEW c \in Conns, \A d \in Conns : d # c => driver'[d] = driver[d]
    PROVE  Closing' = Closing
                        - (IF driver[c] \in {"count_open_idle", "count_idle"} THEN 1 ELSE 0)
                        + (IF driver'[c] \in {"count_open_idle", "count_idle"} THEN 1 ELSE 0)
<1> DEFINE P == {"count_open_idle", "count_idle"}
<1>1. Closing' = CountIn(driver', Conns, P) /\ Closing = CountIn(driver, Conns, P)
  BY DEF Closing, CountIn
<1>2. IsFiniteSet(Conns) /\ OneMoves(driver, driver', Conns, c)
  BY PoolAssumption DEF OneMoves
<1> HIDE DEF P
<1>3. /\ (driver[c] \in P <=> driver'[c] \in P) => Closing' = Closing
      /\ driver[c] \notin P /\ driver'[c] \in P => Closing' = Closing + 1
      /\ driver[c] \in P /\ driver'[c] \notin P => Closing' = Closing - 1
  BY <1>1, <1>2, RecountCases
<1>4. Closing' = Closing - (IF driver[c] \in P THEN 1 ELSE 0) + (IF driver'[c] \in P THEN 1 ELSE 0)
  BY <1>3, CountsAreNumbers
<1> QED
  BY <1>4 DEF P

\* A connection that was never opened has no driver (register_connection
\* starts both).
DriversInv == \A c \in Conns : state[c] = "none" => driver[c] = "none"

\* Every step keeps that.
LEMMA DriversStep ==
    ASSUME PoolTypeOK, DriversInv, [Next]_vars
    PROVE  DriversInv'
<1> USE DEF PoolTypeOK, DriversInv
<1>1. ASSUME UNCHANGED driver,
             \A c \in Conns : state'[c] = state[c] \/ state'[c] # "none"
      PROVE  DriversInv'
  BY <1>1
<1>2. ASSUME NEW c \in Conns, Register(c) PROVE DriversInv'
  BY <1>2 DEF Register
<1>3. ASSUME NEW c \in Conns, Driver(c) PROVE DriversInv'
  BY <1>3 DEF Driver, Break, CloseSwap, CloseCountOpen, CloseCountIdle
<1>4. CASE Warm
  BY <1>1, <1>2, <1>4 DEF Warm, WarmFails, WarmStore, WarmCount, WarmPush, WarmDone, WarmOpen
<1>5. ASSUME NEW t \in Calls, PoolStep(t) PROVE DriversInv'
  BY <1>1, <1>2, <1>5 DEF PoolStep, Permit, Pop, Checkout, Discard, NoneIdle, CountIdle, Push,
     CountClosed, ReturnPermit, Open
<1>6. CASE UNCHANGED poolVars
  BY <1>1, <1>6 DEF poolVars
<1>7. ASSUME NEW t \in Calls, CallStep(t) \/ AcquireFails(t) \/ Abandon(t) \/ Cancel(t),
             ~UNCHANGED poolVars
      PROVE  DriversInv'
  <2>1. Start(t) \/ Leave(t) \/ AcquireFails(t) \/ Abandon(t)
    BY <1>7 DEF CallStep, WithDeadline, Again, BeginOk, BeginFails, OperationOk, OperationFails, OperationTimeout,
       CommitOk, CommitRefused, CommitLost, CommitTimeout, RollbackOk, RollbackFails, StatementEnds,
       Cancel
  <2> QED
    BY <1>1, <1>7, <2>1 DEF Start, Leave, AcquireFails, Abandon, Enqueue, Drop, AcquireTimeout,
       OpenFails, AbandonWait, AbandonOpen
<1> QED
  BY <1>3, <1>4, <1>5, <1>6, <1>7 DEF Next, ServerResolves, vars

\* The steps of the warm-up.
LEMMA WarmGauge ==
    ASSUME PoolInv, GaugeInv, DriversInv, Warm
    PROVE  GaugeInv'
<1>1. PoolTypeOK /\ WarmPlace
  BY DEF PoolInv, TypeOK, PlacesInv
<1>2. UNCHANGED <<Popped, Returned>>
  BY DEF Popped, Returned, Warm, WarmFails, WarmStore, WarmCount, WarmPush, WarmDone, WarmOpen
<1>3. UNCHANGED state => UNCHANGED Idles
  BY DEF Idles
<1>4. UNCHANGED driver => UNCHANGED Closing
  BY DEF Closing
<1> USE <1>1, CountsAreNumbers
<1>5. ASSUME NEW c \in Conns, WarmOpen(c) PROVE GaugeInv'
  <2>1. Idles' = Idles
    BY <1>5, ConnCounted DEF WarmOpen, Register, PoolTypeOK
  <2>2. Closing' = Closing
    BY <1>5, DriverCounted DEF WarmOpen, Register, PoolTypeOK, DriversInv
  <2>3. Warmed' = Warmed /\ gauge'["idle"] = gauge["idle"]
    BY <1>5 DEF WarmOpen, Register, Warmed, PoolTypeOK, Inc
  <2> QED
    BY <1>2, <2>1, <2>2, <2>3, GaugeMoves DEF IdleShown
<1>6. CASE WarmFails \/ WarmPush \/ WarmDone
  <2>1. UNCHANGED <<state, driver, gauge>> /\ Warmed' = Warmed
    BY <1>6 DEF WarmFails, WarmPush, WarmDone, Warmed, PoolTypeOK
  <2> QED
    BY <1>2, <1>3, <1>4, <2>1, GaugeMoves DEF IdleShown
<1>7. CASE WarmStore
  <2>1. Idles' = Idles + 1
    <3>1. warm.conn \in Conns /\ state[warm.conn] # "idle"
      BY <1>7 DEF WarmStore, WarmPlace
    <3> QED
      BY <1>7, <3>1, ConnCounted DEF WarmStore, PoolTypeOK
  <2>2. Warmed = 0 /\ Warmed' = 1 /\ UNCHANGED <<driver, gauge>>
    BY <1>7 DEF WarmStore, Warmed, PoolTypeOK
  <2> QED
    BY <1>2, <1>4, <2>1, <2>2, GaugeMoves DEF IdleShown
<1>8. CASE WarmCount
  <2>1. Warmed = 1 /\ Warmed' = 0 /\ UNCHANGED <<state, driver>>
        /\ gauge'["idle"] = (gauge["idle"] + 1) % Word
    BY <1>8 DEF WarmCount, Warmed, PoolTypeOK, Inc
  <2> QED
    BY <1>2, <1>3, <1>4, <2>1, GaugeMoves DEF IdleShown
<1> QED
  BY <1>5, <1>6, <1>7, <1>8 DEF Warm

\* The steps of a driver.
LEMMA DriverGauge ==
    ASSUME PoolInv, GaugeInv, NEW c \in Conns, Driver(c)
    PROVE  GaugeInv'
<1>1. PoolTypeOK
  BY DEF PoolInv, TypeOK
<1>2. UNCHANGED <<Popped, Returned, Warmed>>
  BY DEF Popped, Returned, Warmed, Driver, Break, CloseSwap, CloseCountOpen, CloseCountIdle
<1>3. UNCHANGED state => UNCHANGED Idles
  BY DEF Idles
<1> USE <1>1, CountsAreNumbers
<1>4. CASE Break(c)
  <2>1. UNCHANGED <<state, gauge>> /\ Closing' = Closing
    BY <1>4, DriverCounted DEF Break, PoolTypeOK
  <2> QED
    BY <1>2, <1>3, <2>1, GaugeMoves DEF IdleShown
<1>5. CASE CloseSwap(c)
  <2>1. Closing' = Closing + (IF state[c] = "idle" THEN 1 ELSE 0)
    BY <1>5, DriverCounted, SMTT(30) DEF CloseSwap, PoolTypeOK
  <2>2. Idles' = Idles - (IF state[c] = "idle" THEN 1 ELSE 0)
    BY <1>5, ConnCounted DEF CloseSwap, PoolTypeOK
  <2>3. UNCHANGED gauge
    BY <1>5 DEF CloseSwap
  <2> QED
    BY <1>2, <2>1, <2>2, <2>3, GaugeMoves DEF IdleShown
<1>6. CASE CloseCountOpen(c)
  <2>1. Closing' = Closing
    BY <1>6, DriverCounted, SMTT(30) DEF CloseCountOpen, PoolTypeOK
  <2>2. gauge'["idle"] = gauge["idle"] /\ UNCHANGED state
    BY <1>6 DEF CloseCountOpen, Dec, PoolTypeOK
  <2> QED
    BY <1>2, <1>3, <2>1, <2>2, GaugeMoves DEF IdleShown
<1>7. CASE CloseCountIdle(c)
  <2>1. Closing' = Closing - 1
    BY <1>7, DriverCounted DEF CloseCountIdle, PoolTypeOK
  <2>2. gauge'["idle"] = (gauge["idle"] + Word - 1) % Word /\ UNCHANGED state
    BY <1>7 DEF CloseCountIdle, Dec, PoolTypeOK
  <2> QED
    BY <1>2, <1>3, <2>1, <2>2, GaugeMoves DEF IdleShown
<1> QED
  BY <1>4, <1>5, <1>6, <1>7 DEF Driver

\* A step of a call that leaves the drivers and the warm-up alone moves the gauge
\* by what it changes in the state of its connection and in its own position.
LEMMA CallGauge ==
    ASSUME PoolTypeOK, GaugeInv, NEW t \in Calls, UNCHANGED <<driver, warm>>,
           \A s \in Calls : s # t => at'[s] = at[s],
           NEW i \in {-1, 0, 1}, Idles' = Idles + i,
           LET n == i - (IF at[t] = "popped" THEN 1 ELSE 0) + (IF at'[t] = "popped" THEN 1 ELSE 0)
                      + (IF at[t] = "count_idle" THEN 1 ELSE 0)
                      - (IF at'[t] = "count_idle" THEN 1 ELSE 0)
           IN  \/ n = 0 /\ gauge'["idle"] = gauge["idle"]
               \/ n = 1 /\ gauge'["idle"] = (gauge["idle"] + 1) % Word
               \/ n = -1 /\ gauge'["idle"] = (gauge["idle"] + Word - 1) % Word
    PROVE  GaugeInv'
<1>1. Closing' = Closing /\ Warmed' = Warmed
  BY DEF Closing, Warmed
<1>2. /\ Popped' = Popped - (IF at[t] = "popped" THEN 1 ELSE 0)
                          + (IF at'[t] = "popped" THEN 1 ELSE 0)
      /\ Returned' = Returned - (IF at[t] = "count_idle" THEN 1 ELSE 0)
                              + (IF at'[t] = "count_idle" THEN 1 ELSE 0)
  BY CallCounted
<1>3. IdleShown' = IdleShown + (i
        - (IF at[t] = "popped" THEN 1 ELSE 0) + (IF at'[t] = "popped" THEN 1 ELSE 0)
        + (IF at[t] = "count_idle" THEN 1 ELSE 0) - (IF at'[t] = "count_idle" THEN 1 ELSE 0))
  BY <1>1, <1>2, CountsAreNumbers DEF IdleShown
<1>4. \/ IdleShown' = IdleShown /\ gauge'["idle"] = gauge["idle"]
      \/ IdleShown' = IdleShown + 1 /\ gauge'["idle"] = (gauge["idle"] + 1) % Word
      \/ IdleShown' = IdleShown - 1 /\ gauge'["idle"] = (gauge["idle"] + Word - 1) % Word
  <2> DEFINE n == i - (IF at[t] = "popped" THEN 1 ELSE 0) + (IF at'[t] = "popped" THEN 1 ELSE 0)
                     + (IF at[t] = "count_idle" THEN 1 ELSE 0)
                     - (IF at'[t] = "count_idle" THEN 1 ELSE 0)
  <2>1. \/ n = 0 /\ gauge'["idle"] = gauge["idle"]
        \/ n = 1 /\ gauge'["idle"] = (gauge["idle"] + 1) % Word
        \/ n = -1 /\ gauge'["idle"] = (gauge["idle"] + Word - 1) % Word
    OBVIOUS
  <2>2. IdleShown' = IdleShown + n
    BY <1>3
  <2> HIDE DEF n
  <2>3. IdleShown + 0 = IdleShown /\ IdleShown + (-1) = IdleShown - 1
    BY CountsAreNumbers
  <2> QED
    BY <2>1, <2>2, <2>3, Zenon
<1> QED
  BY <1>4, GaugeMoves

\* The steps inside acquire and drop.
LEMMA StepGauge ==
    ASSUME PoolInv, GaugeInv, DriversInv, NEW t \in Calls, PoolStep(t)
    PROVE  GaugeInv'
<1>1. /\ PoolTypeOK /\ CallPlace(t) /\ at = [s \in Calls |-> at[s]]
      /\ state = [c \in Conns |-> state[c]] /\ conn[t] \in Conns \cup {NoConn}
      /\ gauge \in [{"idle", "in_use", "open", "waiters"} -> 0..(Word - 1)]
      /\ available \in Seq(Conns) /\ EachOnce
  BY DEF PoolInv, TypeOK, PlacesInv, StackPlace, PoolTypeOK
<1>2. UNCHANGED state => Idles' = Idles + 0
  BY CountsAreNumbers DEF Idles
<1> USE <1>1, CountsAreNumbers DEF Goto, Inc, Dec
<1>3. CASE Permit(t) \/ NoneIdle(t) \/ Push(t) \/ CountClosed(t) \/ ReturnPermit(t)
  <2>1. /\ UNCHANGED <<state, driver, warm>> /\ gauge'["idle"] = gauge["idle"]
        /\ \A s \in Calls : s # t => at'[s] = at[s]
        /\ at[t] \notin {"popped", "count_idle"} /\ at'[t] \notin {"popped", "count_idle"}
    BY <1>3 DEF Permit, NoneIdle, Push, CountClosed, ReturnPermit
  <2> QED
    BY <1>2, <2>1, CallGauge
<1>4. CASE Pop(t)
  <2> DEFINE c == available[Len(available)]
  <2>1. c \in Conns
    BY <1>4, PopStack DEF Pop
  <2>2. CASE state[c] = "idle"
    <3>1. /\ state' = [state EXCEPT ![c] = "checked_out"] /\ at' = [at EXCEPT ![t] = "popped"]
          /\ UNCHANGED <<driver, warm, gauge>> /\ at[t] = "permitted"
      BY <1>4, <2>2 DEF Pop
    <3>2. Idles' = Idles + (-1)
      BY <2>1, <2>2, <3>1, ConnCounted, SMTT(30)
    <3> QED
      BY <3>1, <3>2, CallGauge, SMTT(30)
  <2>3. CASE state[c] # "idle"
    <3>1. UNCHANGED <<state, driver, warm, gauge, at>>
      BY <1>4, <2>3 DEF Pop
    <3> QED
      BY <1>2, <3>1, CallGauge
  <2> QED
    BY <2>2, <2>3
<1>5. CASE Checkout(t)
  <2>1. /\ UNCHANGED <<state, driver, warm>> /\ at' = [at EXCEPT ![t] = "held"]
        /\ at[t] = "popped" /\ gauge'["idle"] = (gauge["idle"] + Word - 1) % Word
    BY <1>5 DEF Checkout
  <2> QED
    BY <1>2, <2>1, CallGauge
<1>6. CASE Discard(t)
  <2>1. /\ UNCHANGED <<driver, warm>> /\ at' = [at EXCEPT ![t] = "permitted"]
        /\ state' = [state EXCEPT ![conn[t]] = "closed"]
        /\ at[t] = "popped" /\ gauge'["idle"] = (gauge["idle"] + Word - 1) % Word
    BY <1>6 DEF Discard
  <2>2. conn[t] \in Conns /\ state[conn[t]] # "idle"
    BY <2>1 DEF CallPlace, HeldState
  <2>3. Idles' = Idles + 0
    BY <2>1, <2>2, ConnCounted
  <2> QED
    BY <2>1, <2>3, CallGauge
<1>7. CASE CountIdle(t)
  <2>1. /\ UNCHANGED <<state, driver, warm>> /\ at' = [at EXCEPT ![t] = "push"]
        /\ at[t] = "count_idle" /\ gauge'["idle"] = (gauge["idle"] + 1) % Word
    BY <1>7 DEF CountIdle
  <2> QED
    BY <1>2, <2>1, CallGauge
<1>8. ASSUME NEW c \in Conns, Open(t, c) PROVE GaugeInv'
  <2>1. /\ state[c] = "none" /\ state' = [state EXCEPT ![c] = "checked_out"]
        /\ driver' = [driver EXCEPT ![c] = "running"] /\ UNCHANGED warm
        /\ at[t] = "opening" /\ at' = [at EXCEPT ![t] = "held"]
        /\ gauge'["idle"] = gauge["idle"] /\ driver = [d \in Conns |-> driver[d]]
        /\ driver[c] = "none"
    BY <1>8 DEF Open, Register, PoolTypeOK, DriversInv
  <2>2. Idles' = Idles /\ Closing' = Closing
    BY <2>1, ConnCounted, DriverCounted
  <2>3. Popped' = Popped /\ Returned' = Returned
    BY <2>1, CallCounted
  <2>4. IdleShown' = IdleShown
    BY <2>1, <2>2, <2>3 DEF IdleShown, Warmed
  <2> QED
    BY <2>1, <2>4, GaugeMoves
<1> QED
  BY <1>3, <1>4, <1>5, <1>6, <1>7, <1>8 DEF PoolStep

\* The ways in and out.
LEMMA OtherGauge ==
    ASSUME PoolInv, GaugeInv, NEW t \in Calls,
           \/ Enqueue(t) \/ AcquireTimeout(t) \/ AbandonWait(t)
           \/ OpenFails(t) \/ AbandonOpen(t) \/ \E r \in BOOLEAN : Drop(t, r)
    PROVE  GaugeInv'
<1>1. /\ PoolTypeOK /\ CallPlace(t) /\ at = [s \in Calls |-> at[s]]
      /\ state = [c \in Conns |-> state[c]] /\ conn[t] \in Conns \cup {NoConn}
      /\ gauge \in [{"idle", "in_use", "open", "waiters"} -> 0..(Word - 1)]
  BY DEF PoolInv, TypeOK, PlacesInv, PoolTypeOK
<1>2. UNCHANGED state => Idles' = Idles + 0
  BY CountsAreNumbers DEF Idles
<1> USE <1>1, CountsAreNumbers DEF Goto, Inc, Dec
<1>3. CASE Enqueue(t) \/ AcquireTimeout(t) \/ AbandonWait(t) \/ OpenFails(t) \/ AbandonOpen(t)
  <2>1. /\ UNCHANGED <<state, driver, warm>> /\ gauge'["idle"] = gauge["idle"]
        /\ \A s \in Calls : s # t => at'[s] = at[s]
        /\ at[t] \notin {"popped", "count_idle"} /\ at'[t] \notin {"popped", "count_idle"}
    BY <1>3 DEF Enqueue, AcquireTimeout, AbandonWait, OpenFails, AbandonOpen
  <2> QED
    BY <1>2, <2>1, CallGauge
<1>4. ASSUME NEW r \in BOOLEAN, Drop(t, r) PROVE GaugeInv'
  <2>1. at[t] = "held" /\ UNCHANGED <<driver, warm>> /\ gauge'["idle"] = gauge["idle"]
    BY <1>4 DEF Drop
  <2>2. CASE state[conn[t]] = "checked_out" /\ r
    <3>1. /\ state' = [state EXCEPT ![conn[t]] = "idle"] /\ at' = [at EXCEPT ![t] = "count_idle"]
          /\ conn[t] \in Conns
      BY <1>4, <2>1, <2>2 DEF Drop, CallPlace
    <3>2. Idles' = Idles + 1
      BY <2>2, <3>1, ConnCounted
    <3> QED
      BY <2>1, <3>1, <3>2, CallGauge
  <2>3. CASE ~(state[conn[t]] = "checked_out" /\ r)
    <3>1. /\ UNCHANGED state \/ /\ state' = [state EXCEPT ![conn[t]] = "closed"]
                                /\ state[conn[t]] = "checked_out"
          /\ at' = [at EXCEPT ![t] = "count_open"] \/ at' = [at EXCEPT ![t] = "release"]
          /\ conn[t] \in Conns
      BY <1>4, <2>1, <2>3 DEF Drop, CallPlace
    <3>2. Idles' = Idles + 0
      BY <1>2, <3>1, ConnCounted
    <3>3. at'[t] \notin {"popped", "count_idle"} /\ \A s \in Calls : s # t => at'[s] = at[s]
      BY <3>1
    <3> QED
      BY <2>1, <3>2, <3>3, CallGauge
  <2> QED
    BY <2>2, <2>3
<1> QED
  BY <1>3, <1>4

\* At first nothing is idle and nothing is owed.
LEMMA GaugeInit == Init => GaugeInv /\ DriversInv
<1> SUFFICES ASSUME Init PROVE GaugeInv /\ DriversInv
  OBVIOUS
<1> USE DEF Init, PoolInit
<1>1. DriversInv
  BY DEF DriversInv
<1>2. /\ {c \in Conns : state[c] \in {"idle"}} = {}
      /\ {c \in Conns : driver[c] \in {"count_open_idle", "count_idle"}} = {}
      /\ {t \in Calls : at[t] \in {"popped"}} = {}
      /\ {t \in Calls : at[t] \in {"count_idle"}} = {}
  OBVIOUS
<1>3. Idles = 0 /\ Closing = 0 /\ Popped = 0 /\ Returned = 0
  BY <1>2, FS_EmptySet DEF Idles, Closing, Popped, Returned, CountIn
<1>4. Warmed = 0 /\ gauge["idle"] = 0
  BY DEF Warmed
<1>5. IdleShown = gauge["idle"] + 0 * Word
  BY <1>3, <1>4, PoolAssumption DEF IdleShown
<1> QED
  BY <1>1, <1>5 DEF GaugeInv

\* Every step keeps the gauge and what is owed together.
LEMMA GaugeStepwise ==
    ASSUME PoolInv, GaugeInv, DriversInv, [Next]_vars
    PROVE  GaugeInv'
<1>1. CASE Warm
  BY <1>1, WarmGauge
<1>2. ASSUME NEW t \in Calls, PoolStep(t) PROVE GaugeInv'
  BY <1>2, StepGauge
<1>3. ASSUME NEW c \in Conns, Driver(c) PROVE GaugeInv'
  BY <1>3, DriverGauge
<1>4. CASE UNCHANGED poolVars
  BY <1>4 DEF GaugeInv, IdleShown, Idles, Popped, Returned, Closing, Warmed, poolVars
<1>5. ASSUME NEW t \in Calls, CallStep(t) \/ AcquireFails(t) \/ Abandon(t) \/ Cancel(t),
             ~UNCHANGED poolVars
      PROVE  GaugeInv'
  <2>1. Start(t) \/ Leave(t) \/ AcquireFails(t) \/ Abandon(t)
    BY <1>5 DEF CallStep, WithDeadline, Again, BeginOk, BeginFails, OperationOk, OperationFails, OperationTimeout,
       CommitOk, CommitRefused, CommitLost, CommitTimeout, RollbackOk, RollbackFails, StatementEnds,
       Cancel
  <2>2. reusable[t] \in BOOLEAN
    BY DEF PoolInv, TypeOK
  <2>3. \/ Enqueue(t) \/ AcquireTimeout(t) \/ AbandonWait(t)
        \/ OpenFails(t) \/ AbandonOpen(t) \/ \E r \in BOOLEAN : Drop(t, r)
    BY <1>5, <2>1, <2>2 DEF Start, Leave, AcquireFails, Abandon
  <2> QED
    BY <2>3, OtherGauge
<1> QED
  BY <1>1, <1>2, <1>3, <1>4, <1>5 DEF Next, ServerResolves, vars

\* A multiple of the word between two numbers below it is nothing.
LEMMA NoTurns ==
    ASSUME NEW m \in Nat, NEW n \in Nat, NEW w \in Nat, m < w, n < w, NEW k \in Int,
           m = n + k * w
    PROVE  m = n
<1>1. CASE k = 0
  BY <1>1
<1>2. CASE k >= 1
  <2>1. k * w = w + (k - 1) * w /\ (k - 1) * w >= 0
    BY <1>2
  <2> QED
    BY <2>1
<1>3. CASE k <= -1
  <2>1. k * w = -w - (-k - 1) * w /\ (-k - 1) * w >= 0
    BY <1>3
  <2> QED
    BY <2>1
<1> QED
  BY <1>1, <1>2, <1>3

\* Once nobody is between two of its atomic operations, the idle gauge is the
\* number of idle connections, although it may have wrapped on the way.
THEOREM PoolIdleGaugeSettles == Spec => []IdleGaugeSettles
<1>1. PoolInv /\ GaugeInv => IdleGaugeSettles
  <2> SUFFICES ASSUME PoolInv, GaugeInv, Quiet
               PROVE  gauge["idle"] = Cardinality({c \in Conns : state[c] = "idle"})
    BY DEF IdleGaugeSettles
  <2>1. /\ {c \in Conns : driver[c] \in {"count_open_idle", "count_idle"}} = {}
        /\ {t \in Calls : at[t] \in {"popped"}} = {}
        /\ {t \in Calls : at[t] \in {"count_idle"}} = {}
    BY DEF Quiet
  <2>2. Closing = 0 /\ Popped = 0 /\ Returned = 0
    BY <2>1, FS_EmptySet DEF Closing, Popped, Returned, CountIn
  <2>3. Warmed = 0
    BY DEF Quiet, Warmed
  <2>4. PICK k \in Int : Idles = gauge["idle"] + k * Word
    BY <2>2, <2>3, CountsAreNumbers DEF GaugeInv, IdleShown
  <2>5. Idles = Cardinality({c \in Conns : state[c] = "idle"})
    <3>1. {c \in Conns : state[c] \in {"idle"}} = {c \in Conns : state[c] = "idle"}
      OBVIOUS
    <3> QED
      BY <3>1 DEF Idles, CountIn
  <2>6. Idles <= Max
    <3> DEFINE I == {c \in Conns : state[c] = "idle"}
               O == {c \in Conns : state[c] \in {"checked_out", "idle"}}
               B == {t \in Calls : at[t] = "opening"}
    <3>1. IsFiniteSet(O) /\ IsFiniteSet(B) /\ I \subseteq O
      BY PoolAssumption, FS_Subset
    <3>2. Cardinality(O) + Cardinality(B) <= Max
      BY RoomIsEnough DEF CapacityRespected
    <3>3. Idles = Cardinality(I)
      BY <2>5
    <3> HIDE DEF I, O, B
    <3>4. Cardinality(I) <= Cardinality(O)
      BY <3>1, FS_Subset
    <3>5. Cardinality(O) \in Nat /\ Cardinality(B) \in Nat
      BY <3>1, FS_CardinalityType
    <3> QED
      BY <3>2, <3>3, <3>4, <3>5, CountsAreNumbers, PoolAssumption
  <2>7. Cardinality(Calls) \in Nat
    BY PoolAssumption, FS_CardinalityType
  <2>8. /\ Word \in Nat /\ Idles < Word /\ Idles \in Nat
        /\ gauge["idle"] \in Nat /\ gauge["idle"] < Word
    BY <2>6, <2>7, CountsAreNumbers, PoolAssumption DEF PoolInv, TypeOK, PoolTypeOK
  <2>9. Idles = gauge["idle"]
    BY <2>4, <2>8, NoTurns
  <2> QED
    BY <2>5, <2>9
<1>2. PoolInv /\ GaugeInv /\ DriversInv /\ [Next]_vars => GaugeInv' /\ DriversInv'
  BY GaugeStepwise, DriversStep DEF PoolInv, TypeOK
<1> QED
  BY <1>1, <1>2, GaugeInit, PoolInvariant, PTL DEF Spec
=============================================================================
