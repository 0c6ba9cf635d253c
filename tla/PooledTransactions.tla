------------------------ MODULE PooledTransactions ------------------------
(***************************************************************************)
(* CockroachDurableBucketStore::transaction over the pool: BEGIN, the      *)
(* operation, COMMIT or ROLLBACK, each with a deadline, and a bounded      *)
(* number of attempts.  Calls in Reads check a connection out for a single *)
(* statement instead (read_range, state, discover_archive_work).           *)
(*                                                                         *)
(* srv is the database's side of each connection: the transaction open on  *)
(* it, or a COMMIT it has received and not answered.  A database error is  *)
(* taken as definite at COMMIT, as the code takes it; any other error, a   *)
(* deadline or a cancellation leaves the COMMIT to be resolved later.      *)
(***************************************************************************)
EXTENDS ConnectionPool

CONSTANTS
    Reads,          \* calls that run one statement without a transaction
    MaxAttempts     \* MAX_TRANSACTION_ATTEMPTS

ASSUME AttemptsAssumption == MaxAttempts \in Nat \ {0} /\ Reads \subseteq Calls

VARIABLES
    phase,      \* what a call that holds a connection awaits
    reusable,   \* the reusable flag of its checkout
    attempt,    \* attempts made before this one
    goal,       \* "none" while running, "retry", or how the call ended
    srv,        \* the database's side of each connection
    commits     \* history: transactions committed on behalf of each call

callVars == <<phase, reusable, attempt, goal, srv, commits>>
vars == <<poolVars, callVars>>

Ended == {"ok", "failed", "unknown", "cancelled"}
Awaits == {"begin", "op", "commit", "rollback", "rollback_commit", "statement"}

NoTxn == [txn |-> "none", by |-> NoCall]

TypeOK ==
    /\ PoolTypeOK
    /\ phase \in [Calls -> Awaits \cup {"leave"}]
    /\ reusable \in [Calls -> BOOLEAN]
    /\ attempt \in [Calls -> 0..(MaxAttempts - 1)]
    /\ goal \in [Calls -> {"none", "retry"} \cup Ended]
    /\ srv \in [Conns -> [txn : {"none", "open", "committing"},
                          by : Calls \cup {NoCall}]]
    /\ commits \in [Calls -> 0..MaxAttempts]

\* Mutant: transaction() does not mark its checkout uncertain.
FreshCheckout_Reusable(t) == TRUE

\* A checkout starts reusable, and transaction() marks it uncertain at once.
FreshCheckout(t) == t \in Reads

FirstPhase(t) == IF t \in Reads THEN "statement" ELSE "begin"

Init ==
    /\ PoolInit
    /\ phase = [t \in Calls |-> FirstPhase(t)]
    /\ reusable = [t \in Calls |-> FreshCheckout(t)]
    /\ attempt = [t \in Calls |-> 0]
    /\ goal = [t \in Calls |-> "none"]
    /\ srv = [c \in Conns |-> NoTxn]
    /\ commits = [t \in Calls |-> 0]

-----------------------------------------------------------------------------
Await(t, p) == at[t] = "held" /\ phase[t] = p

Answering(t) == conn[t] \notin broken

\* The call stops using its connection and goes on to drop it.
Leaves(t, why) ==
    /\ phase' = [phase EXCEPT ![t] = "leave"]
    /\ goal' = [goal EXCEPT ![t] = why]

MoveTo(t, p) == phase' = [phase EXCEPT ![t] = p]

CanRetry(t) == attempt[t] + 1 < MaxAttempts

\* Serialization failures are retried while attempts remain.
RetryOrFail(t) == IF CanRetry(t) THEN "retry" ELSE "failed"

SetTxn(t, x) ==
    srv' = [srv EXCEPT ![conn[t]] =
              IF x = "none" THEN NoTxn ELSE [txn |-> x, by |-> t]]

-----------------------------------------------------------------------------
(* transaction(). *)

BeginOk(t) ==
    /\ Await(t, "begin") /\ Answering(t)
    /\ SetTxn(t, "open")
    /\ MoveTo(t, "op")
    /\ UNCHANGED <<poolVars, reusable, attempt, goal, commits>>

\* An error answer; a deadline may pass after the database opened it.
BeginFails(t) ==
    /\ Await(t, "begin")
    /\ \/ Leaves(t, RetryOrFail(t)) /\ UNCHANGED srv
       \/ Leaves(t, "failed") /\ (UNCHANGED srv \/ SetTxn(t, "open"))
    /\ UNCHANGED <<poolVars, reusable, attempt, commits>>

OperationOk(t) ==
    /\ Await(t, "op") /\ Answering(t)
    /\ MoveTo(t, "commit")
    /\ UNCHANGED <<poolVars, reusable, attempt, goal, srv, commits>>

OperationFails(t) ==
    /\ Await(t, "op")
    /\ \E why \in {RetryOrFail(t), "failed"} : goal' = [goal EXCEPT ![t] = why]
    /\ MoveTo(t, "rollback")
    /\ UNCHANGED <<poolVars, reusable, attempt, srv, commits>>

OperationTimeout(t) ==
    /\ Await(t, "op")
    /\ Leaves(t, "failed")
    /\ UNCHANGED <<poolVars, reusable, attempt, srv, commits>>

CommitOk(t) ==
    /\ Await(t, "commit") /\ Answering(t)
    /\ SetTxn(t, "none")
    /\ commits' = [commits EXCEPT ![t] = @ + 1]
    /\ reusable' = [reusable EXCEPT ![t] = TRUE]
    /\ Leaves(t, "ok")
    /\ UNCHANGED <<poolVars, attempt>>

\* A database error: not committed.
CommitRefused(t) ==
    /\ Await(t, "commit") /\ Answering(t)
    /\ \E why \in {RetryOrFail(t), "failed"} : goal' = [goal EXCEPT ![t] = why]
    /\ MoveTo(t, "rollback_commit")
    /\ UNCHANGED <<poolVars, reusable, attempt, srv, commits>>

\* Mutant: an unanswered commit is retried like a serialization failure.
CommitLost_Retried(t) ==
    /\ Await(t, "commit")
    /\ SetTxn(t, "committing")
    /\ goal' = [goal EXCEPT ![t] = RetryOrFail(t)]
    /\ MoveTo(t, "rollback_commit")
    /\ UNCHANGED <<poolVars, reusable, attempt, commits>>

\* The connection fails under the COMMIT: CommitOutcomeUnknown.
CommitLost(t) ==
    /\ Await(t, "commit")
    /\ SetTxn(t, "committing")
    /\ goal' = [goal EXCEPT ![t] = "unknown"]
    /\ MoveTo(t, "rollback_commit")
    /\ UNCHANGED <<poolVars, reusable, attempt, commits>>

CommitTimeout(t) ==
    /\ Await(t, "commit")
    /\ SetTxn(t, "committing")
    /\ Leaves(t, "unknown")
    /\ UNCHANGED <<poolVars, reusable, attempt, commits>>

\* Answers come in order, so a COMMIT before it has been resolved.
RollbackOk(t) ==
    /\ Await(t, "rollback") \/ Await(t, "rollback_commit")
    /\ Answering(t)
    /\ srv[conn[t]].txn # "committing"
    /\ SetTxn(t, "none")
    /\ reusable' = [reusable EXCEPT ![t] = TRUE]
    /\ MoveTo(t, "leave")
    /\ UNCHANGED <<poolVars, attempt, goal, commits>>

\* After the operation a failed rollback ends the call; after COMMIT it does
\* not keep it from retrying.
RollbackFails(t) ==
    /\ \/ Await(t, "rollback") /\ Leaves(t, "failed")
       \/ Await(t, "rollback_commit") /\ MoveTo(t, "leave") /\ UNCHANGED goal
    /\ UNCHANGED <<poolVars, reusable, attempt, srv, commits>>

\* Reads: one statement, answered or not.
StatementEnds(t) ==
    /\ Await(t, "statement")
    /\ \/ Answering(t) /\ Leaves(t, "ok")
       \/ Leaves(t, "failed")
    /\ UNCHANGED <<poolVars, reusable, attempt, srv, commits>>

\* The caller drops the future at one of its awaits.
Cancel(t) ==
    /\ at[t] = "held" /\ phase[t] \in Awaits
    /\ \/ UNCHANGED srv
       \/ phase[t] = "begin" /\ SetTxn(t, "open")
       \/ phase[t] = "commit" /\ SetTxn(t, "committing")
    /\ Leaves(t, "cancelled")
    /\ UNCHANGED <<poolVars, reusable, attempt, commits>>

Leave(t) ==
    /\ Await(t, "leave")
    /\ Drop(t, reusable[t])
    /\ UNCHANGED callVars

-----------------------------------------------------------------------------
(* Around the pool. *)

Start(t) ==
    /\ goal[t] = "none"
    /\ Enqueue(t)
    /\ UNCHANGED callVars

\* The next turn of the loop, after the backoff.
Again(t) ==
    /\ goal[t] = "retry" /\ at[t] = "out"
    /\ goal' = [goal EXCEPT ![t] = "none"]
    /\ attempt' = [attempt EXCEPT ![t] = @ + 1]
    /\ phase' = [phase EXCEPT ![t] = FirstPhase(t)]
    /\ reusable' = [reusable EXCEPT ![t] = FreshCheckout(t)]
    /\ UNCHANGED <<poolVars, srv, commits>>

AcquireFails(t) ==
    /\ AcquireTimeout(t) \/ OpenFails(t)
    /\ goal' = [goal EXCEPT ![t] = "failed"]
    /\ UNCHANGED <<phase, reusable, attempt, srv, commits>>

\* The caller drops the future while it waits for a connection or sleeps.
Abandon(t) ==
    /\ \/ AbandonWait(t) \/ AbandonOpen(t)
       \/ goal[t] = "retry" /\ at[t] = "out" /\ UNCHANGED poolVars
    /\ goal' = [goal EXCEPT ![t] = "cancelled"]
    /\ UNCHANGED <<phase, reusable, attempt, srv, commits>>

\* The database applies or discards a COMMIT it had not answered, and rolls
\* back what was open on a connection that ended.
ServerResolves(c) ==
    /\ \/ /\ srv[c].txn = "committing"
          /\ commits' \in {commits, [commits EXCEPT ![srv[c].by] = @ + 1]}
       \/ srv[c].txn = "open" /\ c \in broken /\ UNCHANGED commits
    /\ srv' = [srv EXCEPT ![c] = NoTxn]
    /\ UNCHANGED <<poolVars, phase, reusable, attempt, goal>>

\* Steps the call takes by itself, or at an await with a deadline.
WithDeadline(t) ==
    \/ Start(t) \/ Again(t) \/ Leave(t)
    \/ BeginOk(t) \/ BeginFails(t)
    \/ OperationOk(t) \/ OperationFails(t) \/ OperationTimeout(t)
    \/ CommitOk(t) \/ CommitRefused(t) \/ CommitLost(t) \/ CommitTimeout(t)
    \/ RollbackOk(t) \/ RollbackFails(t)

CallStep(t) == WithDeadline(t) \/ StatementEnds(t)

Next ==
    \/ Warm /\ UNCHANGED callVars
    \/ \E t \in Calls : \/ PoolStep(t) /\ UNCHANGED callVars
                        \/ CallStep(t) \/ AcquireFails(t)
                        \/ Abandon(t) \/ Cancel(t)
    \/ \E c \in Conns : \/ Driver(c) /\ UNCHANGED callVars
                        \/ ServerResolves(c)

Spec == Init /\ [][Next]_vars

\* The awaits of acquire() and of transaction() have deadlines.  The single
\* statement of a read has none: it ends for certain only when its connection
\* has ended, and on a silent one it may never.
Fairness ==
    \A t \in Calls :
      /\ WF_vars(PoolStep(t) /\ UNCHANGED callVars)
      /\ WF_vars(WithDeadline(t))
      /\ WF_vars(AcquireFails(t))
      /\ WF_vars(StatementEnds(t) /\ ~Answering(t))

FairSpec == Spec /\ Fairness

-----------------------------------------------------------------------------
(* Correctness. *)

\* The stack as a set.
Stacked == {available[i] : i \in 1..Len(available)}

\* A connection is used by one call at a time, and is never on the idle stack
\* while a call uses it, nor on it twice (take_idle_connection and drop race
\* with each other and with the driver).
ExclusiveCheckout ==
    /\ \A s, t \in Calls : conn[s] = conn[t] /\ conn[s] # NoConn => s = t
    /\ \A t \in Calls : conn[t] \notin Stacked
    /\ Cardinality(Stacked) = Len(available)

\* The pool neither grows nor shrinks: connections held, idle or being opened
\* never exceed max_connections, even while broken ones are replaced, and when
\* no call is in the pool every permit is back, whichever await of acquire or of
\* its use the calls were cancelled at.
CapacityRespected ==
    /\ Cardinality({c \in Conns : state[c] \in {"checked_out", "idle"}})
         + Cardinality({t \in Calls : at[t] = "opening"}) <= Max
    /\ (\A t \in Calls : at[t] = "out") => permits = Max

\* No connection leaks: one that is open in the pool's books is reachable,
\* from the stack, from a call or from the warm-up.
NoneStranded ==
    \A c \in Conns : state[c] \in {"checked_out", "idle"} =>
      \/ c \in Stacked
      \/ \E t \in Calls : conn[t] = c
      \/ warm.conn = c

\* A connection that the pool may hand out has no transaction open and no
\* COMMIT under way, whatever await the previous call was cancelled at.
IdleIsClean ==
    \A c \in Conns : state[c] = "idle" => srv[c].txn = "none"

\* What a transaction reports is what happened: success means one commit, a
\* failure or a retry none, then or later, and an unknown outcome at most one.
AnswerTrue ==
    \A t \in Calls \ Reads :
      /\ commits[t] <= 1
      /\ goal[t] = "ok" => commits[t] = 1
      /\ goal[t] \in {"none", "retry", "failed"} =>
           /\ commits[t] = 0
           /\ \A c \in Conns : srv[c] # [txn |-> "committing", by |-> t]

\* No call, driver or warm-up is between two of its atomic operations.
Quiet ==
    /\ \A t \in Calls : at[t] \in {"out", "waiting", "opening", "held"}
    /\ \A c \in Conns : driver[c] \in {"none", "running", "ended", "done"}
    /\ warm.step \in {"open", "ready", "failed"}

\* The idle gauge counts the idle connections, although the driver may take
\* one off before the call that returned it has counted it.
IdleGaugeSettles ==
    Quiet => gauge["idle"] = Cardinality({c \in Conns : state[c] = "idle"})

HasEnded(t) == at[t] = "out" /\ goal[t] \in Ended

\* Every transaction ends, whatever it loses on the way and although a read may
\* sit on a connection and its permit for ever; none waits for ever for the
\* mutex over the stack.  A read ends too, or is at its one statement on a
\* connection that has not ended.
CallsComplete ==
    /\ \A t \in Calls \ Reads : at[t] # "out" ~> HasEnded(t)
    /\ \A t \in Reads :
         at[t] # "out" ~> (HasEnded(t) \/ (Await(t, "statement") /\ Answering(t)))
=============================================================================
