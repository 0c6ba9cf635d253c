----------------------------- MODULE SqlGateway -----------------------------
(***************************************************************************)
(* The PostgreSQL gateway (src/bin/pulpitum-sql-sidecar.rs) with its       *)
(* startup handlers (src/bin/sql_sidecar_security.rs) in front of one      *)
(* table.  A process loads its security settings, listens, and serves      *)
(* each connection in a task of its own: TLS and SCRAM when they are       *)
(* configured, then statements, either as simple queries or through        *)
(* Parse, Bind, Describe and Execute.                                      *)
(*                                                                         *)
(* A statement is its parsed form.  An expression is a literal, with its   *)
(* type, or a placeholder.  An operator that can answer with an SQL error  *)
(* returns the set of its results: none is the error.                      *)
(***************************************************************************)
EXTENDS RoutedScan

CONSTANTS
    Sessions,       \* client connections
    Extended,       \* those that use the extended protocol; the others send simple queries
    Simple,         \* the statements that clients send as simple queries
    Prepared,       \* the statements that clients prepare
    Bindings,       \* what clients bind: parameters and the results' format
    Now,            \* the clock of the write window
    MaxFaults,      \* bound on database failures and crashes
    None

ASSUME GatewayAssumption == Extended \subseteq Sessions /\ Now \in Times /\ MaxFaults \in Nat

VARIABLES
    mode,       \* of the process: "down", "insecure", "secure", "refused"
    exposed,    \* it serves other hosts without TLS and login
    stage,      \* of each connection: "closed", "plain", "tls", "login", "ready"
    login,      \* what each connection presented
    stmt,       \* the prepared statement
    described,  \* what Describe said of it
    portal,     \* the bound portal
    reply,      \* the answer to the last statement of the connection
    call,       \* the INSERT that has not been answered yet: its record, and whether
                \* the database has committed it
    scan,       \* the read that has not been answered yet
    todo,       \* its buckets that are still to be read
    got,        \* the rows of the others
    rows,       \* what the table holds
    landing,    \* records nobody waits for whose COMMIT may still take effect
    archived,   \* buckets that were cut over to the archive
    acked,      \* records whose INSERT was answered with success
    faults

connection == <<stage, login, stmt, described, portal>>
work == <<reply, call, scan, todo, got>>
table == <<rows, landing, archived, acked>>
vars == <<mode, exposed, connection, work, table, faults>>

\* gateway_statement_kind: one INSERT, one query, or anything else.
Statements == Simple \cup Prepared

\* An INSERT that parse_insert_values takes (one VALUES row into the table, no
\* other clause, each of these columns once) is the map from its columns to
\* expressions; any other INSERT is of the kind "other".
Columns == {"channel_id", "timestamp", "id", "value"}
Credentials == [named : BOOLEAN, password : {"right", "wrong"}, tls : BOOLEAN]

-----------------------------------------------------------------------------
(* Statements.                                                             *)

IsParam(e) == "param" \in DOMAIN e

ColumnType == [channel_id |-> "text", timestamp |-> "timestamptz", id |-> "text", value |-> "bytea"]
ReadTypes == <<"text", "timestamptz", "timestamptz", "int8">>

Highest(indices) == IF indices = {} THEN 0
                    ELSE CHOOSE i \in indices : \A j \in indices : j <= i

\* Mutant: the types are listed in the columns' order, not the placeholders'.
ColumnOrder == <<"channel_id", "timestamp", "id", "value">>
InsertParameterTypes_ByColumn(columns) ==
    {LET used == SelectSeq(ColumnOrder, LAMBDA c : IsParam(columns[c]))
     IN  [i \in DOMAIN used |-> ColumnType[used[i]]]}

\* insert_parameter_types: every index up to the highest is used, for columns
\* of one type.
InsertParameterTypes(columns) ==
    LET types(i) == {ColumnType[c] : c \in {d \in Columns : columns[d] = [param |-> i]}}
        highest  == Highest({columns[c].param : c \in {d \in Columns : IsParam(columns[d])}})
    IN  IF \A i \in 1..highest : Cardinality(types(i)) = 1
        THEN {[i \in 1..highest |-> TheOne(types(i))]}
        ELSE {}

Expressions(st) == {st.where[i].lit : i \in DOMAIN st.where} \cup {st.limit}

\* read_parameter_types, parameter_types_from_indices: by position alone.
ReadParameterTypes(st) ==
    LET indices == {e.param : e \in {x \in Expressions(st) : IsParam(x)}}
        highest == Highest(indices)
    IN  IF highest <= Len(ReadTypes) /\ indices = 1..highest
        THEN {SubSeq(ReadTypes, 1, highest)}
        ELSE {}

\* placeholder_index takes positional placeholders from $1 on; any other is an
\* error, as a clause of another shape is.
Positional(e) == IsParam(e) => e = [param |-> e.param] /\ e.param \in Nat \ {0}

\* A portal's parameters are numbered from 1, and instants are numbers.
ASSUME PlaceholderAssumption ==
    /\ \A st \in Statements :
         /\ st.kind = "insert" => \A c \in Columns : Positional(st.columns[c])
         /\ st.kind = "read" => /\ IsFiniteSet(DOMAIN st.where) /\ Positional(st.limit)
                               /\ \A i \in DOMAIN st.where : Positional(st.where[i].lit)
    /\ \A b \in Bindings :
         /\ DOMAIN b.params = 1..Len(b.params)
         /\ \A i \in DOMAIN b.params :
              b.params[i].type = "timestamptz" => b.params[i].val \in Nat

\* parameter_types_for_statement; gateway_statement_kind and parse_insert_values
\* refuse every other statement.
ParameterTypes(st) ==
    CASE st.kind = "insert" -> InsertParameterTypes(st.columns)
      [] st.kind = "read"   -> ReadParameterTypes(st)
      [] OTHER              -> {}

\* validate_parameter_count, then every parameter is decoded where it is used
\* (string_value, timestamp_value, bytea_value; read_parameter_values): NULL
\* (required_parameter) and a value of another type do not decode, nor does a
\* timestamp of a read that Arrow cannot hold.
Decodes(st, params) ==
    /\ \E types \in ParameterTypes(st) : Len(params) = Len(types)
    /\ IF st.kind = "insert"
       THEN \A c \in Columns :
              IsParam(st.columns[c]) => params[st.columns[c].param].type = ColumnType[c]
       ELSE \A i \in DOMAIN params :
              /\ params[i].type = ReadTypes[i]
              /\ params[i].type = "timestamptz" => params[i].val <= ArrowMax

\* with_param_values and the planning after it: a placeholder takes the value
\* that its position says, which has to be of the type of its place.
PlaceTypes(st) ==
    {<<st.where[i].lit, ColumnType[st.where[i].col]>> : i \in DOMAIN st.where}
      \cup {<<st.limit, "int8">>}
Binds(st, params) ==
    \A place \in PlaceTypes(st) :
      IsParam(place[1]) => /\ place[1].param \in DOMAIN params
                           /\ params[place[1].param].type = place[2]

\* The two reasons for which a read can refuse what Describe asked for: an
\* instant that Arrow cannot hold, and placeholders in another order than the
\* types that are given to them by position.
OutsideArrow(params) ==
    \E i \in DOMAIN params : params[i].type = "timestamptz" /\ params[i].val > ArrowMax
InPosition(st) ==
    \A place \in PlaceTypes(st) : IsParam(place[1]) => ReadTypes[place[1].param] = place[2]

\* The client's side of Describe: a value of the type it was told for each.
Follows(params, types) ==
    /\ Len(params) = Len(types)
    /\ \A i \in DOMAIN types : params[i].type = types[i]

Value(e, params) == IF IsParam(e) THEN params[e.param] ELSE e

\* string_literal, timestamp_literal and bytea_literal: a bytea is written as text.
Accepts(column, e) ==
    \/ IsParam(e)
    \/ e.type = IF column = "value" THEN "text" ELSE ColumnType[column]

\* parse_insert, parse_bound_insert.
InsertedRecord(st, params) ==
    IF \A c \in Columns : Accepts(c, st.columns[c])
    THEN {[c \in Columns |-> Value(st.columns[c], params).val]}
    ELSE {}

\* The filters and the limit that DataFusion plans with.
BoundFilters(st, params) ==
    [i \in DOMAIN st.where |-> [st.where[i] EXCEPT !.lit = Value(@, params)]]

\* What a statement is bound with: nothing in a simple query.
ParamLists == {b.params : b \in Bindings} \cup {<<>>}

RunsWith(st, params) ==
    \/ Decodes(st, params)
    \/ params = <<>> /\ ParameterTypes(st) = {<<>>}

\* The values of statements that run: time is the calendar's, and the ids of
\* records are numbers, so that they have an order.
ASSUME ValueAssumption ==
    \A st \in Statements, params \in ParamLists :
      /\ st.kind = "insert" /\ RunsWith(st, params) =>
           \A r \in InsertedRecord(st, params) : r.timestamp \in Times /\ r.id \in Nat
      /\ st.kind = "read" /\ RunsWith(st, params) /\ Binds(st, params) =>
           /\ Value(st.limit, params).val \in Int
           /\ \A i \in DOMAIN st.where : Comparison(BoundFilters(st, params)[i])

\* fields_from_schema: pg_type knows the types of the result, be they stored
\* columns or computed ones.
Typed(st) == st.output # "unsupported"

\* encode_rows: a computed value has no binary encoding.
Encodes(output, format, result) == output = "computed" /\ result # {} => format = "text"

\* The routed query of a read with its limit, when it is planned and executed.
BoundQuery(st, params) ==
    LET limit == Value(st.limit, params)
    IN  IF limit.val < 0 THEN {}
        ELSE {[query |-> q, limit |-> limit.val] : q \in Planned(BoundFilters(st, params))}

-----------------------------------------------------------------------------
(* The process and its connections.                                        *)

Init ==
    /\ mode = "down" /\ exposed = FALSE
    /\ stage = [s \in Sessions |-> "closed"]
    /\ login = [s \in Sessions |-> None]
    /\ stmt = [s \in Sessions |-> None]
    /\ described = [s \in Sessions |-> {}]
    /\ portal = [s \in Sessions |-> None]
    /\ reply = [s \in Sessions |-> "none"]
    /\ call = [s \in Sessions |-> None]
    /\ scan = [s \in Sessions |-> None]
    /\ todo = [s \in Sessions |-> {}] /\ got = [s \in Sessions |-> {}]
    /\ rows = {} /\ landing = {} /\ archived = {} /\ acked = {} /\ faults = 0

\* from_options, secure_from_bytes: none of the three files is insecure mode;
\* otherwise all of them must be given and be sound.
LoadedMode(files, sound) ==
    IF files = {} THEN "insecure"
    ELSE IF files = {"certificate", "key", "password"} /\ sound THEN "secure"
    ELSE "refused"

\* validate_listen_address
ListenMode(loaded, addr) ==
    IF loaded = "insecure" /\ addr # "loopback" THEN "refused" ELSE loaded

\* main; sound says that the configured names, password and TLS identity can be
\* used.
Start ==
    /\ mode = "down"
    /\ \E files \in SUBSET {"certificate", "key", "password"}, sound \in BOOLEAN,
          addr \in {"loopback", "public"} :
         /\ mode' = ListenMode(LoadedMode(files, sound), addr)
         /\ exposed' = (mode' = "insecure" /\ addr = "public")
    /\ UNCHANGED <<connection, work, table, faults>>

Listening == mode \in {"insecure", "secure"}

Connect(s) ==
    /\ Listening /\ stage[s] = "closed"
    /\ stage' = [stage EXCEPT ![s] = "plain"]
    /\ UNCHANGED <<mode, exposed, login, stmt, described, portal, work, table, faults>>

\* SSLRequest: process_socket does the handshake when it has an acceptor, and
\* goes on in the clear when it has none.
RequestTls(s) ==
    /\ mode = "secure" /\ stage[s] = "plain"
    /\ stage' = [stage EXCEPT ![s] = "tls"]
    /\ UNCHANGED <<mode, exposed, login, stmt, described, portal, work, table, faults>>

\* Mutant: the login is offered over any transport.
AfterStartup_AnyTransport(s) == IF mode = "insecure" THEN "ready" ELSE "login"

\* on_startup with the Startup message.
AfterStartup(s) ==
    IF mode = "insecure" THEN "ready"
    ELSE IF stage[s] # "tls" THEN "closed"
    ELSE "login"

Startup(s) ==
    /\ stage[s] \in {"plain", "tls"}
    /\ stage' = [stage EXCEPT ![s] = AfterStartup(s)]
    /\ \E l \in Credentials :
         /\ l.tls = (stage[s] = "tls")
         /\ login' = [login EXCEPT ![s] = IF stage'[s] = "login" THEN l ELSE None]
    /\ UNCHANGED <<mode, exposed, stmt, described, portal, work, table, faults>>

\* get_password: who does not name the user and the database is compared with
\* a password that nobody knows.
GetPassword(l) == IF l.named THEN "right" ELSE "decoy"

\* on_startup with the SCRAM messages.
Authenticate(s) ==
    /\ stage[s] = "login"
    /\ stage' = [stage EXCEPT ![s] =
                   IF login[s].password = GetPassword(login[s]) THEN "ready" ELSE "closed"]
    /\ login' = [login EXCEPT ![s] = IF stage'[s] = "ready" THEN @ ELSE None]
    /\ UNCHANGED <<mode, exposed, stmt, described, portal, work, table, faults>>

\* The task of a connection finds its client gone when it reads the next
\* message: a statement that runs is carried to its end.
Disconnect(s) ==
    /\ stage[s] # "closed" /\ call[s] = None /\ scan[s] = None
    /\ stage' = [stage EXCEPT ![s] = "closed"]
    /\ login' = [login EXCEPT ![s] = None] /\ stmt' = [stmt EXCEPT ![s] = None]
    /\ described' = [described EXCEPT ![s] = {}] /\ portal' = [portal EXCEPT ![s] = None]
    /\ reply' = [reply EXCEPT ![s] = "none"]
    /\ UNCHANGED <<mode, exposed, call, scan, todo, got, table, faults>>

\* The records of INSERTs that the database has not committed: when nobody
\* waits for them any more, they may still be.
Unsettled(S) == {call[s].record : s \in {x \in S : call[x] # None /\ ~call[x].committed}}

Crash ==
    /\ Listening /\ faults < MaxFaults
    /\ faults' = faults + 1
    /\ mode' = "down"
    /\ stage' = [s \in Sessions |-> "closed"]
    /\ login' = [s \in Sessions |-> None] /\ stmt' = [s \in Sessions |-> None]
    /\ described' = [s \in Sessions |-> {}] /\ portal' = [s \in Sessions |-> None]
    /\ reply' = [s \in Sessions |-> "none"]
    /\ call' = [s \in Sessions |-> None]
    /\ scan' = [s \in Sessions |-> None]
    /\ todo' = [s \in Sessions |-> {}] /\ got' = [s \in Sessions |-> {}]
    /\ landing' = landing \cup Unsettled(Sessions)
    /\ UNCHANGED <<exposed, rows, archived, acked>>

-----------------------------------------------------------------------------
(* Statements of a connection.                                             *)

Idle(s) == stage[s] = "ready" /\ call[s] = None /\ scan[s] = None

\* What the table holds of a record: the timestamp in whole microseconds.
Stored(record) == [record EXCEPT !.timestamp = Micros(@)]

\* The statement is answered at once.
Answer(s, answer) ==
    /\ reply' = [reply EXCEPT ![s] = answer]
    /\ UNCHANGED <<call, scan, todo, got>>

\* DurableTable::append answers at once outside the write window; otherwise the
\* record is on its way to the database.
AppendRecord(s, record) ==
    LET bucket == BucketOf(record.timestamp)
    IN  IF bucket < OldestWritable(Now) \/ bucket > NewestWritable(Now)
        THEN Answer(s, "error")
        ELSE /\ call' = [call EXCEPT ![s] = [record |-> record, committed |-> FALSE]]
             /\ reply' = [reply EXCEPT ![s] = "none"]
             /\ UNCHANGED <<scan, todo, got>>

\* A read that is planned starts its scan.  before is kept for the properties:
\* the rows whose INSERT had been answered by then.
StartScan(s, st, params, format, b) ==
    /\ scan' = [scan EXCEPT ![s] =
                   [filters |-> BoundFilters(st, params), query |-> b.query, limit |-> b.limit,
                    output |-> st.output, format |-> format,
                    before |-> {Stored(r) : r \in acked}]]
    /\ todo' = [todo EXCEPT ![s] = ScanBuckets(b.query, b.limit)]
    /\ got' = [got EXCEPT ![s] = {}]
    /\ reply' = [reply EXCEPT ![s] = "none"]
    /\ UNCHANGED call

\* execute_with_parameters: the parameters that it needs have been decoded.
Run(s, st, params, format) ==
    IF st.kind = "insert"
    THEN \/ \E r \in InsertedRecord(st, params) : AppendRecord(s, r)
         \/ InsertedRecord(st, params) = {} /\ Answer(s, "error")
    ELSE \/ ~Binds(st, params) /\ Answer(s, "parameters")
         \/ /\ Binds(st, params)
            /\ \/ /\ Typed(st)
                  /\ \E b \in BoundQuery(st, params) : StartScan(s, st, params, format, b)
               \/ /\ ~Typed(st) \/ BoundQuery(st, params) = {}
                  /\ Answer(s, "error")

\* SimpleQueryHandler::do_query: an unbound placeholder is not a literal.
SimpleQuery(s, st) ==
    /\ Idle(s) /\ s \notin Extended
    /\ IF ParameterTypes(st) = {<<>>}
       THEN Run(s, st, <<>>, "text")
       ELSE Answer(s, "error")
    /\ UNCHANGED <<mode, exposed, connection, table, faults>>

\* NoopQueryParser keeps any text.
Parse(s, st) ==
    /\ Idle(s) /\ s \in Extended
    /\ stmt' = [stmt EXCEPT ![s] = st]
    /\ described' = [described EXCEPT ![s] = {}]
    /\ UNCHANGED <<mode, exposed, stage, login, portal, work, table, faults>>

\* do_describe_statement
Describe(s) ==
    /\ Idle(s) /\ stmt[s] # None
    /\ described' = [described EXCEPT ![s] = ParameterTypes(stmt[s])]
    /\ UNCHANGED <<mode, exposed, stage, login, stmt, portal, work, table, faults>>

\* The portal keeps its statement when another one is prepared; promised
\* records that the client followed what Describe told it.
Bind(s, b) ==
    /\ Idle(s) /\ stmt[s] # None
    /\ portal' = [portal EXCEPT ![s] =
                    [st |-> stmt[s], params |-> b.params, format |-> b.format,
                     promised |-> \E types \in described[s] : Follows(b.params, types)]]
    /\ reply' = [reply EXCEPT ![s] = "none"]
    /\ UNCHANGED <<mode, exposed, stage, login, stmt, described, call, scan, todo, got, table, faults>>

\* ExtendedQueryHandler::do_query
Execute(s) ==
    /\ Idle(s) /\ portal[s] # None
    /\ LET p == portal[s]
       IN  IF Decodes(p.st, p.params)
           THEN Run(s, p.st, p.params, p.format)
           ELSE Answer(s, "parameters")
    /\ UNCHANGED <<mode, exposed, connection, table, faults>>

-----------------------------------------------------------------------------
(* The steps of a read.                                                    *)

ReadBucket(s, b) ==
    /\ scan[s] # None /\ b \in todo[s]
    /\ todo' = [todo EXCEPT ![s] = @ \ {b}]
    /\ got' = [got EXCEPT ![s] =
                 @ \cup BucketPage(scan[s].query, scan[s].limit, b, rows, archived)]
    /\ UNCHANGED <<mode, exposed, connection, reply, call, scan, table, faults>>

\* The records of the page.
Result(s) == FirstRows(got[s], scan[s].limit)

EndScan(s, answer) ==
    /\ reply' = [reply EXCEPT ![s] = answer]
    /\ scan' = [scan EXCEPT ![s] = None]
    /\ todo' = [todo EXCEPT ![s] = {}] /\ got' = [got EXCEPT ![s] = {}]
    /\ UNCHANGED <<mode, exposed, connection, call, table>>

\* collect, encode_rows
ScanEnds(s) ==
    /\ scan[s] # None /\ todo[s] = {}
    /\ EndScan(s, IF Encodes(scan[s].output, scan[s].format, Result(s)) THEN "rows" ELSE "error")
    /\ UNCHANGED faults

\* query_page fails with the first bucket that cannot be read.
ScanFails(s) ==
    /\ scan[s] # None /\ todo[s] # {} /\ faults < MaxFaults
    /\ faults' = faults + 1
    /\ EndScan(s, "error")

-----------------------------------------------------------------------------
(* The steps of an INSERT.                                                 *)

Key(r) == <<r.channel_id, r.timestamp, r.id>>

\* The append transaction can commit: the bucket is hot, the key is free.
Fits(record) ==
    /\ BucketOf(record.timestamp) \notin archived
    /\ \A r \in rows : Key(r) # Key(Stored(record))

Commits(s) ==
    /\ call[s] # None /\ ~call[s].committed /\ Fits(call[s].record)
    /\ rows' = rows \cup {Stored(call[s].record)}
    /\ call' = [call EXCEPT ![s] = [record |-> call[s].record, committed |-> TRUE]]
    /\ UNCHANGED <<mode, exposed, connection, reply, scan, todo, got, landing, archived, acked, faults>>

EndInsert(s, answer) ==
    /\ call' = [call EXCEPT ![s] = None]
    /\ reply' = [reply EXCEPT ![s] = answer]
    /\ UNCHANGED <<mode, exposed, connection, scan, todo, got, rows, archived>>

Acknowledges(s) ==
    /\ call[s] # None /\ call[s].committed
    /\ acked' = acked \cup {call[s].record}
    /\ EndInsert(s, "inserted")
    /\ UNCHANGED <<landing, faults>>

Refused(s) ==
    /\ call[s] # None /\ ~call[s].committed /\ ~Fits(call[s].record)
    /\ EndInsert(s, "error")
    /\ UNCHANGED <<landing, acked, faults>>

\* A failure before the COMMIT was sent and a COMMIT whose outcome is not known
\* are the same answer to the client; the latter was carried out, or still may be.
Fails(s) ==
    /\ call[s] # None /\ faults < MaxFaults
    /\ faults' = faults + 1
    /\ landing' \in {landing, landing \cup Unsettled({s})}
    /\ EndInsert(s, "error")
    /\ UNCHANGED acked

\* A COMMIT that nobody waits for takes effect, or is refused.
Lands(r) ==
    /\ rows' = IF Fits(r) THEN rows \cup {Stored(r)} ELSE rows
    /\ landing' = landing \ {r}
    /\ UNCHANGED <<mode, exposed, connection, work, archived, acked, faults>>

\* ArchiveCutover, as the gateway sees it: a bucket that has been written to
\* turns read-only and is read from the archive from now on.
Archive(b) ==
    /\ b \notin archived /\ \E r \in rows : BucketOf(r.timestamp) = b
    /\ archived' = archived \cup {b}
    /\ UNCHANGED <<mode, exposed, connection, work, rows, landing, acked, faults>>

Next ==
    \/ Start \/ Crash
    \/ \E s \in Sessions :
         \/ Connect(s) \/ RequestTls(s) \/ Startup(s) \/ Authenticate(s) \/ Disconnect(s)
         \/ Describe(s) \/ Execute(s)
         \/ ScanEnds(s) \/ ScanFails(s)
         \/ Commits(s) \/ Acknowledges(s) \/ Refused(s) \/ Fails(s)
         \/ \E st \in Simple : SimpleQuery(s, st)
         \/ \E st \in Prepared : Parse(s, st)
         \/ \E b \in Bindings : Bind(s, b)
         \/ \E b \in Starts : ReadBucket(s, b)
    \/ \E r \in landing : Lands(r)
    \/ \E b \in Starts : Archive(b)

Spec == Init /\ [][Next]_vars

-----------------------------------------------------------------------------
(* Properties.                                                             *)

TypeOK ==
    /\ mode \in {"down", "insecure", "secure", "refused"}
    /\ exposed \in BOOLEAN
    /\ stage \in [Sessions -> {"closed", "plain", "tls", "login", "ready"}]
    /\ login \in [Sessions -> Credentials \cup {None}]
    /\ stmt \in [Sessions -> Prepared \cup {None}]
    /\ reply \in [Sessions -> {"none", "rows", "inserted", "parameters", "error"}]
    /\ archived \subseteq Starts
    /\ faults \in 0..MaxFaults

\* No statement runs for a peer that was not let in: a connection with a
\* statement, a portal or an answer passed the login over TLS with the
\* configured names and password when the process is secure, and is a loopback
\* connection when it is not (on_startup, get_password, validate_listen_address).
OnlyAdmitted ==
    \A s \in Sessions :
      stmt[s] # None \/ portal[s] # None \/ reply[s] # "none" \/ stage[s] = "ready" =>
        \/ mode = "secure" /\ login[s] = [named |-> TRUE, password |-> "right", tls |-> TRUE]
        \/ mode = "insecure" /\ ~exposed

\* The read has its rows and is about to answer.
Finished(s) == scan[s] # None /\ todo[s] = {}

\* A read that starts after an INSERT was answered with success returns its row
\* when the WHERE clause holds of it, unless the LIMIT is filled with earlier
\* rows; whatever else is appended, lands late or moves to the archive while
\* the buckets are read, each at its own time (append's commit against
\* extract_query, query_page and the filters of both tiers).  The clause holds
\* when it does both as written and with its timestamps cut to microseconds.
ReadsSeeInserts ==
    \A s \in Sessions : Finished(s) =>
      \A r \in scan[s].before :
        AsWritten(scan[s].filters, r) /\ CutToMicros(scan[s].filters, r) =>
          \/ r \in Result(s)
          \/ /\ Cardinality(Result(s)) = scan[s].limit
             /\ \A q \in Result(s) : Before(q, r)

\* A read returns rows of the table only, no more than its LIMIT, of which the
\* WHERE clause holds as written or with its timestamps cut to microseconds,
\* although DataFusion applies no filter again (supports_filters_pushdown,
\* extract_query, execute).
ScansSound ==
    \A s \in Sessions : Finished(s) =>
      /\ Cardinality(Result(s)) <= scan[s].limit
      /\ \A r \in Result(s) :
           /\ r \in rows
           /\ AsWritten(scan[s].filters, r) \/ CutToMicros(scan[s].filters, r)

\* A client that binds what Describe asked for is refused for its parameters by
\* a read alone, and there for one of two reasons: a timestamp that Arrow cannot
\* hold, or placeholders that are not in the order of the types given to them;
\* also when it prepared another statement since (do_describe_statement against
\* do_query).
DescribeHonest ==
    \A s \in Sessions :
      portal[s] # None /\ portal[s].promised /\ reply[s] = "parameters" =>
        /\ portal[s].st.kind = "read"
        /\ OutsideArrow(portal[s].params) \/ ~InPosition(portal[s].st)
=============================================================================
