-------------------------- MODULE SqlGatewayProofs --------------------------
(***************************************************************************)
(* Proofs about SqlGateway, for any number of connections, any statements  *)
(* and parameters, any calendar and any number of failures.                *)
(***************************************************************************)
EXTENDS SqlGateway, FiniteSetTheorems, SequenceTheorems, NaturalsInduction, TLAPS

Admitted(s) ==
    \/ mode = "secure" /\ login[s] = [named |-> TRUE, password |-> "right", tls |-> TRUE]
    \/ mode = "insecure" /\ ~exposed

\* What the stage of a connection says of it: nothing is kept for one that is
\* not ready, and a login goes on over TLS only.
StageInv(s) ==
    /\ stage[s] \in {"plain", "tls", "login", "ready"} => mode \in {"insecure", "secure"}
    /\ stage[s] = "login" => /\ mode = "secure" /\ login[s] \in Credentials
                             /\ login[s].tls
    /\ stage[s] = "ready" => Admitted(s)
    /\ stage[s] # "ready" => stmt[s] = None /\ portal[s] = None /\ reply[s] = "none"
    /\ call[s] # None \/ scan[s] # None => stage[s] = "ready"
    /\ s \notin Extended => stmt[s] = None /\ portal[s] = None

\* A read that may refuse what Describe asked for.
Excused(st, params) == st.kind = "read" /\ (OutsideArrow(params) \/ ~InPosition(st))

\* The parameters of a statement that are not refused.
Taken(st, params) == Decodes(st, params) /\ (st.kind # "insert" => Binds(st, params))

\* What a connection was told of its statement, and what its portal was bound
\* with.
PromiseInv(s) ==
    /\ described[s] \subseteq ParameterTypes(stmt[s])
    /\ portal[s] # None /\ portal[s].promised =>
         Excused(portal[s].st, portal[s].params) \/ Taken(portal[s].st, portal[s].params)
    /\ portal[s] # None /\ portal[s].promised /\ reply[s] = "parameters" =>
         Excused(portal[s].st, portal[s].params)

\* Each variable of the sessions is a function on them.
Domains ==
    /\ DOMAIN described = Sessions /\ DOMAIN portal = Sessions /\ DOMAIN call = Sessions
    /\ DOMAIN scan = Sessions /\ DOMAIN todo = Sessions /\ DOMAIN got = Sessions

GatewayInv ==
    /\ TypeOK /\ Domains
    /\ mode = "insecure" => ~exposed
    /\ \A s \in Sessions : StageInv(s) /\ PromiseInv(s)

-----------------------------------------------------------------------------
(* Parameters.                                                             *)

\* A non-empty set of numbers has a smallest,
LEMMA Least ==
    ASSUME NEW S \in SUBSET Nat, S # {}
    PROVE  \E b \in S : \A a \in S : b <= a
<1>1. PICK b \in S : \A a \in S : ~(<<a, b>> \in OpToRel(<, Nat))
  BY NatLessThanWellFounded, WFMin, Zenon
<1>2. \A a \in S : ~(a < b)
  BY <1>1 DEF OpToRel
<1> QED
  BY <1>2

\* and a finite one has a largest.
LEMMA Largest ==
    ASSUME NEW S \in SUBSET Nat, IsFiniteSet(S), S # {}
    PROVE  Highest(S) \in S /\ \A j \in S : j <= Highest(S)
<1> DEFINE Max(T) == \E m \in T : \A j \in T : j <= m
           Bad == {k \in Nat : \E T \in SUBSET Nat : /\ IsFiniteSet(T) /\ T # {}
                                                     /\ Cardinality(T) = k /\ ~Max(T)}
<1>1. Bad = {}
  <2> SUFFICES ASSUME Bad # {} PROVE FALSE
    OBVIOUS
  <2>1. PICK k \in Bad : \A j \in Bad : k <= j
    BY Least
  <2>2. PICK T \in SUBSET Nat : IsFiniteSet(T) /\ T # {} /\ Cardinality(T) = k /\ ~Max(T)
    BY <2>1
  <2>3. PICK x \in T : TRUE
    BY <2>2
  <2> DEFINE U == T \ {x}
  <2>4. IsFiniteSet(U) /\ Cardinality(U) = k - 1
    BY <2>2, FS_RemoveElement
  <2>5. U # {}
    BY <2>2, <2>3
  <2>6. Cardinality(U) \in Nat /\ k \in Nat
    BY <2>1, <2>4, FS_CardinalityType
  <2>7. k - 1 \notin Bad
    BY <2>1, <2>4, <2>6
  <2>8. Max(U)
    BY <2>2, <2>4, <2>5, <2>6, <2>7
  <2>9. PICK m \in U : \A j \in U : j <= m
    BY <2>8
  <2>10. CASE m <= x
    <3>1. \A j \in T : j <= x
      BY <2>2, <2>9, <2>10
    <3> QED
      BY <2>2, <2>3, <3>1
  <2>11. CASE x <= m
    <3>1. \A j \in T : j <= m
      BY <2>2, <2>9, <2>11
    <3> QED
      BY <2>2, <2>9, <3>1
  <2> QED
    BY <2>2, <2>3, <2>9, <2>10, <2>11
<1>2. Cardinality(S) \in Nat
  BY FS_CardinalityType
<1>3. \E m \in S : \A j \in S : j <= m
  BY <1>1, <1>2
<1> QED
  BY <1>3 DEF Highest

\* One value in a set that has one.
LEMMA OnlyOne ==
    ASSUME NEW S, Cardinality(S) = 1, IsFiniteSet(S), NEW x \in S
    PROVE  TheOne(S) = x
<1>1. IsFiniteSet(S \ {x}) /\ Cardinality(S \ {x}) = 0
  BY FS_RemoveElement
<1>2. S \ {x} = {}
  BY <1>1, FS_EmptySet
<1> QED
  BY <1>2 DEF TheOne

\* The set of columns, and any set made from it, is finite.
LEMMA FewColumns ==
    ASSUME NEW D \in SUBSET Columns
    PROVE  IsFiniteSet(D) /\ \A f : IsFiniteSet({f[c] : c \in D})
<1>1. IsFiniteSet(Columns)
  <2>1. Columns = {"channel_id", "timestamp"} \cup {"id", "value"}
    BY DEF Columns
  <2>2. IsFiniteSet({"channel_id", "timestamp"}) /\ IsFiniteSet({"id", "value"})
    <3>1. \A a, b : IsFiniteSet({a, b})
      <4> TAKE a, b
      <4>1. {a, b} = {a} \cup {b}
        OBVIOUS
      <4>2. IsFiniteSet({a}) /\ IsFiniteSet({b})
        BY FS_Singleton
      <4>3. IsFiniteSet({a} \cup {b})
        BY <4>2, FS_Union
      <4> QED
        BY <4>1, <4>3
    <3> QED
      BY <3>1
  <2> QED
    BY <2>1, <2>2, FS_Union
<1>2. IsFiniteSet(D)
  BY <1>1, FS_Subset
<1>3. ASSUME NEW f PROVE IsFiniteSet({f[c] : c \in D})
  <2> DEFINE T == {f[c] : c \in D}
             g == [c \in D |-> f[c]]
  <2>1. g \in Surjection(D, T)
    BY DEF Surjection
  <2> QED
    BY <1>2, <2>1, FS_Surjection
<1> QED
  BY <1>2, <1>3

\* A client that follows what insert_parameter_types says has each column's
\* value decoded as the type of the column.
LEMMA InsertFollows ==
    ASSUME NEW st \in Prepared, st.kind = "insert", NEW types \in ParameterTypes(st),
           NEW b \in Bindings, Follows(b.params, types)
    PROVE  Decodes(st, b.params)
<1> DEFINE cols == st.columns
           D == {d \in Columns : IsParam(cols[d])}
           indices == {cols[c].param : c \in D}
           highest == Highest(indices)
           At(i) == {d \in Columns : cols[d] = [param |-> i]}
           Types(i) == {ColumnType[c] : c \in At(i)}
<1>1. /\ \A i \in 1..highest : Cardinality(Types(i)) = 1
      /\ types = [i \in 1..highest |-> TheOne(Types(i))]
  BY DEF ParameterTypes, InsertParameterTypes
<1>2. \A c \in D : cols[c] = [param |-> cols[c].param] /\ cols[c].param \in Nat \ {0}
  BY PlaceholderAssumption DEF Positional, Statements
<1>3. IsFiniteSet(indices) /\ indices \in SUBSET Nat
  <2> DEFINE f == [c \in D |-> cols[c].param]
  <2>1. indices = {f[c] : c \in D}
    OBVIOUS
  <2>2. D \in SUBSET Columns
    OBVIOUS
  <2>3. indices \in SUBSET Nat
    BY <1>2
  <2> HIDE DEF f, D
  <2>4. IsFiniteSet({f[c] : c \in D})
    BY <2>2, FewColumns
  <2> QED
    BY <2>1, <2>3, <2>4
<1>4. ASSUME NEW c \in Columns, IsParam(cols[c])
      PROVE  b.params[cols[c].param].type = ColumnType[c]
  <2> DEFINE i == cols[c].param
  <2>1. i \in indices /\ i \in Nat \ {0} /\ c \in At(i)
    BY <1>2, <1>4
  <2>2. i \in 1..highest
    <3>1. highest \in indices /\ \A j \in indices : j <= highest
      BY <1>3, <2>1, Largest
    <3> QED
      BY <1>3, <2>1, <3>1
  <2>3. IsFiniteSet(Types(i)) /\ Cardinality(Types(i)) = 1 /\ ColumnType[c] \in Types(i)
    <3>1. At(i) \in SUBSET Columns
      OBVIOUS
    <3>2. Cardinality(Types(i)) = 1 /\ ColumnType[c] \in Types(i)
      BY <1>1, <2>1, <2>2
    <3> HIDE DEF At
    <3>3. IsFiniteSet({ColumnType[d] : d \in At(i)})
      BY <3>1, FewColumns
    <3> QED
      BY <3>2, <3>3
  <2>4. types[i] = ColumnType[c]
    BY <1>1, <2>2, <2>3, OnlyOne
  <2>5. i \in DOMAIN types
    BY <1>1, <2>2
  <2> QED
    BY <2>4, <2>5 DEF Follows
<1>5. \E ts \in ParameterTypes(st) : Len(b.params) = Len(ts)
  BY DEF Follows
<1> QED
  BY <1>4, <1>5 DEF Decodes

\* The same of a read, whose placeholders are typed by position.
LEMMA ReadFollows ==
    ASSUME NEW st \in Prepared, st.kind = "read", NEW types \in ParameterTypes(st),
           NEW b \in Bindings, Follows(b.params, types)
    PROVE  Excused(st, b.params) \/ Taken(st, b.params)
<1> DEFINE E == {x \in Expressions(st) : IsParam(x)}
           indices == {e.param : e \in E}
           highest == Highest(indices)
<1>1. highest <= Len(ReadTypes) /\ indices = 1..highest /\ types = SubSeq(ReadTypes, 1, highest)
  BY DEF ParameterTypes, ReadParameterTypes
<1>2. IsFiniteSet(indices) /\ indices \in SUBSET Nat
  <2>1. IsFiniteSet(DOMAIN st.where)
    BY PlaceholderAssumption DEF Statements
  <2> DEFINE W == DOMAIN st.where
             L == {st.where[i].lit : i \in W}
             f == [i \in W |-> st.where[i].lit]
             g == [e \in E |-> e.param]
  <2>2. f \in Surjection(W, L)
    BY DEF Surjection
  <2>3. IsFiniteSet(L)
    BY <2>1, <2>2, FS_Surjection
  <2>4. IsFiniteSet(L \cup {st.limit})
    BY <2>3, FS_Singleton, FS_Union
  <2>5. IsFiniteSet(E)
    BY <2>4, FS_Subset DEF Expressions
  <2>6. g \in Surjection(E, indices)
    BY DEF Surjection
  <2>7. IsFiniteSet(indices)
    BY <2>5, <2>6, FS_Surjection
  <2>8. Positional(st.limit) /\ \A i \in DOMAIN st.where : Positional(st.where[i].lit)
    BY PlaceholderAssumption DEF Statements
  <2>9. \A e \in E : e.param \in Nat \ {0}
    BY <2>8 DEF Expressions, Positional
  <2> QED
    BY <2>7, <2>9
<1>3. highest \in Nat
  <2>1. CASE indices = {}
    BY <2>1 DEF Highest
  <2>2. CASE indices # {}
    BY <1>2, <2>2, Largest
  <2> QED
    BY <2>1, <2>2
<1>4. ReadTypes \in Seq({"text", "timestamptz", "int8"}) /\ Len(ReadTypes) = 4
  <2>1. Len(ReadTypes) = 4
    BY DEF ReadTypes
  <2>2. ReadTypes \in Seq({"text", "timestamptz", "int8"})
    BY DEF ReadTypes
  <2> QED
    BY <2>1, <2>2
<1> HIDE DEF highest
<1>5. Len(types) = highest /\ \A i \in 1..highest : types[i] = ReadTypes[i]
  BY <1>1, <1>3, <1>4, SubSeqProperties
<1>6. DOMAIN b.params = 1..Len(b.params) /\ DOMAIN types = 1..Len(types)
  BY PlaceholderAssumption, <1>1, <1>3, <1>4, SubSeqProperties
<1>7. \A i \in DOMAIN b.params : b.params[i].type = ReadTypes[i]
  BY <1>5, <1>6 DEF Follows
<1>8. \E ts \in ParameterTypes(st) : Len(b.params) = Len(ts)
  BY DEF Follows
<1>9. SUFFICES ASSUME ~OutsideArrow(b.params), InPosition(st) PROVE Taken(st, b.params)
  BY DEF Excused
<1>10. ASSUME NEW i \in DOMAIN b.params, b.params[i].type = "timestamptz"
       PROVE  b.params[i].val <= ArrowMax
  <2>1. ~(b.params[i].val > ArrowMax)
    BY <1>9, <1>10 DEF OutsideArrow
  <2>2. b.params[i].val \in Int /\ ArrowMax \in Int
    BY <1>10, ArrowAssumption, PlaceholderAssumption, CalendarAssumption
  <2> QED
    BY <2>1, <2>2
<1>11. Decodes(st, b.params)
  BY <1>7, <1>8, <1>10 DEF Decodes
<1>12. ASSUME NEW place \in PlaceTypes(st), IsParam(place[1])
       PROVE  place[1].param \in DOMAIN b.params /\ b.params[place[1].param].type = place[2]
  <2>1. place[1] \in Expressions(st)
    BY DEF PlaceTypes, Expressions
  <2>2. place[1].param \in indices
    BY <1>12, <2>1
  <2>3. place[1].param \in DOMAIN b.params
    BY <1>1, <1>5, <1>6, <2>2 DEF Follows
  <2>4. ReadTypes[place[1].param] = place[2]
    BY <1>9, <1>12 DEF InPosition
  <2> QED
    BY <1>7, <2>3, <2>4
<1>13. Binds(st, b.params)
  BY <1>12 DEF Binds
<1> QED
  BY <1>11, <1>13 DEF Taken

\* What Describe says is enough, but for the reads that are excused
\* (do_describe_statement against do_query).
LEMMA DescribedTaken ==
    ASSUME NEW st \in Prepared, NEW types \in ParameterTypes(st), NEW b \in Bindings,
           Follows(b.params, types)
    PROVE  Excused(st, b.params) \/ Taken(st, b.params)
<1>1. st.kind \in {"insert", "read"}
  BY DEF ParameterTypes
<1>2. st.kind = "insert" => Taken(st, b.params)
  BY InsertFollows DEF Taken
<1> QED
  BY <1>1, <1>2, ReadFollows

-----------------------------------------------------------------------------
(* The steps.                                                              *)

\* A step of one connection leaves the others alone.
OnlyOf(s) ==
    /\ UNCHANGED <<mode, exposed>>
    /\ \A r \in Sessions : r # s =>
         /\ stage'[r] = stage[r] /\ login'[r] = login[r] /\ stmt'[r] = stmt[r]
         /\ described'[r] = described[r] /\ portal'[r] = portal[r] /\ reply'[r] = reply[r]
         /\ call'[r] = call[r] /\ scan'[r] = scan[r]

\* What is left to show of a step of one connection.
LEMMA OneConnection ==
    ASSUME GatewayInv, NEW s \in Sessions, OnlyOf(s),
           StageInv(s)', PromiseInv(s)', TypeOK', Domains'
    PROVE  GatewayInv'
<1>1. ASSUME NEW r \in Sessions, r # s PROVE StageInv(r)' /\ PromiseInv(r)'
  <2>1. StageInv(r) /\ PromiseInv(r)
    BY DEF GatewayInv
  <2>2. StageInv(r)'
    BY <1>1, <2>1 DEF StageInv, Admitted, OnlyOf
  <2>3. PromiseInv(r)'
    BY <1>1, <2>1 DEF PromiseInv, OnlyOf
  <2> QED
    BY <2>2, <2>3
<1>2. (mode = "insecure" => ~exposed)'
  BY DEF GatewayInv, OnlyOf
<1> QED
  BY <1>1, <1>2 DEF GatewayInv

\* process_socket and the startup handler, up to the end of the connection.
LEMMA ConnectionSteps ==
    ASSUME GatewayInv, NEW s \in Sessions,
           Connect(s) \/ RequestTls(s) \/ Startup(s) \/ Authenticate(s) \/ Disconnect(s)
    PROVE  GatewayInv'
<1>1. /\ TypeOK /\ Domains /\ StageInv(s) /\ PromiseInv(s)
      /\ mode = "insecure" => ~exposed
  BY DEF GatewayInv
<1>2. UNCHANGED <<mode, exposed, call, scan, todo, got, archived, faults>>
  BY DEF Connect, RequestTls, Startup, Authenticate, Disconnect, work, table
<1>4. OnlyOf(s)
  BY <1>1, <1>2 DEF OnlyOf, TypeOK, Domains, Connect, RequestTls, Startup, Authenticate, Disconnect, work
<1>5. Domains'
  BY <1>1, <1>2 DEF Domains, Connect, RequestTls, Startup, Authenticate, Disconnect, work
<1> SUFFICES StageInv(s)' /\ PromiseInv(s)' /\ TypeOK'
  BY <1>4, <1>5, OneConnection
<1> USE <1>1, <1>2
<1>6. CASE Connect(s)
  <2>1. stage' = [stage EXCEPT ![s] = "plain"] /\ UNCHANGED <<login, stmt, described, portal, reply>>
        /\ mode \in {"insecure", "secure"} /\ stage[s] = "closed"
    BY <1>6 DEF Connect, Listening, work
  <2>2. TypeOK'
    BY <2>1 DEF TypeOK
  <2>3. StageInv(s)'
    BY <2>1 DEF StageInv, TypeOK
  <2>4. PromiseInv(s)'
    BY <2>1 DEF PromiseInv
  <2> QED
    BY <2>2, <2>3, <2>4
<1>7. CASE RequestTls(s)
  <2>1. stage' = [stage EXCEPT ![s] = "tls"] /\ UNCHANGED <<login, stmt, described, portal, reply>>
        /\ mode = "secure" /\ stage[s] = "plain"
    BY <1>7 DEF RequestTls, work
  <2>2. TypeOK'
    BY <2>1 DEF TypeOK
  <2>3. StageInv(s)'
    BY <2>1 DEF StageInv, TypeOK
  <2>4. PromiseInv(s)'
    BY <2>1 DEF PromiseInv
  <2> QED
    BY <2>2, <2>3, <2>4
<1>8. CASE Startup(s)
  <2>1. /\ stage[s] \in {"plain", "tls"} /\ mode \in {"insecure", "secure"}
        /\ stage' = [stage EXCEPT ![s] = AfterStartup(s)]
        /\ UNCHANGED <<stmt, described, portal, reply>>
        /\ \E l \in Credentials :
             /\ l.tls = (stage[s] = "tls")
             /\ login' = [login EXCEPT ![s] = IF stage'[s] = "login" THEN l ELSE None]
    BY <1>8 DEF Startup, StageInv, work
  <2>2. /\ AfterStartup(s) \in {"ready", "closed", "login"}
        /\ AfterStartup(s) = "ready" => mode = "insecure"
        /\ AfterStartup(s) = "login" => mode = "secure" /\ stage[s] = "tls"
    BY <2>1 DEF AfterStartup
  <2>3. stage'[s] = AfterStartup(s)
    BY <2>1 DEF TypeOK
  <2>4. /\ login' \in [Sessions -> Credentials \cup {None}]
        /\ stage'[s] = "login" => login'[s] \in Credentials /\ login'[s].tls
    <3>1. PICK l \in Credentials :
             /\ l.tls = (stage[s] = "tls")
             /\ login' = [login EXCEPT ![s] = IF stage'[s] = "login" THEN l ELSE None]
      BY <2>1
    <3>2. login' \in [Sessions -> Credentials \cup {None}]
      BY <3>1 DEF TypeOK
    <3>3. stage'[s] = "login" => login'[s] = l /\ l.tls
      BY <2>2, <2>3, <3>1 DEF TypeOK
    <3> QED
      BY <3>1, <3>2, <3>3
  <2>5. TypeOK'
    BY <2>1, <2>2, <2>4 DEF TypeOK
  <2>6. StageInv(s)'
    BY <2>1, <2>2, <2>3, <2>4 DEF StageInv, Admitted
  <2>7. PromiseInv(s)'
    BY <2>1 DEF PromiseInv
  <2> QED
    BY <2>5, <2>6, <2>7
<1>9. CASE Authenticate(s)
  <2> DEFINE ok == login[s].password = GetPassword(login[s])
  <2>1. /\ stage[s] = "login" /\ stage' = [stage EXCEPT ![s] = IF ok THEN "ready" ELSE "closed"]
        /\ login' = [login EXCEPT ![s] = IF stage'[s] = "ready" THEN login[s] ELSE None]
        /\ UNCHANGED <<stmt, described, portal, reply>>
        /\ mode = "secure" /\ login[s] \in Credentials /\ login[s].tls
    BY <1>9 DEF Authenticate, StageInv, work
  <2>2. ok => login[s] = [named |-> TRUE, password |-> "right", tls |-> TRUE]
    BY <2>1 DEF Credentials, GetPassword
  <2>3. stage'[s] = (IF ok THEN "ready" ELSE "closed")
        /\ login'[s] = (IF stage'[s] = "ready" THEN login[s] ELSE None)
    BY <2>1 DEF TypeOK
  <2> HIDE DEF ok
  <2>4. TypeOK'
    BY <2>1 DEF TypeOK
  <2>5. StageInv(s)'
    BY <2>1, <2>2, <2>3 DEF StageInv, Admitted
  <2>6. PromiseInv(s)'
    BY <2>1 DEF PromiseInv
  <2> QED
    BY <2>4, <2>5, <2>6
<1>10. CASE Disconnect(s)
  <2>1. /\ stage' = [stage EXCEPT ![s] = "closed"] /\ call[s] = None /\ scan[s] = None
        /\ login' = [login EXCEPT ![s] = None] /\ stmt' = [stmt EXCEPT ![s] = None]
        /\ described' = [described EXCEPT ![s] = {}] /\ portal' = [portal EXCEPT ![s] = None]
        /\ reply' = [reply EXCEPT ![s] = "none"]
    BY <1>10 DEF Disconnect
  <2>2. TypeOK'
    BY <2>1 DEF TypeOK
  <2>3. stmt'[s] = None /\ portal'[s] = None /\ reply'[s] = "none" /\ described'[s] = {}
        /\ stage'[s] = "closed"
    BY <2>1 DEF TypeOK, Domains
  <2>4. StageInv(s)'
    BY <2>1, <2>3 DEF StageInv
  <2>5. PromiseInv(s)'
    BY <2>3 DEF PromiseInv
  <2> QED
    BY <2>2, <2>4, <2>5
<1> QED
  BY <1>6, <1>7, <1>8, <1>9, <1>10

\* A statement that runs answers at once, sends its record to the database or
\* starts a scan; it is not refused for parameters that are taken
\* (execute_with_parameters).
LEMMA RunShape ==
    ASSUME NEW s \in Sessions, NEW st, NEW params, NEW format, Run(s, st, params, format)
    PROVE  /\ \E x \in {"none", "parameters", "error"} :
                /\ reply' = [reply EXCEPT ![s] = x]
                /\ x = "parameters" => st.kind # "insert" /\ ~Binds(st, params)
           /\ (UNCHANGED call \/ \E r : call' = [call EXCEPT ![s] = r])
           /\ (UNCHANGED scan \/ \E r : scan' = [scan EXCEPT ![s] = r])
           /\ (UNCHANGED got \/ \E r : got' = [got EXCEPT ![s] = r])
           /\ (UNCHANGED todo \/ \E r : todo' = [todo EXCEPT ![s] = r])
<1>1. CASE st.kind = "insert"
  BY <1>1 DEF Run, AppendRecord, Answer
<1>2. CASE st.kind # "insert"
  <2>1. CASE ~Binds(st, params)
    BY <1>2, <2>1 DEF Run, Answer
  <2>2. CASE Binds(st, params)
    <3>1. CASE Answer(s, "error")
      BY <3>1 DEF Answer
    <3>2. ASSUME NEW b \in BoundQuery(st, params), StartScan(s, st, params, format, b)
          PROVE  /\ reply' = [reply EXCEPT ![s] = "none"] /\ UNCHANGED call
                 /\ \E r : scan' = [scan EXCEPT ![s] = r]
                 /\ got' = [got EXCEPT ![s] = {}]
                 /\ todo' = [todo EXCEPT ![s] = ScanBuckets(b.query, b.limit)]
      BY <3>2 DEF StartScan
    <3> QED
      BY <1>2, <2>2, <3>1, <3>2 DEF Run
  <2> QED
    BY <2>1, <2>2
<1> QED
  BY <1>1, <1>2

LEMMA StatementSteps ==
    ASSUME GatewayInv, NEW s \in Sessions,
           \/ Describe(s) \/ Execute(s)
           \/ \E st \in Simple : SimpleQuery(s, st)
           \/ \E st \in Prepared : Parse(s, st)
           \/ \E b \in Bindings : Bind(s, b)
    PROVE  GatewayInv'
<1>1. /\ TypeOK /\ Domains /\ StageInv(s) /\ PromiseInv(s)
      /\ stage[s] = "ready" /\ Admitted(s)
  BY DEF GatewayInv, StageInv, Describe, Execute, SimpleQuery, Parse, Bind, Idle
<1>2. UNCHANGED <<mode, exposed, stage, login, archived, faults>>
  BY DEF Describe, Execute, SimpleQuery, Parse, Bind, connection, table
<1>3. Admitted(s)'
  BY <1>1, <1>2 DEF Admitted
<1>4. ASSUME OnlyOf(s), Domains', PromiseInv(s)',
             stmt' \in [Sessions -> Prepared \cup {None}],
             s \notin Extended => stmt'[s] = None /\ portal'[s] = None,
             reply' \in [Sessions -> {"none", "rows", "inserted", "parameters", "error"}]
      PROVE  GatewayInv'
  <2>1. StageInv(s)'
    BY <1>1, <1>2, <1>3, <1>4 DEF StageInv
  <2>2. TypeOK'
    BY <1>1, <1>2, <1>4 DEF TypeOK
  <2> QED
    BY <1>4, <2>1, <2>2, OneConnection
<1>5. CASE Describe(s)
  <2>1. described' = [described EXCEPT ![s] = ParameterTypes(stmt[s])]
        /\ UNCHANGED <<stmt, portal, reply, call, scan, todo, got>>
    BY <1>5 DEF Describe, work
  <2>2. OnlyOf(s) /\ Domains'
    BY <1>1, <1>2, <2>1 DEF OnlyOf, Domains
  <2>3. PromiseInv(s)'
    BY <1>1, <2>1 DEF PromiseInv, Domains
  <2> QED
    BY <1>1, <1>4, <2>1, <2>2, <2>3 DEF TypeOK, StageInv
<1>6. ASSUME NEW st \in Prepared, Parse(s, st) PROVE GatewayInv'
  <2>1. stmt' = [stmt EXCEPT ![s] = st] /\ described' = [described EXCEPT ![s] = {}]
        /\ UNCHANGED <<portal, reply, call, scan, todo, got>> /\ s \in Extended
    BY <1>6 DEF Parse, work
  <2>2. OnlyOf(s) /\ Domains'
    BY <1>1, <1>2, <2>1 DEF OnlyOf, Domains, TypeOK
  <2>3. PromiseInv(s)'
    BY <1>1, <2>1 DEF PromiseInv, Domains
  <2> QED
    BY <1>1, <1>4, <2>1, <2>2, <2>3 DEF TypeOK
<1>7. ASSUME NEW b \in Bindings, Bind(s, b) PROVE GatewayInv'
  <2> DEFINE told == \E types \in described[s] : Follows(b.params, types)
             bound == [st |-> stmt[s], params |-> b.params, format |-> b.format, promised |-> told]
  <2>1. portal' = [portal EXCEPT ![s] = bound] /\ reply' = [reply EXCEPT ![s] = "none"]
        /\ UNCHANGED <<stmt, described, call, scan, todo, got>> /\ stmt[s] # None
    BY <1>7 DEF Bind
  <2>2. stmt[s] \in Prepared /\ s \in Extended
    BY <1>1, <2>1 DEF TypeOK, StageInv
  <2>3. told => Excused(stmt[s], b.params) \/ Taken(stmt[s], b.params)
    BY <1>1, <2>2, DescribedTaken DEF PromiseInv
  <2>4. portal'[s] = bound /\ reply'[s] = "none"
    BY <1>1, <2>1 DEF TypeOK, Domains
  <2>5. bound.st = stmt[s] /\ bound.params = b.params /\ bound.promised = told
    OBVIOUS
  <2> HIDE DEF told, bound
  <2>6. OnlyOf(s) /\ Domains'
    BY <1>1, <1>2, <2>1 DEF OnlyOf, Domains, TypeOK
  <2>7. PromiseInv(s)'
    BY <1>1, <2>1, <2>3, <2>4, <2>5 DEF PromiseInv
  <2> QED
    BY <1>1, <1>4, <2>1, <2>2, <2>6, <2>7 DEF TypeOK
<1>8. ASSUME UNCHANGED <<stmt, described, portal>>,
             NEW x \in {"none", "rows", "inserted", "parameters", "error"},
             reply' = [reply EXCEPT ![s] = x],
             UNCHANGED call \/ \E r : call' = [call EXCEPT ![s] = r],
             UNCHANGED scan \/ \E r : scan' = [scan EXCEPT ![s] = r],
             UNCHANGED todo \/ \E r : todo' = [todo EXCEPT ![s] = r],
             UNCHANGED got \/ \E r : got' = [got EXCEPT ![s] = r],
             x = "parameters" /\ portal[s] # None /\ portal[s].promised =>
               Excused(portal[s].st, portal[s].params)
      PROVE  GatewayInv'
  <2>1. OnlyOf(s) /\ Domains'
    BY <1>1, <1>2, <1>8 DEF OnlyOf, Domains, TypeOK
  <2>2. PromiseInv(s)'
    <3>1. reply'[s] = x
      BY <1>1, <1>8 DEF TypeOK
    <3> QED
      BY <1>1, <1>8, <3>1 DEF PromiseInv
  <2>3. reply' \in [Sessions -> {"none", "rows", "inserted", "parameters", "error"}]
    BY <1>1, <1>8 DEF TypeOK
  <2> QED
    BY <1>1, <1>4, <1>8, <2>1, <2>2, <2>3 DEF TypeOK, StageInv
<1>9. ASSUME NEW st \in Simple, SimpleQuery(s, st) PROVE GatewayInv'
  <2>1. UNCHANGED <<stmt, described, portal>> /\ portal[s] = None
    BY <1>1, <1>9 DEF SimpleQuery, connection, StageInv
  <2>2. CASE Answer(s, "error")
    BY <1>8, <2>1, <2>2 DEF Answer
  <2>3. CASE Run(s, st, <<>>, "text")
    <3>1. PICK x \in {"none", "parameters", "error"} : reply' = [reply EXCEPT ![s] = x]
      BY <2>3, RunShape
    <3> QED
      BY <1>8, <2>1, <2>3, <3>1, RunShape
  <2> QED
    BY <1>9, <2>2, <2>3 DEF SimpleQuery
<1>10. CASE Execute(s)
  <2> DEFINE p == portal[s]
  <2>1. UNCHANGED <<stmt, described, portal>>
    BY <1>10 DEF Execute, connection
  <2>2. portal[s].promised => Excused(p.st, p.params) \/ Taken(p.st, p.params)
    BY <1>1, <1>10 DEF PromiseInv, Execute
  <2>3. CASE Decodes(p.st, p.params)
    <3>1. Run(s, p.st, p.params, p.format)
      BY <1>10, <2>3 DEF Execute
    <3>2. PICK x \in {"none", "parameters", "error"} :
            /\ reply' = [reply EXCEPT ![s] = x]
            /\ x = "parameters" => p.st.kind # "insert" /\ ~Binds(p.st, p.params)
      BY <3>1, RunShape
    <3>3. x = "parameters" /\ portal[s].promised => Excused(p.st, p.params)
      BY <2>2, <3>2 DEF Taken
    <3> HIDE DEF p
    <3> QED
      BY <1>8, <2>1, <3>1, <3>2, <3>3, RunShape DEF p
  <2>4. CASE ~Decodes(p.st, p.params)
    <3>1. Answer(s, "parameters")
      BY <1>10, <2>4 DEF Execute
    <3>2. portal[s].promised => Excused(p.st, p.params)
      BY <2>2, <2>4 DEF Taken
    <3> QED
      BY <1>8, <2>1, <3>1, <3>2 DEF Answer
  <2> QED
    BY <2>3, <2>4
<1> QED
  BY <1>5, <1>6, <1>7, <1>9, <1>10

\* A step of a connection's INSERT or read, which may answer it.
LEMMA WorkStep ==
    ASSUME GatewayInv, NEW s \in Sessions, UNCHANGED <<mode, exposed, connection, archived>>,
           call[s] # None \/ scan[s] # None, faults' \in 0..MaxFaults,
           UNCHANGED reply \/ \E x \in {"rows", "inserted", "error"} : reply' = [reply EXCEPT ![s] = x],
           UNCHANGED call \/ \E r : call' = [call EXCEPT ![s] = r],
           UNCHANGED scan \/ \E r : scan' = [scan EXCEPT ![s] = r],
           UNCHANGED todo \/ \E r : todo' = [todo EXCEPT ![s] = r],
           UNCHANGED got \/ \E r : got' = [got EXCEPT ![s] = r]
    PROVE  GatewayInv'
<1>1. TypeOK /\ Domains /\ StageInv(s) /\ PromiseInv(s) /\ stage[s] = "ready"
  BY DEF GatewayInv, StageInv
<1>2. UNCHANGED <<stage, login, stmt, described, portal>>
  BY DEF connection
<1>3. OnlyOf(s) /\ Domains'
  BY <1>1, <1>2 DEF OnlyOf, Domains, TypeOK
<1>4. TypeOK'
  <2>1. reply' \in [Sessions -> {"none", "rows", "inserted", "parameters", "error"}]
    BY <1>1 DEF TypeOK
  <2> QED
    BY <1>1, <1>2, <2>1 DEF TypeOK
<1>5. StageInv(s)'
  BY <1>1, <1>2 DEF StageInv, Admitted
<1>6. PromiseInv(s)'
  <2>1. reply'[s] = reply[s] \/ reply'[s] # "parameters"
    BY <1>1 DEF TypeOK
  <2> QED
    BY <1>1, <1>2, <2>1 DEF PromiseInv
<1> QED
  BY <1>3, <1>4, <1>5, <1>6, OneConnection

\* The database carries an INSERT out or not, and the buckets of a read answer.
LEMMA DatabaseSteps ==
    ASSUME GatewayInv, NEW s \in Sessions,
           \/ Commits(s) \/ Acknowledges(s) \/ Refused(s) \/ Fails(s)
           \/ ScanEnds(s) \/ ScanFails(s) \/ \E b \in Starts : ReadBucket(s, b)
    PROVE  GatewayInv'
<1>1. faults \in 0..MaxFaults /\ (faults < MaxFaults => faults + 1 \in 0..MaxFaults)
  BY GatewayAssumption DEF GatewayInv, TypeOK
<1>2. CASE Commits(s)
  BY <1>1, <1>2, WorkStep DEF Commits
<1>3. CASE Acknowledges(s) \/ Refused(s) \/ Fails(s)
  <2>1. /\ UNCHANGED <<mode, exposed, connection, scan, todo, got, archived>>
        /\ call[s] # None /\ call' = [call EXCEPT ![s] = None] /\ faults' \in 0..MaxFaults
        /\ \E x \in {"rows", "inserted", "error"} : reply' = [reply EXCEPT ![s] = x]
    BY <1>1, <1>3 DEF Acknowledges, Refused, Fails, EndInsert
  <2> QED
    BY <2>1, WorkStep
<1>4. CASE ScanEnds(s) \/ ScanFails(s)
  <2>1. /\ UNCHANGED <<mode, exposed, connection, call, archived>>
        /\ scan[s] # None /\ scan' = [scan EXCEPT ![s] = None] /\ faults' \in 0..MaxFaults
        /\ todo' = [todo EXCEPT ![s] = {}] /\ got' = [got EXCEPT ![s] = {}]
        /\ \E x \in {"rows", "inserted", "error"} : reply' = [reply EXCEPT ![s] = x]
    BY <1>1, <1>4 DEF ScanEnds, ScanFails, EndScan, table
  <2> QED
    BY <2>1, WorkStep
<1>5. ASSUME NEW b \in Starts, ReadBucket(s, b) PROVE GatewayInv'
  <2>1. /\ UNCHANGED <<mode, exposed, connection, reply, call, scan, archived, faults>>
        /\ scan[s] # None
        /\ \E r : todo' = [todo EXCEPT ![s] = r]
        /\ \E r : got' = [got EXCEPT ![s] = r]
    BY <1>5 DEF ReadBucket, table
  <2> QED
    BY <1>1, <2>1, WorkStep
<1> QED
  BY <1>2, <1>3, <1>4, <1>5

\* main: the process starts in the mode that its settings allow.
LEMMA StartStep == ASSUME GatewayInv, Start PROVE GatewayInv'
<1>1. /\ mode = "down" /\ UNCHANGED <<connection, work, table, faults>>
      /\ \E files \in SUBSET {"certificate", "key", "password"}, sound \in BOOLEAN,
            addr \in {"loopback", "public"} :
           /\ mode' = ListenMode(LoadedMode(files, sound), addr)
           /\ exposed' = (mode' = "insecure" /\ addr = "public")
  BY DEF Start
<1>2. /\ mode' \in {"insecure", "secure", "refused"} /\ exposed' \in BOOLEAN
      /\ mode' = "insecure" => ~exposed'
  BY <1>1 DEF ListenMode, LoadedMode
<1>3. UNCHANGED <<stage, login, stmt, described, portal, reply, call, scan, todo, got, archived, faults>>
  BY <1>1 DEF connection, work, table
<1>4. TypeOK' /\ Domains'
  BY <1>2, <1>3 DEF GatewayInv, TypeOK, Domains
<1>5. ASSUME NEW s \in Sessions PROVE StageInv(s)' /\ PromiseInv(s)'
  <2>1. StageInv(s) /\ PromiseInv(s)
    BY DEF GatewayInv
  <2>2. StageInv(s)'
    BY <1>1, <1>3, <2>1 DEF StageInv
  <2>3. PromiseInv(s)'
    BY <1>3, <2>1 DEF PromiseInv
  <2> QED
    BY <2>2, <2>3
<1> QED
  BY <1>2, <1>4, <1>5 DEF GatewayInv

\* A crash ends every connection.
LEMMA CrashStep == ASSUME GatewayInv, Crash PROVE GatewayInv'
<1>1. /\ faults < MaxFaults /\ faults' = faults + 1 /\ mode' = "down"
      /\ stage' = [s \in Sessions |-> "closed"]
      /\ login' = [s \in Sessions |-> None] /\ stmt' = [s \in Sessions |-> None]
      /\ described' = [s \in Sessions |-> {}] /\ portal' = [s \in Sessions |-> None]
      /\ reply' = [s \in Sessions |-> "none"]
      /\ call' = [s \in Sessions |-> None] /\ scan' = [s \in Sessions |-> None]
      /\ todo' = [s \in Sessions |-> {}] /\ got' = [s \in Sessions |-> {}]
      /\ UNCHANGED <<exposed, archived>>
  BY DEF Crash
<1>3. faults' \in 0..MaxFaults
  BY <1>1, GatewayAssumption DEF GatewayInv, TypeOK
<1>4. TypeOK'
  BY <1>1, <1>3 DEF GatewayInv, TypeOK
<1>5. Domains'
  BY <1>1 DEF Domains
<1>6. ASSUME NEW s \in Sessions PROVE StageInv(s)' /\ PromiseInv(s)'
  BY <1>1 DEF StageInv, PromiseInv
<1> QED
  BY <1>1, <1>4, <1>5, <1>6 DEF GatewayInv

\* A step of the table alone: a COMMIT that lands, a bucket that is cut over.
LEMMA TableStep ==
    ASSUME GatewayInv, UNCHANGED <<mode, exposed, connection, work, faults>>, archived' \subseteq Starts
    PROVE  GatewayInv'
<1>1. UNCHANGED <<stage, login, stmt, described, portal, reply, call, scan, todo, got>>
  BY DEF connection, work
<1>2. TypeOK' /\ Domains'
  BY <1>1 DEF GatewayInv, TypeOK, Domains
<1>3. ASSUME NEW s \in Sessions PROVE StageInv(s)' /\ PromiseInv(s)'
  <2>1. StageInv(s) /\ PromiseInv(s)
    BY DEF GatewayInv
  <2> QED
    BY <1>1, <2>1 DEF StageInv, PromiseInv, Admitted
<1> QED
  BY <1>2, <1>3 DEF GatewayInv

\* The database, the process and the archive in one.
LEMMA GatewayStep == ASSUME GatewayInv, [Next]_vars PROVE GatewayInv'
<1>0. archived \subseteq Starts
  BY DEF GatewayInv, TypeOK
<1>1. CASE UNCHANGED vars
  BY <1>0, <1>1, TableStep DEF vars, table
<1>2. CASE \E r \in landing : Lands(r)
  BY <1>0, <1>2, TableStep DEF Lands
<1>3. CASE \E b \in Starts : Archive(b)
  <2>1. archived' \subseteq Starts /\ UNCHANGED <<mode, exposed, connection, work, faults>>
    BY <1>0, <1>3 DEF Archive
  <2> QED
    BY <2>1, TableStep
<1>4. CASE Next
  <2>1. \/ Start \/ Crash \/ (\E r \in landing : Lands(r)) \/ \E b \in Starts : Archive(b)
        \/ \E s \in Sessions :
             \/ Connect(s) \/ RequestTls(s) \/ Startup(s) \/ Authenticate(s) \/ Disconnect(s)
             \/ \/ Commits(s) \/ Acknowledges(s) \/ Refused(s) \/ Fails(s)
                \/ ScanEnds(s) \/ ScanFails(s) \/ \E b \in Starts : ReadBucket(s, b)
             \/ \/ Describe(s) \/ Execute(s)
                \/ \E st \in Simple : SimpleQuery(s, st)
                \/ \E st \in Prepared : Parse(s, st)
                \/ \E b \in Bindings : Bind(s, b)
    BY <1>4, Zenon DEF Next
  <2> QED
    BY <1>2, <1>3, <2>1, StartStep, CrashStep, ConnectionSteps, DatabaseSteps, StatementSteps
<1> QED
  BY <1>1, <1>4

-----------------------------------------------------------------------------
(* The calendar.                                                           *)

\* Every instant lies in a bucket: the last one that starts no later.
LEMMA BucketOfWorks ==
    ASSUME NEW t \in Nat
    PROVE  /\ BucketOf(t) \in Starts /\ BucketOf(t) \in Nat /\ BucketOf(t) <= t
           /\ \A c \in Starts : c <= t => c <= BucketOf(t)
<1>0. Starts \subseteq Nat /\ 0 \in Starts
  BY CalendarAssumption
<1> DEFINE D == {t - b : b \in {c \in Starts : c <= t}}
<1>1. D \in SUBSET Nat /\ D # {}
  BY <1>0
<1> HIDE DEF D
<1>2. PICK d \in D : \A a \in D : d <= a
  BY <1>1, Least
<1>3. PICK b \in Starts : b <= t /\ d = t - b
  BY <1>2 DEF D
<1>4. ASSUME NEW c \in Starts, c <= t PROVE c <= b
  <2>1. t - c \in D
    BY <1>4 DEF D
  <2>2. d <= t - c
    BY <1>2, <2>1
  <2> QED
    BY <1>0, <1>3, <2>2
<1>5. \E x \in Starts : x <= t /\ \A c \in Starts : c <= t => c <= x
  BY <1>3, <1>4
<1>6. BucketOf(t) \in Starts /\ BucketOf(t) <= t /\ \A c \in Starts : c <= t => c <= BucketOf(t)
  BY <1>5 DEF BucketOf
<1> QED
  BY <1>0, <1>6

\* A bucket ends where the next one starts, or at the horizon.
LEMMA BucketEndWorks ==
    ASSUME NEW b \in Starts
    PROVE  /\ BucketEnd(b) \in Starts \cup {Horizon} /\ BucketEnd(b) \in 0..Horizon
           /\ b < BucketEnd(b)
           /\ \A c \in Starts : b < c => BucketEnd(b) <= c
<1>0. Starts \subseteq Nat /\ Horizon \in Nat /\ \A c \in Starts : c < Horizon
  BY CalendarAssumption
<1> DEFINE D == {c \in Starts \cup {Horizon} : b < c}
<1>1. D \in SUBSET Nat /\ D # {}
  BY <1>0
<1> HIDE DEF D
<1>2. PICK e \in D : \A a \in D : e <= a
  BY <1>1, Least
<1>3. \E x \in Starts \cup {Horizon} : b < x /\ \A c \in Starts \cup {Horizon} : b < c => x <= c
  BY <1>2 DEF D
<1>4. /\ BucketEnd(b) \in Starts \cup {Horizon}
      /\ b < BucketEnd(b)
      /\ \A c \in Starts \cup {Horizon} : b < c => BucketEnd(b) <= c
  BY <1>3 DEF BucketEnd
<1>5. \A x \in Starts \cup {Horizon} : x \in 0..Horizon
  BY <1>0
<1> QED
  BY <1>4, <1>5

\* The bucket of an instant ends after it, and holds all instants until its end.
LEMMA BucketHolds ==
    ASSUME NEW t \in Nat, t < Horizon
    PROVE  /\ BucketEnd(BucketOf(t)) \in (t + 1)..Horizon
           /\ \A u \in Nat : t <= u /\ u < BucketEnd(BucketOf(t)) => BucketOf(u) = BucketOf(t)
<1> DEFINE b == BucketOf(t)
           e == BucketEnd(b)
<1>0. Starts \subseteq Nat /\ Horizon \in Nat /\ \A c \in Starts : c < Horizon
  BY CalendarAssumption
<1>1. b \in Starts /\ b \in Nat /\ b <= t /\ \A c \in Starts : c <= t => c <= b
  BY BucketOfWorks
<1> HIDE DEF b
<1>2. /\ e \in Starts \cup {Horizon} /\ e \in 0..Horizon /\ b < e
      /\ \A c \in Starts : b < c => e <= c
  BY <1>1, BucketEndWorks
<1> HIDE DEF e
<1>3. t < e
  BY <1>0, <1>1, <1>2
<1>4. ASSUME NEW u \in Nat, t <= u, u < e PROVE BucketOf(u) = b
  <2>1. /\ BucketOf(u) \in Starts /\ BucketOf(u) \in Nat /\ BucketOf(u) <= u
        /\ \A c \in Starts : c <= u => c <= BucketOf(u)
    BY BucketOfWorks
  <2>2. b <= BucketOf(u)
    BY <1>1, <1>4, <2>1
  <2>3. ~(b < BucketOf(u))
    BY <1>2, <1>4, <2>1
  <2> QED
    BY <1>1, <2>1, <2>2, <2>3
<1> QED
  BY <1>0, <1>2, <1>3, <1>4 DEF b, e

\* The buckets from an instant on, given those from the end of its bucket on.
From(t, end, rest) ==
    IF t = Horizon \/ BucketOf(t) >= end THEN <<>> ELSE <<BucketOf(t)>> \o rest

\* The lists of buckets from each instant on, down to instant k.
Lists(f, end, k) == f = [t \in k..Horizon |-> From(t, end, f[BucketEnd(BucketOf(t))])]

\* They can be built, the latest first.
LEMMA ListsExist == ASSUME NEW end PROVE \E f : Lists(f, end, 0)
<1>0. Horizon \in Nat
  BY CalendarAssumption
<1> DEFINE Bad == {d \in 0..Horizon : ~\E f : Lists(f, end, Horizon - d)}
<1>a. ASSUME Bad # {} PROVE FALSE
  <2>0. Bad \in SUBSET Nat
    OBVIOUS
  <2>1. PICK d \in Bad : \A a \in Bad : d <= a
    BY <1>a, <2>0, Least
  <2>2. CASE d = 0
    <3>1. Lists([t \in Horizon..Horizon |-> <<>>], end, Horizon)
      BY <1>0 DEF Lists, From
    <3>2. Horizon - d = Horizon
      BY <1>0, <2>2
    <3> QED
      BY <2>1, <3>1, <3>2
  <2>3. CASE d # 0
    <3> DEFINE k == Horizon - d
    <3>1. d - 1 \in 0..Horizon /\ d - 1 \notin Bad /\ Horizon - (d - 1) = k + 1
          /\ k \in Nat /\ k < Horizon /\ d \in 0..Horizon
      BY <1>0, <2>0, <2>1, <2>3
    <3>2. PICK f : Lists(f, end, k + 1)
      BY <3>1
    <3>2a. ~\E g : Lists(g, end, k)
      BY <2>1
    <3> HIDE DEF k, Bad
    <3> DEFINE g == [t \in k..Horizon |->
                       IF t = k THEN From(k, end, f[BucketEnd(BucketOf(k))]) ELSE f[t]]
    <3>3. ASSUME NEW t \in k..Horizon
          PROVE  g[t] = From(t, end, g[BucketEnd(BucketOf(t))])
      <4>1. CASE t = Horizon
        BY <1>0, <3>1, <3>2, <4>1 DEF Lists, From
      <4>2. CASE t # Horizon
        <5>1. t \in Nat /\ t < Horizon
          BY <1>0, <3>1, <4>2
        <5>2. BucketEnd(BucketOf(t)) \in (t + 1)..Horizon
          BY <5>1, BucketHolds
        <5>3. BucketEnd(BucketOf(t)) \in k..Horizon /\ BucketEnd(BucketOf(t)) # k
          BY <1>0, <3>1, <5>1, <5>2
        <5>4. g[BucketEnd(BucketOf(t))] = f[BucketEnd(BucketOf(t))]
          BY <5>3
        <5>5. CASE t = k
          BY <5>4, <5>5
        <5>6. CASE t # k
          <6>1. t \in (k + 1)..Horizon
            BY <1>0, <3>1, <5>1, <5>6
          <6>2. f[t] = From(t, end, f[BucketEnd(BucketOf(t))])
            BY <3>2, <6>1 DEF Lists
          <6> QED
            BY <5>4, <5>6, <6>2
        <5> QED
          BY <5>5, <5>6
      <4> QED
        BY <4>1, <4>2
    <3>4. Lists(g, end, k)
      BY <3>3 DEF Lists
    <3> QED
      BY <3>2a, <3>4
  <2> QED
    BY <2>2, <2>3
<1>1. Horizon \in 0..Horizon /\ Horizon \notin Bad /\ Horizon - Horizon = 0
  BY <1>0, <1>a
<1> QED
  BY <1>1

\* What holds of the instants before the horizon when it holds of the later
\* ones holds of all of them.
LEMMA Downwards ==
    ASSUME NEW Q, Horizon \in Q,
           \A t \in Times : (\A u \in (t + 1)..Horizon : u \in Q) => t \in Q
    PROVE  \A t \in 0..Horizon : t \in Q
<1>0. Horizon \in Nat
  BY CalendarAssumption
<1> DEFINE Bad == {Horizon - t : t \in {u \in 0..Horizon : u \notin Q}}
<1> SUFFICES ASSUME Bad # {} PROVE FALSE
  OBVIOUS
<1>1. Bad \in SUBSET Nat
  BY <1>0
<1> HIDE DEF Bad
<1>2. PICK d \in Bad : \A a \in Bad : d <= a
  BY <1>1, Least
<1>3. PICK t \in 0..Horizon : t \notin Q /\ d = Horizon - t
  BY <1>2 DEF Bad
<1>4. t \in Times
  BY <1>0, <1>3 DEF Times
<1>5. ASSUME NEW u \in (t + 1)..Horizon PROVE u \in Q
  <2>1. u \in 0..Horizon /\ ~(d <= Horizon - u)
    BY <1>0, <1>3
  <2>2. u \notin Q => Horizon - u \in Bad
    BY <2>1 DEF Bad
  <2> QED
    BY <1>2, <2>1, <2>2
<1> QED
  BY <1>3, <1>4, <1>5

\* The buckets of a range are buckets, and the bucket of every instant in the
\* range is among them.
LEMMA BucketsForRangeWorks ==
    ASSUME NEW r, r.start \in 0..Horizon, r.end \in 0..Horizon
    PROVE  /\ BucketsForRange(r) \in Seq(Starts)
           /\ \A u \in Times : Contains(r, u) =>
                \E i \in 1..Len(BucketsForRange(r)) : BucketsForRange(r)[i] = BucketOf(u)
<1>0. r.start \in 0..Horizon /\ r.end \in 0..Horizon /\ Horizon \in Nat
  BY CalendarAssumption
<1> DEFINE f == CHOOSE h : Lists(h, r.end, 0)
<1>1. BucketsForRange(r) = IF r.start >= r.end THEN <<>> ELSE f[r.start]
  BY DEF BucketsForRange, Lists, From
<1>2. Lists(f, r.end, 0)
  BY ListsExist
<1> HIDE DEF f
<1>3. \A t \in 0..Horizon : f[t] = From(t, r.end, f[BucketEnd(BucketOf(t))])
  BY <1>2 DEF Lists
<1>4. \A t \in 0..Horizon : f[t] \in Seq(Starts)
  <2> DEFINE Q == {t \in 0..Horizon : f[t] \in Seq(Starts)}
  <2>0. <<>> \in Seq(Starts)
    OBVIOUS
  <2>1. Horizon \in Q
    <3>1. Horizon \in 0..Horizon
      BY <1>0
    <3>2. f[Horizon] = <<>>
      BY <1>3, <3>1, Zenon DEF From
    <3> QED
      BY <2>0, <3>1, <3>2
  <2>2. ASSUME NEW t \in Times, \A u \in (t + 1)..Horizon : u \in Q PROVE t \in Q
    <3>1. t \in 0..Horizon /\ t \in Nat /\ t < Horizon
      BY <1>0 DEF Times
    <3>2. f[BucketEnd(BucketOf(t))] \in Seq(Starts)
      BY <2>2, <3>1, BucketHolds
    <3>3. <<BucketOf(t)>> \in Seq(Starts)
      BY <3>1, BucketOfWorks
    <3>4. <<BucketOf(t)>> \o f[BucketEnd(BucketOf(t))] \in Seq(Starts)
      BY <3>2, <3>3
    <3>5. f[t] = <<>> \/ f[t] = <<BucketOf(t)>> \o f[BucketEnd(BucketOf(t))]
      BY <1>3, <3>1, Zenon DEF From
    <3> QED
      BY <2>0, <3>1, <3>4, <3>5
  <2> HIDE DEF Q
  <2>3. \A t \in 0..Horizon : t \in Q
    BY <2>1, <2>2, Downwards
  <2> QED
    BY <2>3 DEF Q
<1>5. ASSUME NEW u \in Times, u < r.end
      PROVE  \A t \in 0..Horizon : t <= u => \E i \in 1..Len(f[t]) : f[t][i] = BucketOf(u)
  <2> DEFINE Q == {t \in 0..Horizon : t <= u => \E i \in 1..Len(f[t]) : f[t][i] = BucketOf(u)}
  <2>0. u \in Nat /\ u < Horizon
    BY <1>0 DEF Times
  <2>1. Horizon \in Q
    BY <1>0, <2>0
  <2>2. ASSUME NEW t \in Times, \A v \in (t + 1)..Horizon : v \in Q PROVE t \in Q
    <3>0. t \in 0..Horizon /\ t \in Nat /\ t < Horizon
      BY <1>0 DEF Times
    <3>1. SUFFICES ASSUME t <= u PROVE \E i \in 1..Len(f[t]) : f[t][i] = BucketOf(u)
      BY <3>0
    <3> DEFINE b == BucketOf(t)
               e == BucketEnd(b)
    <3>2. b \in Starts /\ b \in Nat /\ b <= t
      BY <3>0, BucketOfWorks
    <3>3. e \in (t + 1)..Horizon /\ (u < e => BucketOf(u) = b)
      BY <2>0, <3>0, <3>1, BucketHolds
    <3>4. f[t] = From(t, r.end, f[e])
      BY <1>3, <3>0
    <3>5. f[e] \in Seq(Starts) /\ e \in Q
      BY <1>0, <1>4, <2>2, <3>0, <3>3
    <3>6. f[t] = <<b>> \o f[e]
      BY <1>0, <1>5, <2>0, <3>0, <3>1, <3>2, <3>4 DEF From
    <3> HIDE DEF b, e
    <3>7. /\ Len(f[t]) = Len(f[e]) + 1 /\ f[t][1] = b /\ Len(f[e]) \in Nat
          /\ \A i \in 1..Len(f[e]) : f[t][i + 1] = f[e][i]
      BY <3>2, <3>5, <3>6
    <3>8. CASE u < e
      BY <3>3, <3>7, <3>8
    <3>9. CASE ~(u < e)
      <4>1. PICK i \in 1..Len(f[e]) : f[e][i] = BucketOf(u)
        BY <1>0, <2>0, <3>0, <3>3, <3>5, <3>9
      <4>2. i + 1 \in 1..Len(f[t]) /\ f[t][i + 1] = BucketOf(u)
        BY <3>7, <4>1
      <4> QED
        BY <4>2
    <3> QED
      BY <3>8, <3>9
  <2> HIDE DEF Q
  <2>3. \A t \in 0..Horizon : t \in Q
    BY <2>1, <2>2, Downwards
  <2> QED
    BY <2>3 DEF Q
<1>6. BucketsForRange(r) \in Seq(Starts)
  BY <1>0, <1>1, <1>4
<1>7. ASSUME NEW u \in Times, Contains(r, u)
      PROVE  \E i \in 1..Len(BucketsForRange(r)) : BucketsForRange(r)[i] = BucketOf(u)
  <2>1. r.start <= u /\ u < r.end /\ ~(r.start >= r.end)
    BY <1>0, <1>7 DEF Contains, Times
  <2> QED
    BY <1>0, <1>1, <1>5, <2>1
<1> QED
  BY <1>6, <1>7

-----------------------------------------------------------------------------
(* Scans: the filters that the provider takes say what its query says.     *)

\* A row of the table, or one on its way to it.
RowOK(r) == DOMAIN r = Columns /\ r.timestamp \in Times /\ r.id \in Nat

\* Rows are rows, no key has two of them, and there are finitely many.
TableOK(R) ==
    /\ IsFiniteSet(R) /\ \A r \in R : RowOK(r)
    /\ \A r, q \in R : Key(r) = Key(q) => r = q

\* DataFusion's canonical form has the column on the left and means the same.
LEMMA CanonicalForm ==
    ASSUME NEW c, Comparison(c)
    PROVE  /\ Canonical(c).col = c.col /\ Canonical(c).lit = c.lit /\ Canonical(c).flipped = FALSE
           /\ Canonical(c).op \in {"=", ">=", "<", "<=", ">", "else"}
<1>1. CASE c.flipped
  <2>1. Canonical(c) = [col |-> c.col, op |-> Swapped[c.op], lit |-> c.lit, flipped |-> FALSE]
    BY <1>1 DEF Canonical, Comparison
  <2>2. Swapped[c.op] \in {"=", ">=", "<", "<=", ">", "else"}
    BY DEF Swapped, Comparison
  <2> QED
    BY <2>1, <2>2
<1>2. CASE ~c.flipped
  BY <1>2 DEF Canonical, Comparison
<1> QED
  BY <1>1, <1>2

\* The literals of some filters.
Literals(filters, indices) == {filters[i].lit.val : i \in indices}

\* What each of them can be taken as is its value.
LEMMA ValuesOnly ==
    ASSUME NEW F, NEW I
    PROVE  /\ (\A i \in I : StringLiteral(F[i].lit) = {F[i].lit.val}) =>
                UNION {StringLiteral(F[i].lit) : i \in I} = Literals(F, I)
           /\ (\A i \in I : TimestampLiteral(F[i].lit) = {F[i].lit.val}) =>
                UNION {TimestampLiteral(F[i].lit) : i \in I} = Literals(F, I)
<1>1. ASSUME \A i \in I : StringLiteral(F[i].lit) = {F[i].lit.val}
      PROVE  UNION {StringLiteral(F[i].lit) : i \in I} = Literals(F, I)
  <2>1. ASSUME NEW i \in I PROVE F[i].lit.val \in UNION {StringLiteral(F[j].lit) : j \in I}
    <3>1. F[i].lit.val \in StringLiteral(F[i].lit)
      BY <1>1, Zenon
    <3> QED
      BY <3>1, Zenon
  <2>2. ASSUME NEW i \in I, NEW x \in StringLiteral(F[i].lit) PROVE x \in Literals(F, I)
    <3>1. x = F[i].lit.val
      BY <1>1, <2>2, Zenon
    <3> QED
      BY <3>1 DEF Literals
  <2> QED
    BY <2>1, <2>2, Zenon DEF Literals
<1>2. ASSUME \A i \in I : TimestampLiteral(F[i].lit) = {F[i].lit.val}
      PROVE  UNION {TimestampLiteral(F[i].lit) : i \in I} = Literals(F, I)
  <2>1. ASSUME NEW i \in I PROVE F[i].lit.val \in UNION {TimestampLiteral(F[j].lit) : j \in I}
    <3>1. F[i].lit.val \in TimestampLiteral(F[i].lit)
      BY <1>2, Zenon
    <3> QED
      BY <3>1, Zenon
  <2>2. ASSUME NEW i \in I, NEW x \in TimestampLiteral(F[i].lit) PROVE x \in Literals(F, I)
    <3>1. x = F[i].lit.val
      BY <1>2, <2>2, Zenon
    <3> QED
      BY <3>1 DEF Literals
  <2> QED
    BY <2>1, <2>2, Zenon DEF Literals
<1> QED
  BY <1>1, <1>2

\* The one value of a set of literals of finitely many filters.
LEMMA OneLiteral ==
    ASSUME NEW F, NEW I, IsFiniteSet(I), Cardinality(Literals(F, I)) = 1
    PROVE  I # {} /\ \A i \in I : F[i].lit.val = TheOne(Literals(F, I))
<1> DEFINE L == Literals(F, I)
           g == [i \in I |-> F[i].lit.val]
<1>1. g \in Surjection(I, L)
  BY DEF Surjection, Literals
<1>2. IsFiniteSet(L)
  BY <1>1, FS_Surjection
<1>3. \A i \in I : F[i].lit.val \in L
  BY DEF Literals
<1>4. I = {} => L = {}
  BY DEF Literals
<1> HIDE DEF L
<1>5. L # {}
  BY FS_EmptySet DEF L
<1>6. \A x \in L : TheOne(L) = x
  BY <1>2, OnlyOne DEF L
<1> QED
  BY <1>3, <1>4, <1>5, <1>6 DEF L

\* One bound of a kind is one literal.
LEMMA OneBound ==
    ASSUME NEW F, NEW I, IsFiniteSet(I), Cardinality(I) = 1
    PROVE  I # {} /\ \A i \in I : F[i].lit.val = TheOne(Literals(F, I))
<1>1. PICK x : I = {x}
  BY FS_Singleton
<1>2. Literals(F, I) = {F[x].lit.val}
  BY <1>1 DEF Literals
<1> QED
  BY <1>1, <1>2 DEF TheOne

\* The provider's query says of a row what the filters say of it, as they are
\* written and cut to microseconds (supports_filters_pushdown declares them
\* exact, extract_query).
LEMMA QueryMeansFilters ==
    ASSUME NEW F, IsFiniteSet(DOMAIN F), \A i \in DOMAIN F : Comparison(F[i]),
           NEW q \in Planned(F)
    PROVE  /\ q.range.start \in 0..Horizon /\ q.range.end \in 0..Horizon
           /\ \A r : RowOK(r) =>
                /\ AsWritten(F, r) <=>
                     r.channel_id = q.partition /\ Contains(q.range, r.timestamp)
                /\ CutToMicros(F, r) <=>
                     r.channel_id = q.partition /\ Contains(HotRange(q.range), r.timestamp)
<1> DEFINE C == [i \in DOMAIN F |-> Canonical(F[i])]
           shards == Strings(C, ShardPredicates(C))
           starts == Instants(C, StartBounds(C))
           ends   == Instants(C, EndBounds(C))
<1>1. DOMAIN C = DOMAIN F /\ \A i \in DOMAIN F : C[i] = Canonical(F[i])
  OBVIOUS
<1>2. \A i \in DOMAIN F : /\ C[i].col = F[i].col /\ C[i].lit = F[i].lit
                          /\ C[i].flipped = FALSE
                          /\ C[i].op \in {"=", ">=", "<", "<=", ">", "else"}
  BY <1>1, CanonicalForm
<1>3. q \in ExtractQuery(C)
  BY DEF Planned
<1> HIDE DEF C
<1>4. /\ \A i \in DOMAIN C : PredicateShape(C[i])
      /\ Cardinality(shards) = 1
      /\ Cardinality(StartBounds(C)) = 1 /\ Cardinality(EndBounds(C)) = 1
      /\ q = [partition |-> TheOne(shards), range |-> [start |-> TheOne(starts), end |-> TheOne(ends)]]
  BY <1>3, Zenon DEF ExtractQuery
<1>5. /\ q.partition = TheOne(shards) /\ q.range.start = TheOne(starts)
      /\ q.range.end = TheOne(ends)
  BY <1>4
<1>6. /\ ShardPredicates(C) \in SUBSET DOMAIN F /\ StartBounds(C) \in SUBSET DOMAIN F
      /\ EndBounds(C) \in SUBSET DOMAIN F
      /\ \A i \in DOMAIN F : /\ i \in ShardPredicates(C) <=> C[i].op = "="
                             /\ i \in StartBounds(C) <=> C[i].op = ">="
                             /\ i \in EndBounds(C) <=> C[i].op = "<"
  BY <1>1, <1>2 DEF ShardPredicates, StartBounds, EndBounds
<1>7. /\ IsFiniteSet(ShardPredicates(C)) /\ IsFiniteSet(StartBounds(C))
      /\ IsFiniteSet(EndBounds(C))
  BY <1>6, FS_Subset
<1>a. \A i \in DOMAIN F :
        /\ C[i].op = "=" => StringLiteral(C[i].lit) = {C[i].lit.val}
        /\ C[i].op \in {">=", "<"} => TimestampLiteral(C[i].lit) = {C[i].lit.val}
  BY <1>1, <1>4 DEF PredicateShape, StringLiteral, TimestampLiteral
<1>b. shards = Literals(C, ShardPredicates(C))
  <2>1. \A i \in ShardPredicates(C) : StringLiteral(C[i].lit) = {C[i].lit.val}
    BY <1>6, <1>a
  <2> QED
    BY <2>1, ValuesOnly DEF Strings
<1>c. starts = Literals(C, StartBounds(C)) /\ ends = Literals(C, EndBounds(C))
  <2>1. \A i \in StartBounds(C) \cup EndBounds(C) : TimestampLiteral(C[i].lit) = {C[i].lit.val}
    BY <1>6, <1>a
  <2> QED
    BY <2>1, ValuesOnly DEF Instants
<1> HIDE DEF shards, starts, ends
<1>8. /\ ShardPredicates(C) # {}
      /\ \A i \in ShardPredicates(C) : C[i].lit.val = q.partition
  BY <1>4, <1>5, <1>7, <1>b, OneLiteral
<1>9. /\ StartBounds(C) # {} /\ EndBounds(C) # {}
      /\ \A i \in StartBounds(C) : C[i].lit.val = q.range.start
      /\ \A i \in EndBounds(C) : C[i].lit.val = q.range.end
  BY <1>4, <1>5, <1>7, <1>c, OneBound
<1>10. \A i \in DOMAIN F : \/ C[i].op = "=" /\ C[i].col = "channel_id" /\ C[i].lit.type = "text"
                           \/ /\ C[i].op \in {">=", "<"} /\ C[i].col = "timestamp"
                              /\ C[i].lit.type = "timestamptz"
  BY <1>1, <1>4 DEF PredicateShape, StringLiteral, TimestampLiteral
<1>11. PICK a \in DOMAIN F : C[a].op = ">=" /\ C[a].lit.val = q.range.start
  BY <1>6, <1>9
<1>12. PICK z \in DOMAIN F : C[z].op = "<" /\ C[z].lit.val = q.range.end
  BY <1>6, <1>9
<1>13. PICK p \in DOMAIN F : C[p].op = "=" /\ C[p].lit.val = q.partition
  BY <1>6, <1>8
<1>14. F[a].lit.type = "timestamptz" /\ F[a].lit.val = q.range.start
  BY <1>2, <1>10, <1>11
<1>15. F[z].lit.type = "timestamptz" /\ F[z].lit.val = q.range.end
  BY <1>2, <1>10, <1>12
<1>16. q.range.start \in 0..Horizon /\ q.range.end \in 0..Horizon
  BY <1>14, <1>15 DEF Comparison
<1>17. /\ Micros(q.range.start) \in Int /\ Micros(q.range.end) \in Int
       /\ HotRange(q.range).start = Micros(q.range.start)
       /\ HotRange(q.range).end = Micros(q.range.end)
  <2>1. \A t \in 0..Horizon : Micros(t) \in Int
    BY CalendarAssumption, TickAssumption DEF Micros
  <2> QED
    BY <1>16, <2>1 DEF HotRange
<1>18. ASSUME NEW r, RowOK(r), NEW val, NEW from \in Int, NEW to \in Int,
              \A i \in DOMAIN F : C[i].op = "=" => val[i] = q.partition,
              \A i \in DOMAIN F : C[i].op = ">=" => val[i] = from,
              \A i \in DOMAIN F : C[i].op = "<" => val[i] = to
       PROVE  (\A i \in DOMAIN F : Holds(F[i], val[i], r)) <=>
              (r.channel_id = q.partition /\ from <= r.timestamp /\ r.timestamp < to)
  <2>1. "channel_id" \in DOMAIN r /\ "timestamp" \in DOMAIN r /\ r.timestamp \in Int
    BY <1>18, CalendarAssumption DEF RowOK, Columns, Times
  <2>2. \A i \in DOMAIN F :
          Holds(F[i], val[i], r) <=> CASE C[i].op = "="  -> r.channel_id = q.partition
                                       [] C[i].op = ">=" -> r.timestamp >= from
                                       [] C[i].op = "<"  -> r.timestamp < to
    <3> TAKE i \in DOMAIN F
    <3>1. CASE C[i].op = "="
      <4>1. C[i].col = "channel_id" /\ val[i] = q.partition
        BY <1>10, <1>18, <3>1
      <4>2. Holds(F[i], val[i], r) <=> r.channel_id = q.partition
        BY <1>1, <2>1, <3>1, <4>1 DEF Holds
      <4> QED
        BY <3>1, <4>2
    <3>2. CASE C[i].op = ">="
      <4>1. C[i].col = "timestamp" /\ val[i] = from
        BY <1>10, <1>18, <3>2
      <4>2. Holds(F[i], val[i], r) <=> r.timestamp >= from
        BY <1>1, <2>1, <3>2, <4>1 DEF Holds
      <4> QED
        BY <3>2, <4>2
    <3>3. CASE C[i].op = "<"
      <4>1. C[i].col = "timestamp" /\ val[i] = to
        BY <1>10, <1>18, <3>3
      <4>2. Holds(F[i], val[i], r) <=> r.timestamp < to
        BY <1>1, <2>1, <3>3, <4>1 DEF Holds
      <4> QED
        BY <3>3, <4>2
    <3> QED
      BY <1>10, <3>1, <3>2, <3>3
  <2> HIDE DEF Holds
  <2>3. ASSUME \A i \in DOMAIN F : Holds(F[i], val[i], r)
        PROVE  r.channel_id = q.partition /\ from <= r.timestamp /\ r.timestamp < to
    <3>1. Holds(F[a], val[a], r) /\ Holds(F[z], val[z], r) /\ Holds(F[p], val[p], r)
      BY <2>3
    <3>2. r.channel_id = q.partition
      BY <1>13, <2>2, <3>1
    <3>3. r.timestamp >= from
      BY <1>11, <2>2, <3>1
    <3>4. r.timestamp < to
      BY <1>12, <2>2, <3>1
    <3> QED
      BY <2>1, <3>2, <3>3, <3>4
  <2>4. ASSUME r.channel_id = q.partition, from <= r.timestamp, r.timestamp < to,
               NEW i \in DOMAIN F
        PROVE  Holds(F[i], val[i], r)
    <3>1. r.timestamp >= from
      BY <2>1, <2>4
    <3> QED
      BY <1>10, <2>2, <2>4, <3>1
  <2> QED
    BY <2>3, <2>4
<1>19. ASSUME NEW r, RowOK(r)
       PROVE  AsWritten(F, r) <=> r.channel_id = q.partition /\ Contains(q.range, r.timestamp)
  <2> DEFINE val == [i \in DOMAIN F |-> F[i].lit.val]
  <2>1. /\ \A i \in DOMAIN F : C[i].op = "=" => val[i] = q.partition
        /\ \A i \in DOMAIN F : C[i].op = ">=" => val[i] = q.range.start
        /\ \A i \in DOMAIN F : C[i].op = "<" => val[i] = q.range.end
    BY <1>2, <1>6, <1>8, <1>9
  <2>2. q.range.start \in Int /\ q.range.end \in Int
    BY <1>16
  <2> HIDE DEF val
  <2>3. (\A i \in DOMAIN F : Holds(F[i], val[i], r)) <=>
          (r.channel_id = q.partition /\ q.range.start <= r.timestamp /\ r.timestamp < q.range.end)
    BY <1>18, <1>19, <2>1, <2>2
  <2> QED
    BY <2>3 DEF val, AsWritten, Contains
<1>20. ASSUME NEW r, RowOK(r)
       PROVE  CutToMicros(F, r) <=>
                r.channel_id = q.partition /\ Contains(HotRange(q.range), r.timestamp)
  <2> DEFINE val == [i \in DOMAIN F |-> CutValue(F[i].lit)]
  <2>1. /\ \A i \in DOMAIN F : C[i].op = "=" => val[i] = q.partition
        /\ \A i \in DOMAIN F : C[i].op = ">=" => val[i] = Micros(q.range.start)
        /\ \A i \in DOMAIN F : C[i].op = "<" => val[i] = Micros(q.range.end)
    BY <1>2, <1>6, <1>8, <1>9, <1>10 DEF CutValue
  <2> HIDE DEF val
  <2>3. (\A i \in DOMAIN F : Holds(F[i], val[i], r)) <=>
          (/\ r.channel_id = q.partition /\ Micros(q.range.start) <= r.timestamp
           /\ r.timestamp < Micros(q.range.end))
    BY <1>17, <1>18, <1>20, <2>1
  <2> QED
    BY <1>17, <2>3 DEF val, CutToMicros, Contains
<1> QED
  BY <1>16, <1>19, <1>20

\* A finite set of rows that the table's order arranges in a line.
InLine(A) ==
    /\ IsFiniteSet(A)
    /\ \A r \in A : ~Before(r, r)
    /\ \A r, q, t \in A : Before(r, q) /\ Before(q, t) => Before(r, t)
    /\ \A r, q \in A : r = q \/ Before(r, q) \/ Before(q, r)

\* The rows of one partition are such a set.
LEMMA PartitionInLine ==
    ASSUME NEW R, TableOK(R), NEW A \in SUBSET R, NEW p, \A r \in A : r.channel_id = p
    PROVE  InLine(A)
<1>1. \A r \in A : r.timestamp \in Int /\ r.id \in Int
  BY CalendarAssumption DEF TableOK, RowOK, Times
<1>2. \A r, q \in A : r.timestamp = q.timestamp /\ r.id = q.id => r = q
  BY DEF TableOK, Key
<1>3. IsFiniteSet(A)
  BY FS_Subset DEF TableOK
<1>4. \A r \in A : ~Before(r, r)
  BY <1>1 DEF Before
<1>5. \A r, q, t \in A : Before(r, q) /\ Before(q, t) => Before(r, t)
  BY <1>1 DEF Before
<1>6. \A r, q \in A : r = q \/ Before(r, q) \/ Before(q, r)
  BY <1>1, <1>2 DEF Before
<1> QED
  BY <1>3, <1>4, <1>5, <1>6 DEF InLine

\* A part of it is one too.
LEMMA PartInLine == ASSUME NEW A, InLine(A), NEW B \in SUBSET A PROVE InLine(B)
  BY FS_Subset DEF InLine

\* What holds of such a set when it holds of its proper subsets holds of all of
\* them.
LEMMA LineInduction ==
    ASSUME NEW A, InLine(A), NEW Q,
           \A S \in SUBSET A : (\A T \in SUBSET S : T # S => T \in Q) => S \in Q
    PROVE  A \in Q
<1>0. \A S \in SUBSET A : IsFiniteSet(S) /\ Cardinality(S) \in Nat
  BY FS_Subset, FS_CardinalityType DEF InLine
<1> DEFINE Bad == {Cardinality(S) : S \in {R \in SUBSET A : R \notin Q}}
<1>1. Bad \in SUBSET Nat
  BY <1>0
<1>2. A \notin Q => Cardinality(A) \in Bad
  OBVIOUS
<1> HIDE DEF Bad
<1>3. ASSUME Bad # {} PROVE FALSE
  <2>1. PICK k \in Bad : \A a \in Bad : k <= a
    BY <1>1, <1>3, Least
  <2>2. PICK S \in SUBSET A : S \notin Q /\ k = Cardinality(S)
    BY <2>1 DEF Bad
  <2>3. ASSUME NEW T \in SUBSET S, T # S PROVE T \in Q
    <3>1. /\ Cardinality(T) <= Cardinality(S)
          /\ Cardinality(S) = Cardinality(T) => S = T
      BY <1>0, FS_Subset
    <3>2. T \in SUBSET A /\ Cardinality(T) \in Nat /\ Cardinality(S) \in Nat
      BY <1>0
    <3>3. T \notin Q => Cardinality(T) \in Bad
      BY <3>2 DEF Bad
    <3> QED
      BY <2>1, <2>2, <2>3, <3>1, <3>2, <3>3
  <2> QED
    BY <2>2, <2>3
<1> QED
  BY <1>2, <1>3

LastOf(m, S) == \A r \in S : r = m \/ Before(r, m)

\* It has a last row.
LEMMA LastRow == ASSUME NEW A, InLine(A), A # {} PROVE \E m \in A : LastOf(m, A)
<1> DEFINE Q == {S \in SUBSET A : S # {} => \E m \in S : LastOf(m, S)}
<1>1. ASSUME NEW S \in SUBSET A, \A T \in SUBSET S : T # S => T \in Q
      PROVE  S \in Q
  <2>1. SUFFICES ASSUME S # {} PROVE \E m \in S : LastOf(m, S)
    OBVIOUS
  <2>2. PICK x \in S : TRUE
    BY <2>1
  <2> DEFINE T == S \ {x}
  <2>3. CASE T = {}
    BY <2>3 DEF LastOf
  <2>4. CASE T # {}
    <3>1. PICK m \in T : LastOf(m, T)
      BY <1>1, <2>4
    <3>2. x \in A /\ m \in A /\ S \subseteq A
      OBVIOUS
    <3>3. CASE Before(m, x)
      <4>1. LastOf(x, S)
        BY <3>1, <3>2, <3>3 DEF LastOf, InLine
      <4> QED
        BY <4>1
    <3>4. CASE ~Before(m, x)
      <4>1. Before(x, m)
        BY <3>2, <3>4 DEF InLine
      <4>2. LastOf(m, S)
        BY <3>1, <4>1 DEF LastOf
      <4> QED
        BY <4>2
    <3> QED
      BY <3>3, <3>4
  <2> QED
    BY <2>3, <2>4
<1> HIDE DEF Q
<1>2. A \in Q
  BY <1>1, LineInduction
<1> QED
  BY <1>2 DEF Q

\* The rows of S that come before r.
Under(S, r) == {q \in S : Before(q, r)}

\* The first n rows are n, or all of them.
LEMMA FirstRowsCount ==
    ASSUME NEW A, InLine(A), NEW n \in Nat
    PROVE  /\ FirstRows(A, n) \in SUBSET A
           /\ Cardinality(FirstRows(A, n)) = IF Cardinality(A) < n THEN Cardinality(A) ELSE n
<1> DEFINE Count(S) == IF Cardinality(S) < n THEN Cardinality(S) ELSE n
           Q == {S \in SUBSET A : Cardinality(FirstRows(S, n)) = Count(S)}
<1>0. \A S \in SUBSET A : IsFiniteSet(S) /\ Cardinality(S) \in Nat /\ InLine(S)
  BY FS_Subset, FS_CardinalityType, PartInLine DEF InLine
<1>1. \A S : FirstRows(S, n) = {r \in S : Cardinality(Under(S, r)) < n}
  BY DEF FirstRows, Under
<1>2. ASSUME NEW S \in SUBSET A, \A T \in SUBSET S : T # S => T \in Q
      PROVE  S \in Q
  <2>0. IsFiniteSet(S) /\ Cardinality(S) \in Nat /\ InLine(S)
    BY <1>0
  <2>1. SUFFICES Cardinality(FirstRows(S, n)) = Count(S)
    OBVIOUS
  <2>2. CASE Cardinality(S) <= n
    <3>1. ASSUME NEW r \in S PROVE Cardinality(Under(S, r)) < n
      <4>1. Under(S, r) \in SUBSET S /\ Under(S, r) # S
        BY <2>0 DEF Under, InLine
      <4>2. Cardinality(Under(S, r)) <= Cardinality(S) /\ Cardinality(Under(S, r)) # Cardinality(S)
        BY <2>0, <4>1, FS_Subset
      <4>3. Cardinality(Under(S, r)) \in Nat
        BY <1>0, <4>1
      <4> QED
        BY <2>0, <2>2, <4>2, <4>3
    <3>2. FirstRows(S, n) = S
      BY <1>1, <3>1
    <3> QED
      BY <2>0, <2>2, <3>2
  <2>3. CASE ~(Cardinality(S) <= n)
    <3>1. S # {}
      BY <2>3, FS_EmptySet
    <3>2. PICK m \in S : LastOf(m, S)
      BY <2>0, <3>1, LastRow
    <3> DEFINE T == S \ {m}
    <3>3. Cardinality(T) = Cardinality(S) - 1 /\ T \in SUBSET S /\ T # S
      BY <2>0, FS_RemoveElement
    <3>4. \A r \in T : Under(S, r) = Under(T, r)
      BY <2>0, <3>2 DEF Under, LastOf, InLine
    <3>5. Under(S, m) = T
      BY <2>0, <3>2 DEF Under, LastOf, InLine
    <3>6. ~(Cardinality(Under(S, m)) < n)
      BY <2>0, <2>3, <3>3, <3>5
    <3>7. FirstRows(S, n) = FirstRows(T, n)
      BY <1>1, <3>4, <3>6
    <3>8. Cardinality(FirstRows(T, n)) = Count(T)
      BY <1>2, <3>3
    <3> HIDE DEF T
    <3>9. Count(T) = n /\ Count(S) = n
      BY <2>0, <2>3, <3>3
    <3> QED
      BY <3>7, <3>8, <3>9, Zenon
  <2> QED
    BY <2>2, <2>3
<1> HIDE DEF Q
<1>3. A \in Q
  BY <1>2, LineInduction
<1>4. FirstRows(A, n) \in SUBSET A
  BY <1>1
<1> QED
  BY <1>3, <1>4 DEF Q

\* When n rows come before a row, the first n all do.
LEMMA Filled ==
    ASSUME NEW A, NEW r, InLine(A \cup {r}), NEW n \in Nat,
           NEW S \in SUBSET A, Cardinality(S) >= n, \A q \in S : Before(q, r)
    PROVE  Cardinality(FirstRows(A, n)) = n /\ \A q \in FirstRows(A, n) : Before(q, r)
<1>1. InLine(A)
  BY PartInLine
<1>2. IsFiniteSet(A) /\ \A T \in SUBSET A : IsFiniteSet(T) /\ Cardinality(T) \in Nat
  BY <1>1, FS_Subset, FS_CardinalityType DEF InLine
<1>3. Cardinality(S) <= Cardinality(A) /\ Cardinality(A) \in Nat /\ Cardinality(S) \in Nat
  BY <1>2, FS_Subset
<1>4. Cardinality(FirstRows(A, n)) = n
  BY <1>1, <1>3, FirstRowsCount
<1>5. ASSUME NEW q \in FirstRows(A, n) PROVE Before(q, r)
  <2>1. q \in A /\ Cardinality(Under(A, q)) < n
    BY DEF FirstRows, Under
  <2>2. SUFFICES ASSUME ~Before(q, r) PROVE FALSE
    OBVIOUS
  <2>3. q = r \/ Before(r, q)
    BY <2>1, <2>2 DEF InLine
  <2>4. S \in SUBSET Under(A, q)
    BY <2>1, <2>3 DEF Under, InLine
  <2>5. Under(A, q) \in SUBSET A
    BY DEF Under
  <2>6. /\ IsFiniteSet(Under(A, q)) /\ Cardinality(S) <= Cardinality(Under(A, q))
        /\ Cardinality(Under(A, q)) \in Nat
    BY <1>2, <2>4, <2>5, FS_Subset
  <2> QED
    BY <1>3, <2>1, <2>6
<1> QED
  BY <1>4, <1>5

\* A row that is among some rows, or has n of them before it.
Covered(A, n, r) ==
    \/ r \in A
    \/ \E S \in SUBSET A : Cardinality(S) >= n /\ \A q \in S : Before(q, r)

\* It is among their first n, or those all come before it.
LEMMA FirstCover ==
    ASSUME NEW A, NEW r, InLine(A \cup {r}), NEW n \in Nat, Covered(A, n, r)
    PROVE  \/ r \in FirstRows(A, n)
           \/ Cardinality(FirstRows(A, n)) = n /\ \A q \in FirstRows(A, n) : Before(q, r)
<1>1. CASE r \in A
  <2>1. SUFFICES ASSUME r \notin FirstRows(A, n)
                 PROVE  /\ Cardinality(FirstRows(A, n)) = n
                        /\ \A q \in FirstRows(A, n) : Before(q, r)
    OBVIOUS
  <2>2. ~(Cardinality(Under(A, r)) < n) /\ Under(A, r) \in SUBSET A
        /\ \A q \in Under(A, r) : Before(q, r)
    BY <1>1, <2>1 DEF FirstRows, Under
  <2>3. Cardinality(Under(A, r)) \in Nat
    BY <2>2, FS_Subset, FS_CardinalityType DEF InLine
  <2>4. Cardinality(Under(A, r)) >= n
    BY <2>2, <2>3
  <2> QED
    BY <2>2, <2>4, Filled
<1>2. CASE r \notin A
  <2>1. PICK S \in SUBSET A : Cardinality(S) >= n /\ \A q \in S : Before(q, r)
    BY <1>2 DEF Covered
  <2> QED
    BY <2>1, Filled
<1> QED
  BY <1>1, <1>2

-----------------------------------------------------------------------------
(* What the table, the connections and the scans hold.                     *)

\* The table has one row for a key, and every row whose INSERT was answered.
RowsInv ==
    /\ TableOK(rows)
    /\ \A r \in acked : Stored(r) \in rows
    /\ \A r \in landing : RowOK(r)

\* An INSERT sends a row, and has committed it when it says so; a portal holds
\* what was prepared and bound.
CallInv(s) ==
    /\ call[s] # None =>
         RowOK(call[s].record) /\ (call[s].committed => Stored(call[s].record) \in rows)
    /\ portal[s] # None => portal[s].st \in Prepared /\ portal[s].params \in ParamLists

\* The query of a scan says of a row what its filters say.
PlanOK(c) ==
    /\ c.limit \in Nat
    /\ c.query.range.start \in 0..Horizon /\ c.query.range.end \in 0..Horizon
    /\ \A r : RowOK(r) =>
         /\ AsWritten(c.filters, r) <=>
              r.channel_id = c.query.partition /\ Contains(c.query.range, r.timestamp)
         /\ CutToMicros(c.filters, r) <=>
              r.channel_id = c.query.partition /\ Contains(HotRange(c.query.range), r.timestamp)

Owed(c, r) == r.channel_id = c.query.partition /\ InBoth(c.query.range, r.timestamp)
Allowed(c, r) == r.channel_id = c.query.partition /\ InEither(c.query.range, r.timestamp)

\* A row that a scan owes is in a bucket that is still to be read, or was read,
\* or has enough rows before it.
ScanInv(s) ==
    scan[s] # None =>
      /\ PlanOK(scan[s]) /\ scan[s].before \subseteq rows
      /\ \A r \in got[s] : r \in rows /\ Allowed(scan[s], r)
      /\ \A r \in scan[s].before : Owed(scan[s], r) =>
           BucketOf(r.timestamp) \in todo[s] \/ Covered(got[s], scan[s].limit, r)

DataInv == RowsInv /\ \A s \in Sessions : CallInv(s) /\ ScanInv(s)

\* A connection whose work goes on, while rows are added.
LEMMA OthersGoOn ==
    ASSUME NEW s \in Sessions, CallInv(s), ScanInv(s), rows \subseteq rows',
           call'[s] = call[s] \/ call'[s] = None,
           portal'[s] = portal[s] \/ portal'[s] = None,
           scan'[s] = None \/ (scan'[s] = scan[s] /\ todo'[s] = todo[s] /\ got'[s] = got[s])
    PROVE  CallInv(s)' /\ ScanInv(s)'
<1>1. CallInv(s)'
  BY DEF CallInv
<1>2. ScanInv(s)'
  <2>1. CASE scan'[s] = None
    BY <2>1 DEF ScanInv
  <2>2. CASE scan'[s] # None
    <3>1. scan'[s] = scan[s] /\ todo'[s] = todo[s] /\ got'[s] = got[s] /\ scan[s] # None
      BY <2>2
    <3>2. /\ PlanOK(scan[s]) /\ scan[s].before \subseteq rows
          /\ \A r \in got[s] : r \in rows /\ Allowed(scan[s], r)
          /\ \A r \in scan[s].before : Owed(scan[s], r) =>
               BucketOf(r.timestamp) \in todo[s] \/ Covered(got[s], scan[s].limit, r)
      BY <3>1 DEF ScanInv
    <3> QED
      BY <3>1, <3>2 DEF ScanInv
  <2> QED
    BY <2>1, <2>2
<1> QED
  BY <1>1, <1>2

\* A record that is stored in whole microseconds is a row still.
LEMMA StoredOK == ASSUME NEW r, RowOK(r) PROVE RowOK(Stored(r))
<1>1. r.timestamp \in Nat /\ r.timestamp < Horizon /\ Horizon \in Nat /\ Tick \in Nat /\ Tick > 0
  BY CalendarAssumption, TickAssumption DEF RowOK, Times
<1>2. ASSUME NEW t \in Nat PROVE t % Tick \in 0..t
  BY <1>1
<1>3. Micros(r.timestamp) \in Times
  BY <1>1, <1>2 DEF Micros, Times
<1>4. /\ DOMAIN Stored(r) = Columns /\ Stored(r).timestamp = Micros(r.timestamp)
      /\ Stored(r).id = r.id
  BY DEF Stored, RowOK, Columns
<1> QED
  BY <1>3, <1>4 DEF RowOK

\* The table keeps one row for a key when one that fits is added.
LEMMA AddRow ==
    ASSUME TableOK(rows), NEW r, RowOK(r), Fits(r)
    PROVE  TableOK(rows \cup {Stored(r)})
<1>1. RowOK(Stored(r))
  BY StoredOK
<1>2. IsFiniteSet(rows \cup {Stored(r)})
  BY FS_AddElement DEF TableOK
<1> HIDE DEF RowOK, Stored, Key
<1> QED
  BY <1>1, <1>2 DEF TableOK, Fits

\* A read that is planned owes what its query says, and its buckets are all
\* still to be read (extract_query, query_page).
LEMMA ScanStarts ==
    ASSUME RowsInv, Domains, NEW s \in Sessions, NEW st \in Statements, NEW params \in ParamLists,
           NEW format, RunsWith(st, params), Binds(st, params), st.kind = "read",
           NEW b \in BoundQuery(st, params), StartScan(s, st, params, format, b), UNCHANGED rows
    PROVE  ScanInv(s)'
<1> DEFINE F == BoundFilters(st, params)
           B == {Stored(r) : r \in acked}
           c == [filters |-> F, query |-> b.query, limit |-> b.limit,
                 output |-> st.output, format |-> format, before |-> B]
<1>1. /\ DOMAIN F = DOMAIN st.where /\ IsFiniteSet(DOMAIN st.where)
      /\ \A i \in DOMAIN st.where : Comparison(F[i])
      /\ Value(st.limit, params).val \in Int
  BY PlaceholderAssumption, ValueAssumption DEF BoundFilters
<1>2. /\ b.query \in Planned(F) /\ b.limit = Value(st.limit, params).val
      /\ ~(b.limit < 0)
  BY DEF BoundQuery
<1>3. /\ scan'[s] = c /\ got'[s] = {} /\ todo'[s] = ScanBuckets(b.query, b.limit)
  BY DEF StartScan, Domains
<1>4. /\ c.filters = F /\ c.query = b.query /\ c.limit = b.limit /\ c.before = B
  OBVIOUS
<1>5. b.limit \in Nat
  BY <1>1, <1>2
<1> HIDE DEF F, B, c
<1>6. /\ b.query.range.start \in 0..Horizon /\ b.query.range.end \in 0..Horizon
      /\ \A r : RowOK(r) =>
           /\ AsWritten(F, r) <=>
                r.channel_id = b.query.partition /\ Contains(b.query.range, r.timestamp)
           /\ CutToMicros(F, r) <=>
                r.channel_id = b.query.partition /\ Contains(HotRange(b.query.range), r.timestamp)
  BY <1>1, <1>2, QueryMeansFilters
<1>7. PlanOK(c)
  BY <1>4, <1>5, <1>6 DEF PlanOK
<1>8. B \subseteq rows
  BY DEF B, RowsInv
<1>9. ASSUME NEW r \in B, Owed(c, r)
      PROVE  BucketOf(r.timestamp) \in todo'[s] \/ Covered(got'[s], c.limit, r)
  <2>1. CASE b.limit = 0
    <3>1. Cardinality({}) = 0 /\ {} \in SUBSET got'[s]
      BY <1>3, FS_EmptySet
    <3>2. Cardinality({}) >= c.limit
      BY <1>4, <2>1, <3>1
    <3> QED
      BY <3>1, <3>2 DEF Covered
  <2>2. CASE b.limit # 0
    <3> DEFINE list == BucketsForRange(b.query.range)
    <3>1. r.timestamp \in Times /\ Contains(b.query.range, r.timestamp)
      BY <1>4, <1>8, <1>9 DEF RowsInv, TableOK, RowOK, Owed, InBoth
    <3>2. list \in Seq(Starts) /\ \E i \in 1..Len(list) : list[i] = BucketOf(r.timestamp)
      BY <1>6, <3>1, BucketsForRangeWorks
    <3> HIDE DEF list
    <3>3. BucketOf(r.timestamp) \in {list[i] : i \in DOMAIN list}
      BY <3>2
    <3> QED
      BY <1>3, <2>2, <3>3 DEF ScanBuckets, list
  <2> QED
    BY <2>1, <2>2
<1> QED
  BY <1>3, <1>4, <1>7, <1>8, <1>9 DEF ScanInv

\* A statement that runs (execute_with_parameters).
LEMMA RunData ==
    ASSUME RowsInv, Domains, NEW s \in Sessions, NEW st \in Statements, NEW params \in ParamLists,
           NEW format, RunsWith(st, params), Run(s, st, params, format),
           CallInv(s), ScanInv(s), UNCHANGED <<rows, portal>>
    PROVE  CallInv(s)' /\ ScanInv(s)'
<1>1. st.kind \in {"insert", "read"}
  BY DEF RunsWith, Decodes, ParameterTypes
<1>2. ASSUME NEW x, Answer(s, x) PROVE CallInv(s)' /\ ScanInv(s)'
  BY <1>2, OthersGoOn DEF Answer
<1>3. ASSUME st.kind = "insert", NEW r \in InsertedRecord(st, params), AppendRecord(s, r)
      PROVE  CallInv(s)' /\ ScanInv(s)'
  <2>1. RowOK(r)
    <3>1. r.timestamp \in Times /\ r.id \in Nat
      BY <1>3, ValueAssumption
    <3>2. DOMAIN r = Columns
      BY DEF InsertedRecord
    <3> QED
      BY <3>1, <3>2 DEF RowOK
  <2>2. CASE Answer(s, "error")
    BY <1>2, <2>2
  <2>3. CASE /\ call' = [call EXCEPT ![s] = [record |-> r, committed |-> FALSE]]
             /\ UNCHANGED <<scan, todo, got>>
    <3>1. call'[s].record = r /\ call'[s].committed = FALSE
      BY <2>3 DEF Domains
    <3>2. CallInv(s)'
      BY <2>1, <3>1 DEF CallInv
    <3>3. ScanInv(s)'
      BY <2>3 DEF ScanInv
    <3> QED
      BY <3>2, <3>3
  <2> QED
    BY <1>3, <2>2, <2>3 DEF AppendRecord
<1>4. ASSUME st.kind = "read", Binds(st, params), NEW b \in BoundQuery(st, params),
             StartScan(s, st, params, format, b)
      PROVE  CallInv(s)' /\ ScanInv(s)'
  <2>1. ScanInv(s)'
    BY <1>4, ScanStarts
  <2>2. CallInv(s)'
    BY <1>4 DEF StartScan, CallInv
  <2> QED
    BY <2>1, <2>2
<1>5. CASE st.kind = "insert"
  BY <1>2, <1>3, <1>5 DEF Run
<1>6. CASE st.kind = "read"
  BY <1>2, <1>4, <1>6 DEF Run
<1> QED
  BY <1>1, <1>5, <1>6

\* A bucket that is read gives the rows that the scan owes of it, or enough
\* rows before them, from whichever tier (read_range, read_bucket).
LEMMA BucketRead ==
    ASSUME RowsInv, Domains, NEW s \in Sessions, NEW b, ReadBucket(s, b), ScanInv(s)
    PROVE  ScanInv(s)'
<1> DEFINE c == scan[s]
           B == BucketRows(c.query, b, rows, archived)
           page == BucketPage(c.query, c.limit, b, rows, archived)
<1>1. /\ scan[s] # None /\ UNCHANGED <<scan, rows>>
      /\ todo'[s] = todo[s] \ {b} /\ got'[s] = got[s] \cup page
  BY DEF ReadBucket, Domains, table
<1>2. /\ PlanOK(c) /\ c.before \subseteq rows
      /\ \A r \in got[s] : r \in rows /\ Allowed(c, r)
      /\ \A r \in c.before : Owed(c, r) =>
           BucketOf(r.timestamp) \in todo[s] \/ Covered(got[s], c.limit, r)
  BY <1>1 DEF ScanInv
<1>3. c.limit \in Nat /\ c.limit + 1 \in Nat
  BY <1>2 DEF PlanOK
<1>4. page = FirstRows(B, c.limit + 1)
  BY DEF BucketPage
<1>5. \A r \in B : r \in rows /\ r.channel_id = c.query.partition /\ Allowed(c, r)
  BY DEF BucketRows, InArchive, InHot, Allowed, InEither
<1>6. \A r \in rows : Owed(c, r) /\ BucketOf(r.timestamp) = b => r \in B
  BY DEF BucketRows, InArchive, InHot, Owed, InBoth
<1> HIDE DEF c, B, page
<1>7. InLine(B) /\ page \subseteq B
  <2>1. B \in SUBSET rows /\ TableOK(rows)
    BY <1>5 DEF RowsInv
  <2>2. InLine(B)
    BY <1>5, <2>1, PartitionInLine
  <2> QED
    BY <1>3, <1>4, <2>2, FirstRowsCount
<1>8. \A r \in got'[s] : r \in rows /\ Allowed(c, r)
  BY <1>1, <1>2, <1>5, <1>7
<1>9. ASSUME NEW r \in c.before, Owed(c, r)
      PROVE  BucketOf(r.timestamp) \in todo'[s] \/ Covered(got'[s], c.limit, r)
  <2>1. CASE BucketOf(r.timestamp) \in todo[s] /\ BucketOf(r.timestamp) # b
    BY <1>1, <2>1
  <2>2. CASE Covered(got[s], c.limit, r)
    <3>1. got[s] \subseteq got'[s]
      BY <1>1
    <3> QED
      BY <2>2, <3>1 DEF Covered
  <2>3. CASE BucketOf(r.timestamp) = b
    <3>1. r \in B /\ B \cup {r} = B
      BY <1>2, <1>6, <1>9, <2>3
    <3>2. Covered(B, c.limit + 1, r) /\ InLine(B \cup {r})
      BY <1>7, <3>1 DEF Covered
    <3>3. \/ r \in page
          \/ Cardinality(page) = c.limit + 1 /\ \A q \in page : Before(q, r)
      BY <1>3, <1>4, <3>2, FirstCover
    <3>4. page \subseteq got'[s]
      BY <1>1
    <3>5. CASE r \in page
      BY <3>4, <3>5 DEF Covered
    <3>6. CASE Cardinality(page) = c.limit + 1 /\ \A q \in page : Before(q, r)
      <4>1. Cardinality(page) >= c.limit
        BY <1>3, <3>6
      <4> QED
        BY <3>4, <3>6, <4>1 DEF Covered
    <3> QED
      BY <3>3, <3>5, <3>6
  <2> QED
    BY <1>2, <1>9, <2>1, <2>2, <2>3
<1>10. scan'[s] = c /\ UNCHANGED rows
  BY <1>1 DEF c
<1> QED
  BY <1>2, <1>8, <1>9, <1>10 DEF ScanInv

\* What is left to show of a step of one connection that keeps the rows.
LEMMA OneWorks ==
    ASSUME DataInv, NEW s \in Sessions, rows \subseteq rows', RowsInv',
           \A t \in Sessions : t # s =>
             /\ call'[t] = call[t] /\ portal'[t] = portal[t] /\ scan'[t] = scan[t]
             /\ todo'[t] = todo[t] /\ got'[t] = got[t],
           CallInv(s)', ScanInv(s)'
    PROVE  DataInv'
<1>1. ASSUME NEW t \in Sessions, t # s PROVE CallInv(t)' /\ ScanInv(t)'
  BY <1>1, OthersGoOn DEF DataInv
<1> QED
  BY <1>1 DEF DataInv

\* Every step keeps the table, the calls and the scans.
LEMMA DataStep == ASSUME GatewayInv, DataInv, [Next]_vars PROVE DataInv'
<1>0. TypeOK /\ Domains /\ RowsInv /\ \A s \in Sessions : CallInv(s) /\ ScanInv(s)
  BY DEF GatewayInv, DataInv
<1>1. ASSUME RowsInv', rows \subseteq rows',
             \A s \in Sessions :
               /\ call'[s] = call[s] \/ call'[s] = None
               /\ portal'[s] = portal[s] \/ portal'[s] = None
               /\ \/ scan'[s] = None
                  \/ scan'[s] = scan[s] /\ todo'[s] = todo[s] /\ got'[s] = got[s]
      PROVE  DataInv'
  BY <1>0, <1>1, OthersGoOn DEF DataInv
<1>2. ASSUME UNCHANGED <<rows, acked, landing>> PROVE RowsInv' /\ rows \subseteq rows'
  BY <1>0, <1>2 DEF RowsInv
<1>3. ASSUME NEW s \in Sessions, Disconnect(s) PROVE DataInv'
  <2>1. UNCHANGED <<rows, acked, landing, call, scan, todo, got>>
        /\ portal' = [portal EXCEPT ![s] = None]
    BY <1>3 DEF Disconnect, table
  <2>2. \A t \in Sessions : portal'[t] = portal[t] \/ portal'[t] = None
    BY <1>0, <2>1 DEF Domains
  <2> QED
    BY <1>1, <1>2, <2>1, <2>2
<1>4. ASSUME NEW S \in SUBSET Sessions PROVE \A r \in Unsettled(S) : RowOK(r)
  <2> HIDE DEF RowOK
  <2> QED
    BY <1>0 DEF Unsettled, CallInv
<1>5. ASSUME Crash PROVE DataInv'
  <2>1. /\ UNCHANGED <<rows, acked>> /\ landing' = landing \cup Unsettled(Sessions)
        /\ \A s \in Sessions : call'[s] = None /\ portal'[s] = None /\ scan'[s] = None
    BY <1>5 DEF Crash
  <2>2. RowsInv'
    BY <1>0, <1>4, <2>1 DEF RowsInv
  <2> QED
    BY <1>1, <2>1, <2>2
<1>6. ASSUME NEW s \in Sessions, NEW st \in Simple, SimpleQuery(s, st) PROVE DataInv'
  <2>1. UNCHANGED <<rows, acked, landing, portal>> /\ st \in Statements /\ <<>> \in ParamLists
    BY <1>6 DEF SimpleQuery, Statements, ParamLists, connection, table
  <2>2. CASE ParameterTypes(st) = {<<>>}
    <3>1. RunsWith(st, <<>>) /\ Run(s, st, <<>>, "text")
      BY <1>6, <2>2 DEF SimpleQuery, RunsWith
    <3>2. CallInv(s)' /\ ScanInv(s)'
      BY <1>0, <2>1, <3>1, RunData
    <3>3. \A t \in Sessions : t # s => /\ call'[t] = call[t] /\ scan'[t] = scan[t]
                                      /\ todo'[t] = todo[t] /\ got'[t] = got[t]
      BY <1>0, <3>1, RunShape DEF Domains
    <3> QED
      BY <1>2, <2>1, <3>2, <3>3, OneWorks
  <2>3. CASE ParameterTypes(st) # {<<>>}
    <3>1. UNCHANGED <<call, scan, todo, got>>
      BY <1>6, <2>3 DEF SimpleQuery, Answer
    <3> QED
      BY <1>1, <1>2, <2>1, <3>1
  <2> QED
    BY <2>2, <2>3
<1>7. ASSUME NEW s \in Sessions, Execute(s) PROVE DataInv'
  <2> DEFINE p == portal[s]
  <2>1. UNCHANGED <<rows, acked, landing, portal>> /\ p # None
    BY <1>7 DEF Execute, connection, table
  <2>2. p.st \in Statements /\ p.params \in ParamLists
    BY <1>0, <2>1 DEF CallInv, Statements
  <2>3. CASE Decodes(p.st, p.params)
    <3>1. RunsWith(p.st, p.params) /\ Run(s, p.st, p.params, p.format)
      BY <1>7, <2>3 DEF Execute, RunsWith
    <3>2. CallInv(s)' /\ ScanInv(s)'
      BY <1>0, <2>1, <2>2, <3>1, RunData
    <3>3. \A t \in Sessions : t # s => /\ call'[t] = call[t] /\ scan'[t] = scan[t]
                                      /\ todo'[t] = todo[t] /\ got'[t] = got[t]
      BY <1>0, <3>1, RunShape DEF Domains
    <3> QED
      BY <1>2, <2>1, <3>2, <3>3, OneWorks
  <2>4. CASE ~Decodes(p.st, p.params)
    <3>1. UNCHANGED <<call, scan, todo, got>>
      BY <1>7, <2>4 DEF Execute, Answer
    <3> QED
      BY <1>1, <1>2, <2>1, <3>1
  <2> QED
    BY <2>3, <2>4
<1>8. ASSUME NEW s \in Sessions, NEW b \in Bindings, Bind(s, b) PROVE DataInv'
  <2>1. PICK promise : portal' = [portal EXCEPT ![s] = [st |-> stmt[s], params |-> b.params,
                                                        format |-> b.format, promised |-> promise]]
    BY <1>8 DEF Bind
  <2>2. UNCHANGED <<rows, acked, landing, call, scan, todo, got>>
        /\ stmt[s] \in Prepared /\ b.params \in ParamLists
    BY <1>0, <1>8 DEF Bind, TypeOK, ParamLists, table
  <2>3. portal'[s].st = stmt[s] /\ portal'[s].params = b.params
        /\ \A t \in Sessions : t # s => portal'[t] = portal[t]
    BY <1>0, <2>1 DEF Domains
  <2>4. CallInv(s)'
    BY <1>0, <2>2, <2>3 DEF CallInv
  <2>5. ScanInv(s)'
    BY <1>0, <2>2 DEF ScanInv
  <2> QED
    BY <1>2, <2>2, <2>3, <2>4, <2>5, OneWorks
<1>9. ASSUME NEW s \in Sessions, NEW b \in Starts, ReadBucket(s, b) PROVE DataInv'
  <2>1. /\ UNCHANGED <<rows, acked, landing, call, scan, portal>>
        /\ \A t \in Sessions : t # s => todo'[t] = todo[t] /\ got'[t] = got[t]
    BY <1>0, <1>9 DEF ReadBucket, Domains, table, connection
  <2>2. ScanInv(s)'
    BY <1>0, <1>9, BucketRead
  <2>3. CallInv(s)'
    BY <1>0, <2>1 DEF CallInv
  <2> QED
    BY <1>2, <2>1, <2>2, <2>3, OneWorks
<1>10. ASSUME NEW s \in Sessions, ScanEnds(s) \/ ScanFails(s) PROVE DataInv'
  <2>1. /\ UNCHANGED <<rows, acked, landing, call, portal>>
        /\ scan' = [scan EXCEPT ![s] = None]
        /\ todo' = [todo EXCEPT ![s] = {}] /\ got' = [got EXCEPT ![s] = {}]
    BY <1>10 DEF ScanEnds, ScanFails, EndScan, table, connection
  <2>2. \A t \in Sessions : \/ scan'[t] = None
                            \/ scan'[t] = scan[t] /\ todo'[t] = todo[t] /\ got'[t] = got[t]
    BY <1>0, <2>1 DEF Domains
  <2> QED
    BY <1>1, <1>2, <2>1, <2>2
<1>11. ASSUME NEW s \in Sessions, Commits(s) PROVE DataInv'
  <2> DEFINE r == call[s].record
  <2>1. /\ call[s] # None /\ Fits(r) /\ rows' = rows \cup {Stored(r)}
        /\ call' = [call EXCEPT ![s] = [record |-> r, committed |-> TRUE]]
        /\ UNCHANGED <<portal, scan, todo, got, landing, acked>>
    BY <1>11 DEF Commits, connection
  <2>2. RowOK(r)
    BY <1>0, <2>1 DEF CallInv
  <2> HIDE DEF r
  <2>3. RowsInv'
    <3>1. TableOK(rows')
      BY <1>0, <2>1, <2>2, AddRow DEF RowsInv
    <3> QED
      BY <1>0, <2>1, <3>1 DEF RowsInv
  <2>4. call'[s].record = r /\ Stored(r) \in rows' /\ \A t \in Sessions : t # s => call'[t] = call[t]
    BY <1>0, <2>1 DEF Domains
  <2>5. CallInv(s)'
    BY <1>0, <2>1, <2>2, <2>4 DEF CallInv
  <2>6. ScanInv(s)'
    <3>1. CallInv(s) /\ ScanInv(s) /\ rows \subseteq rows'
      BY <1>0, <2>1
    <3> QED
      BY <2>1, <3>1 DEF ScanInv
  <2> QED
    BY <2>1, <2>3, <2>4, <2>5, <2>6, OneWorks
<1>12. ASSUME NEW s \in Sessions, Acknowledges(s) \/ Refused(s) \/ Fails(s) PROVE DataInv'
  <2>1. /\ UNCHANGED <<rows, portal, scan, todo, got>> /\ call' = [call EXCEPT ![s] = None]
        /\ landing' = landing \/ landing' = landing \cup Unsettled({s})
        /\ acked' = acked \/ (acked' = acked \cup {call[s].record} /\ Stored(call[s].record) \in rows)
    <3>1. /\ UNCHANGED <<rows, portal, scan, todo, got>> /\ call' = [call EXCEPT ![s] = None]
      BY <1>12 DEF Acknowledges, Refused, Fails, EndInsert, connection
    <3>2. landing' = landing \/ landing' = landing \cup Unsettled({s})
      BY <1>12 DEF Acknowledges, Refused, Fails
    <3>3. acked' = acked \/ (/\ acked' = acked \cup {call[s].record}
                             /\ call[s] # None /\ call[s].committed)
      BY <1>12 DEF Acknowledges, Refused, Fails
    <3> QED
      BY <1>0, <3>1, <3>2, <3>3 DEF CallInv
  <2>2. RowsInv'
    <3>1. \A r \in landing' : RowOK(r)
      <4> HIDE DEF RowOK
      <4> QED
        BY <1>0, <1>4, <2>1 DEF RowsInv
    <3>2. \A r \in acked' : Stored(r) \in rows'
      <4> HIDE DEF Stored
      <4> QED
        BY <1>0, <2>1 DEF RowsInv
    <3> QED
      BY <1>0, <2>1, <3>1, <3>2 DEF RowsInv
  <2>3. \A t \in Sessions : call'[t] = call[t] \/ call'[t] = None
    BY <1>0, <2>1 DEF Domains
  <2> QED
    BY <1>1, <2>1, <2>2, <2>3
<1>13. ASSUME NEW r \in landing, Lands(r) PROVE DataInv'
  <2>1. /\ UNCHANGED <<call, portal, scan, todo, got, acked>> /\ landing' = landing \ {r}
        /\ \/ UNCHANGED rows
           \/ Fits(r) /\ rows' = rows \cup {Stored(r)}
    BY <1>13 DEF Lands, work, connection
  <2>2. RowOK(r) /\ rows \subseteq rows'
    BY <1>0, <2>1 DEF RowsInv
  <2>3. TableOK(rows')
    BY <1>0, <2>1, <2>2, AddRow DEF RowsInv
  <2>4. RowsInv'
    BY <1>0, <2>1, <2>2, <2>3 DEF RowsInv
  <2> QED
    BY <1>1, <2>1, <2>2, <2>4
<1>14. CASE UNCHANGED <<rows, acked, landing, call, portal, scan, todo, got>>
  BY <1>1, <1>2, <1>14
<1>15. CASE UNCHANGED vars
  BY <1>14, <1>15 DEF vars, connection, work, table
<1>16. CASE Start \/ \E b \in Starts : Archive(b)
  BY <1>14, <1>16 DEF Start, Archive, connection, work, table
<1>17. ASSUME NEW s \in Sessions,
              \/ Connect(s) \/ RequestTls(s) \/ Startup(s) \/ Authenticate(s) \/ Describe(s)
              \/ \E st \in Prepared : Parse(s, st)
       PROVE  DataInv'
  <2>1. UNCHANGED <<rows, acked, landing, call, portal, scan, todo, got>>
    BY <1>17 DEF Connect, RequestTls, Startup, Authenticate, Describe, Parse, work, table
  <2> QED
    BY <1>14, <2>1
<1>18. CASE Next
  <2>1. \/ Crash
        \/ Start \/ \E b \in Starts : Archive(b)
        \/ \E r \in landing : Lands(r)
        \/ \E s \in Sessions :
             \/ \/ Connect(s) \/ RequestTls(s) \/ Startup(s) \/ Authenticate(s) \/ Describe(s)
                \/ \E st \in Prepared : Parse(s, st)
             \/ Disconnect(s) \/ Execute(s) \/ Commits(s)
             \/ Acknowledges(s) \/ Refused(s) \/ Fails(s)
             \/ ScanEnds(s) \/ ScanFails(s)
             \/ \E st \in Simple : SimpleQuery(s, st)
             \/ \E b \in Bindings : Bind(s, b)
             \/ \E b \in Starts : ReadBucket(s, b)
    BY <1>18, Zenon DEF Next
  <2> QED
    BY <1>3, <1>5, <1>6, <1>7, <1>8, <1>9, <1>10, <1>11, <1>12, <1>13, <1>16, <1>17, <2>1
<1> QED
  BY <1>15, <1>18

-----------------------------------------------------------------------------
(* The theorems.                                                           *)

\* The inductive invariant of the connections holds throughout.
THEOREM GatewayInvariant == Spec => []GatewayInv
<1>1. ASSUME Init PROVE GatewayInv
  <2>1. TypeOK
    <3>1. stage \in [Sessions -> {"closed", "plain", "tls", "login", "ready"}]
      BY <1>1 DEF Init
    <3>2. login \in [Sessions -> Credentials \cup {None}]
      BY <1>1 DEF Init
    <3>3. stmt \in [Sessions -> Prepared \cup {None}]
      BY <1>1 DEF Init
    <3>4. reply \in [Sessions -> {"none", "rows", "inserted", "parameters", "error"}]
      BY <1>1 DEF Init
    <3>5. faults \in 0..MaxFaults
      BY <1>1, GatewayAssumption DEF Init
    <3>6. mode = "down" /\ exposed = FALSE /\ archived = {}
      BY <1>1 DEF Init
    <3> QED
      BY <3>1, <3>2, <3>3, <3>4, <3>5, <3>6 DEF TypeOK
  <2>2. Domains
    BY <1>1 DEF Init, Domains
  <2>3. ASSUME NEW s \in Sessions PROVE StageInv(s) /\ PromiseInv(s)
    BY <1>1 DEF Init, StageInv, PromiseInv
  <2> QED
    BY <1>1, <2>1, <2>2, <2>3 DEF GatewayInv, Init
<1>2. GatewayInv /\ [Next]_vars => GatewayInv'
  BY GatewayStep
<1> QED
  BY <1>1, <1>2, PTL DEF Spec

\* No statement is kept, bound or answered for a peer that was not let in: it
\* passed the login over TLS, or the process listens on the loopback address
\* alone (on_startup, get_password, validate_listen_address).
THEOREM GatewayOnlyAdmitted == Spec => []OnlyAdmitted
<1>1. GatewayInv => OnlyAdmitted
  BY DEF GatewayInv, StageInv, Admitted, OnlyAdmitted
<1> QED
  BY <1>1, GatewayInvariant, PTL

\* Who binds what Describe asked for is refused for its parameters by a read
\* alone, for an instant that Arrow cannot hold or for placeholders that are not
\* in the order of their types (do_describe_statement against do_query).
THEOREM GatewayDescribeHonest == Spec => []DescribeHonest
<1>1. GatewayInv => DescribeHonest
  BY DEF GatewayInv, PromiseInv, Excused, DescribeHonest
<1> QED
  BY <1>1, GatewayInvariant, PTL

\* The inductive invariant of the table and the scans: one row for a key, every
\* answered INSERT in the table, and each scan with what it owes still ahead of
\* it or behind it.
THEOREM GatewayWellFormed == Spec => []DataInv
<1>1. Init => DataInv
  <2>1. ASSUME Init PROVE DataInv
    <3>1. RowsInv
      BY <2>1, FS_EmptySet DEF Init, RowsInv, TableOK
    <3>2. ASSUME NEW s \in Sessions PROVE CallInv(s) /\ ScanInv(s)
      BY <2>1 DEF Init, CallInv, ScanInv
    <3> QED
      BY <3>1, <3>2 DEF DataInv
  <2> QED
    BY <2>1
<1>2. GatewayInv /\ DataInv /\ [Next]_vars => DataInv'
  BY DataStep
<1> QED
  BY <1>1, <1>2, GatewayInvariant, PTL DEF Spec

\* A scan's rows are rows of one partition, in line with any row it owes.
LEMMA GotInLine ==
    ASSUME DataInv, NEW s \in Sessions, scan[s] # None, NEW r \in rows,
           r.channel_id = scan[s].query.partition
    PROVE  InLine(got[s] \cup {r})
<1>1. TableOK(rows) /\ \A q \in got[s] : q \in rows /\ q.channel_id = scan[s].query.partition
  BY DEF DataInv, RowsInv, ScanInv, Allowed
<1>2. got[s] \cup {r} \in SUBSET rows
  BY <1>1
<1> QED
  BY <1>1, <1>2, PartitionInLine

\* A read sees every INSERT that was answered before it, for any statements and
\* parameters, whatever moves between the tiers while its buckets are read
\* (append's commit against extract_query, query_page and both tiers' filters).
THEOREM GatewayReadsSeeInserts == Spec => []ReadsSeeInserts
<1>1. ASSUME DataInv PROVE ReadsSeeInserts
  <2>1. SUFFICES ASSUME NEW s \in Sessions, Finished(s), NEW r \in scan[s].before,
                        AsWritten(scan[s].filters, r), CutToMicros(scan[s].filters, r)
                 PROVE  \/ r \in Result(s)
                        \/ /\ Cardinality(Result(s)) = scan[s].limit
                           /\ \A q \in Result(s) : Before(q, r)
    BY DEF ReadsSeeInserts
  <2>2. scan[s] # None /\ todo[s] = {} /\ RowsInv /\ ScanInv(s)
    BY <1>1, <2>1 DEF Finished, DataInv
  <2>3. PlanOK(scan[s]) /\ r \in rows
    BY <2>1, <2>2 DEF ScanInv
  <2>4. RowOK(r) /\ scan[s].limit \in Nat
    BY <2>2, <2>3 DEF RowsInv, TableOK, PlanOK
  <2>5. Owed(scan[s], r)
    BY <2>1, <2>3, <2>4 DEF PlanOK, Owed, InBoth
  <2>6. Covered(got[s], scan[s].limit, r)
    BY <2>1, <2>2, <2>5 DEF ScanInv
  <2>7. InLine(got[s] \cup {r})
    BY <1>1, <2>2, <2>3, <2>5, GotInLine DEF Owed
  <2> QED
    BY <2>4, <2>6, <2>7, FirstCover DEF Result
<1> QED
  BY <1>1, GatewayWellFormed, PTL

\* A read returns rows of the table, within its LIMIT, of which its WHERE clause
\* holds as written or cut to microseconds, although DataFusion applies no
\* filter again (supports_filters_pushdown, extract_query, query_page).
THEOREM GatewayScansSound == Spec => []ScansSound
<1>1. ASSUME DataInv PROVE ScansSound
  <2>1. SUFFICES ASSUME NEW s \in Sessions, Finished(s)
                 PROVE  /\ Cardinality(Result(s)) <= scan[s].limit
                        /\ \A r \in Result(s) :
                             /\ r \in rows
                             /\ AsWritten(scan[s].filters, r) \/ CutToMicros(scan[s].filters, r)
    BY DEF ScansSound
  <2>2. scan[s] # None /\ RowsInv /\ ScanInv(s)
    BY <1>1, <2>1 DEF Finished, DataInv
  <2>3. /\ PlanOK(scan[s]) /\ \A r \in got[s] : r \in rows /\ Allowed(scan[s], r)
    BY <2>2 DEF ScanInv
  <2>4. InLine(got[s])
    <3>1. got[s] \in SUBSET rows /\ TableOK(rows)
          /\ \A q \in got[s] : q.channel_id = scan[s].query.partition
      BY <2>2, <2>3 DEF RowsInv, Allowed
    <3> QED
      BY <3>1, PartitionInLine
  <2>5. scan[s].limit \in Nat /\ Cardinality(got[s]) \in Nat
    BY <2>3, <2>4, FS_CardinalityType DEF PlanOK, InLine
  <2>6. /\ FirstRows(got[s], scan[s].limit) \in SUBSET got[s]
        /\ Cardinality(FirstRows(got[s], scan[s].limit)) =
             IF Cardinality(got[s]) < scan[s].limit THEN Cardinality(got[s]) ELSE scan[s].limit
    BY <2>4, <2>5, FirstRowsCount
  <2>7. Cardinality(Result(s)) <= scan[s].limit /\ Result(s) \subseteq got[s]
    BY <2>5, <2>6 DEF Result
  <2>8. ASSUME NEW r \in got[s]
        PROVE  AsWritten(scan[s].filters, r) \/ CutToMicros(scan[s].filters, r)
    <3>1. RowOK(r) /\ Allowed(scan[s], r)
      BY <2>2, <2>3 DEF RowsInv, TableOK
    <3> QED
      BY <2>3, <3>1 DEF PlanOK, Allowed, InEither
  <2> QED
    BY <2>3, <2>7, <2>8
<1> QED
  BY <1>1, GatewayWellFormed, PTL
=============================================================================
