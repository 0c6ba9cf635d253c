------------------------ MODULE InMemoryStoresProofs ------------------------
(***************************************************************************)
(* Proofs about InMemoryStores, for any records, tokens and copies.        *)
(***************************************************************************)
EXTENDS InMemoryStores, FiniteSetTheorems, TLAPS

\* The entry satisfies what CockroachDB's CHECK constraint asks of a row.
EntryShape ==
    /\ entry.state = "hot" =>
         /\ entry.owner = None /\ entry.lease = "none"
         /\ entry.objectKey = None /\ ~entry.hotDeleted
    /\ entry.state = "archiving" =>
         /\ entry.owner # None /\ entry.lease # "none"
         /\ entry.objectKey = None /\ ~entry.hotDeleted
    /\ entry.state = "archived" =>
         /\ entry.owner # None /\ entry.lease # "none"
         /\ entry.objectKey # None
    /\ ~entry.present =>
         entry.state = "hot" /\ entry.generation = 0 /\ entry.records = NoRecords

\* Each claim has a generation of its own, and the owner has the latest.
SessionsApart ==
    /\ entry.generation = Cardinality({w \in Tokens : minted[w] # 0})
    /\ \A w \in Tokens : minted[w] <= entry.generation
    /\ \A v, w \in Tokens : minted[v] = minted[w] /\ minted[w] # 0 => v = w
    /\ entry.owner # None => minted[entry.owner] = entry.generation
    /\ \A w \in Tokens : snaps[w] # None => minted[w] # 0
    /\ \A g \in Generations : objects[g] # None => g <= entry.generation

\* Whatever a session can still publish, or upload under the published key,
\* is all that was appended.
ContentTrue ==
    /\ entry.state # "archived" => entry.records = acked
    /\ entry.state = "archiving" =>
         /\ \A w \in Tokens : minted[w] = entry.generation => snaps[w] \in {None, acked}
         /\ \A g \in Generations : g = entry.generation => objects[g] \in {None, acked}
    /\ entry.state = "archived" =>
         /\ objects[entry.objectKey] = acked
         /\ \A w \in Tokens : minted[w] = entry.objectKey => snaps[w] = acked

InMemoryInv == TypeOK /\ EntryShape /\ SessionsApart /\ ContentTrue

-----------------------------------------------------------------------------
\* The number of tokens is a number.
LEMMA TokensCount == Cardinality(Tokens) \in Nat
  BY InMemoryAssumption, FS_CardinalityType

\* NULL is no token, number, content or object key.
LEMMA NoneApart ==
    /\ None \notin Tokens /\ None \notin Nat /\ None \notin Copies
    /\ None \notin [generation : Nat, records : SUBSET Records]
  BY InMemoryAssumption DEF Copies

LEMMA GenerationNumbers == Generations \subseteq Nat /\ 0 \notin Generations /\ 0 \in Nat
  BY TokensCount DEF Generations

\* What the types say of the generations in the state.
LEMMA Numbers ==
    ASSUME TypeOK
    PROVE  /\ entry.generation \in Nat
           /\ \A w \in Tokens : minted[w] \in Nat /\ (minted[w] # 0 => minted[w] \in Generations)
           /\ entry.objectKey # None => entry.objectKey \in Generations
<1>1. entry.generation \in Generations \cup {0} /\ entry.objectKey \in Generations \cup {None}
  BY DEF TypeOK
<1>2. \A w \in Tokens : minted[w] \in Generations \cup {0}
  BY DEF TypeOK
<1> QED
  BY <1>1, <1>2, GenerationNumbers, Zenon

\* A claim with a fresh token has a generation to give.
LEMMA MintCounts ==
    ASSUME TypeOK, SessionsApart, NEW w \in Tokens, NEW s, Mint(w, s)
    PROVE  /\ entry.generation + 1 \in Generations
           /\ entry.generation + 1 = Cardinality({v \in Tokens : minted'[v] # 0})
<1> DEFINE M == {v \in Tokens : minted[v] # 0}
           N == {v \in Tokens : minted'[v] # 0}
<1>1. N = M \cup {w} /\ w \notin M /\ N \subseteq Tokens /\ M \subseteq Tokens
  BY TokensCount DEF Mint, TypeOK, Generations
<1>2. IsFiniteSet(M)
  BY <1>1, FS_Subset, InMemoryAssumption
<1>3. Cardinality(N) = Cardinality(M) + 1 /\ IsFiniteSet(N)
  BY <1>1, <1>2, FS_AddElement
<1>4. Cardinality(N) <= Cardinality(Tokens) /\ Cardinality(M) \in Nat
  BY <1>1, <1>2, FS_Subset, FS_CardinalityType, InMemoryAssumption
<1> HIDE DEF M, N
<1>5. entry.generation = Cardinality(M)
  BY DEF SessionsApart, M
<1>6. entry.generation + 1 \in Generations
  BY <1>3, <1>4, <1>5, TokensCount DEF Generations
<1> QED
  BY <1>3, <1>5, <1>6 DEF N

\* A claim from a state in which it is allowed.
LEMMA MintStep ==
    ASSUME InMemoryInv, NEW w \in Tokens, NEW s, Mint(w, s),
           \/ s = "archiving" /\ entry.state \in {"hot", "archiving"}
           \/ s = "archived" /\ entry.state = "archived"
    PROVE  InMemoryInv'
<1>0. /\ TypeOK /\ EntryShape /\ SessionsApart /\ ContentTrue
  BY DEF InMemoryInv
<1>1. /\ entry.generation + 1 \in Generations
      /\ entry.generation + 1 = Cardinality({v \in Tokens : minted'[v] # 0})
  BY <1>0, MintCounts
<1>2. /\ Generations \subseteq Nat /\ 0 \notin Generations
  BY GenerationNumbers
<1>3. /\ entry' = [entry EXCEPT !.present = TRUE, !.state = s,
                              !.generation = entry.generation + 1, !.owner = w,
                              !.lease = "live", !.backoff = FALSE]
      /\ minted' = [minted EXCEPT ![w] = entry.generation + 1] /\ minted[w] = 0
      /\ objects' = objects /\ snaps' = snaps /\ acked' = acked
  BY DEF Mint
<1>4. entry.generation \in Nat /\ \A v \in Tokens : minted[v] \in Nat
  BY <1>0, Numbers
<1>5. /\ entry'.state = s /\ entry'.generation = entry.generation + 1 /\ entry'.owner = w
      /\ entry'.lease = "live" /\ entry'.objectKey = entry.objectKey
      /\ entry'.hotDeleted = entry.hotDeleted /\ entry'.records = entry.records
      /\ entry'.present = TRUE
  BY <1>0, <1>3 DEF TypeOK
<1>6. minted'[w] = entry.generation + 1 /\ \A v \in Tokens : v # w => minted'[v] = minted[v]
  BY <1>0, <1>3 DEF TypeOK
<1>7. TypeOK'
  BY <1>0, <1>1, <1>3 DEF TypeOK
<1>8. EntryShape'
  <2>1. w # None
    BY NoneApart
  <2>2. CASE s = "archiving" /\ entry.state \in {"hot", "archiving"}
    BY <1>0, <1>5, <2>1, <2>2 DEF EntryShape
  <2>3. CASE s = "archived" /\ entry.state = "archived"
    BY <1>0, <1>5, <2>1, <2>3 DEF EntryShape
  <2> QED
    BY <2>2, <2>3
<1>9. SessionsApart'
  <2>1. \A v \in Tokens : v # w => minted'[v] <= entry.generation
    BY <1>0, <1>6 DEF SessionsApart
  <2>2. \A v \in Tokens : minted'[v] <= entry'.generation
    BY <1>4, <1>5, <1>6, <2>1
  <2>3. \A u, v \in Tokens : minted'[u] = minted'[v] /\ minted'[v] # 0 => u = v
    BY <1>0, <1>4, <1>6, <2>1 DEF SessionsApart
  <2>4. \A v \in Tokens : snaps'[v] # None => minted'[v] # 0
    BY <1>0, <1>3, <1>4, <1>6 DEF SessionsApart
  <2>5. \A g \in Generations : objects'[g] # None => g <= entry'.generation
    <3>1. \A g \in Generations : g <= entry.generation => g <= entry.generation + 1
      BY <1>2, <1>4
    <3> QED
      BY <1>0, <1>3, <1>5, <3>1, Zenon DEF SessionsApart
  <2> QED
    BY <1>1, <1>5, <1>6, <2>2, <2>3, <2>4, <2>5 DEF SessionsApart
<1>10. CASE s = "archiving"
  <2>1. \A v \in Tokens : minted'[v] = entry'.generation => v = w
    BY <1>0, <1>4, <1>5, <1>6 DEF SessionsApart
  <2>2. snaps'[w] = None
    BY <1>0, <1>3 DEF SessionsApart
  <2>3. \A g \in Generations : g = entry'.generation => objects'[g] = None
    <3>1. ~(entry.generation + 1 <= entry.generation)
      BY <1>4
    <3>2. \A g \in Generations : objects[g] # None => g <= entry.generation
      BY <1>0 DEF SessionsApart
    <3> QED
      BY <1>3, <1>5, <3>1, <3>2, Zenon
  <2>4. entry'.records = acked'
    BY <1>0, <1>3, <1>5, <1>10 DEF ContentTrue
  <2>5. entry'.state = "archiving" /\ "archiving" # "archived"
    BY <1>5, <1>10
  <2>6. \A v \in Tokens : minted'[v] = entry'.generation => snaps'[v] \in {None, acked'}
    BY <2>1, <2>2, Zenon
  <2>7. \A g \in Generations : g = entry'.generation => objects'[g] \in {None, acked'}
    BY <2>3, Zenon
  <2>8. ~(entry'.state = "archived")
    BY <2>5
  <2>9. ContentTrue'
    BY <2>4, <2>6, <2>7, <2>8, Zenon DEF ContentTrue
  <2> QED
    BY <1>7, <1>8, <1>9, <2>9 DEF InMemoryInv
<1>11. CASE s = "archived"
  <2>1. entry.objectKey \in Generations /\ objects[entry.objectKey] = acked
        /\ entry.state = "archived"
    BY <1>0, <1>11, Numbers DEF ContentTrue, EntryShape
  <2>2. objects[entry.objectKey] # None
    BY <1>0, <2>1, NoneApart DEF TypeOK
  <2>3. entry.objectKey <= entry.generation
    BY <1>0, <2>1, <2>2 DEF SessionsApart
  <2>4. \A v \in Tokens : minted'[v] = entry'.objectKey => v # w
    BY <1>2, <1>4, <1>5, <1>6, <2>1, <2>3
  <2>5. entry'.state = "archived" /\ "archiving" # "archived"
    BY <1>5, <1>11
  <2>6. ~(entry'.state = "archiving")
    BY <2>5
  <2>7. \A v \in Tokens : minted'[v] = entry'.objectKey => snaps'[v] = acked'
    <3>1. \A v \in Tokens : minted[v] = entry.objectKey => snaps[v] = acked
      BY <1>0, <2>1, Zenon DEF ContentTrue
    <3> QED
      BY <1>3, <1>5, <1>6, <2>4, <3>1, Zenon
  <2>8. objects'[entry'.objectKey] = acked'
    BY <1>3, <1>5, <2>1, Zenon
  <2>9. ContentTrue'
    BY <2>5, <2>6, <2>7, <2>8, Zenon DEF ContentTrue
  <2> QED
    BY <1>7, <1>8, <1>9, <2>9 DEF InMemoryInv
<1> QED
  BY <1>10, <1>11

\* A step that leaves sessions, snapshots and objects alone and may at most
\* take the owner away.
LEMMA SessionsKept ==
    ASSUME SessionsApart, UNCHANGED <<minted, snaps, objects>>,
           entry'.generation = entry.generation, entry'.owner \in {entry.owner, None}
    PROVE  SessionsApart'
  BY DEF SessionsApart

\* A holder of a live session has the latest generation.
LEMMA HolderIsLatest ==
    ASSUME InMemoryInv, NEW w \in Tokens, validate_active_session(w)
    PROVE  /\ entry.generation = minted[w] /\ entry.owner = w /\ entry.lease = "live"
           /\ minted[w] \in Generations
           /\ \A v \in Tokens : minted[v] = minted[w] => v = w
<1>1. TypeOK /\ SessionsApart
  BY DEF InMemoryInv
<1>2. minted[w] # 0 /\ entry.generation = minted[w] /\ entry.owner = w /\ entry.lease = "live"
  BY DEF validate_active_session, lease_expired
<1>3. minted[w] \in Generations
  BY <1>1, <1>2, Numbers
<1>4. \A v \in Tokens : minted[v] = minted[w] => v = w
  BY <1>1, <1>2, Zenon DEF SessionsApart
<1> QED
  BY <1>2, <1>3, <1>4

\* An append.
LEMMA AppendStep ==
    ASSUME InMemoryInv, NEW r \in Records, append(r)
    PROVE  InMemoryInv'
<1>0. /\ TypeOK /\ EntryShape /\ SessionsApart /\ ContentTrue
  BY DEF InMemoryInv
<1>1. /\ entry' = [entry EXCEPT !.present = TRUE,
                                !.records = [entry.records EXCEPT ![r] = entry.records[r] + 1]]
      /\ acked' = [acked EXCEPT ![r] = acked[r] + 1]
      /\ UNCHANGED <<objects, minted, snaps>>
      /\ entry.state = "hot" /\ acked[r] < MaxCopies
  BY <1>0 DEF append, TypeOK
<1>2. entry.records = acked
  BY <1>0, <1>1 DEF ContentTrue
<1>3. acked[r] \in Nat /\ acked[r] + 1 \in 0..MaxCopies
  BY <1>0, <1>1, InMemoryAssumption DEF TypeOK, Copies
<1>4. acked' \in Copies
  BY <1>0, <1>1, <1>3 DEF TypeOK, Copies
<1>5. entry' = [entry EXCEPT !.present = TRUE, !.records = acked']
  BY <1>1, <1>2
<1>6. /\ entry'.state = "hot" /\ entry'.generation = entry.generation
      /\ entry'.owner = entry.owner /\ entry'.lease = entry.lease
      /\ entry'.objectKey = entry.objectKey /\ entry'.hotDeleted = entry.hotDeleted
      /\ entry'.records = acked' /\ entry'.present = TRUE
  BY <1>0, <1>1, <1>5 DEF TypeOK
<1>7. TypeOK'
  BY <1>0, <1>1, <1>4, <1>5 DEF TypeOK
<1>8. EntryShape'
  BY <1>0, <1>1, <1>6 DEF EntryShape
<1>9. SessionsApart'
  BY <1>0, <1>1, <1>6, SessionsKept
<1>10. ContentTrue'
  BY <1>6 DEF ContentTrue
<1> QED
  BY <1>7, <1>8, <1>9, <1>10 DEF InMemoryInv

\* The lease or the backoff changes and nothing else.
LEMMA LeaseStep ==
    ASSUME InMemoryInv, NEW l \in {"live", "lapsed"}, NEW b \in BOOLEAN,
           entry.lease # "none", Change([entry EXCEPT !.lease = l, !.backoff = b])
    PROVE  InMemoryInv'
<1>0. /\ TypeOK /\ EntryShape /\ SessionsApart /\ ContentTrue
  BY DEF InMemoryInv
<1>1. entry' = [entry EXCEPT !.lease = l, !.backoff = b]
      /\ UNCHANGED <<objects, minted, snaps, acked>>
  BY DEF Change
<1>2. /\ entry'.state = entry.state /\ entry'.generation = entry.generation
      /\ entry'.owner = entry.owner /\ entry'.lease = l
      /\ entry'.objectKey = entry.objectKey /\ entry'.hotDeleted = entry.hotDeleted
      /\ entry'.records = entry.records /\ entry'.present = entry.present
  BY <1>0, <1>1 DEF TypeOK
<1>3. TypeOK'
  BY <1>0, <1>1 DEF TypeOK
<1>4. EntryShape'
  BY <1>0, <1>2 DEF EntryShape, NoRecords
<1>5. SessionsApart'
  BY <1>0, <1>1, <1>2, SessionsKept
<1>6. ContentTrue'
  BY <1>0, <1>1, <1>2, Zenon DEF ContentTrue
<1> QED
  BY <1>3, <1>4, <1>5, <1>6 DEF InMemoryInv

\* The backoff passes.
LEMMA BackoffStep ==
    ASSUME InMemoryInv, Change([entry EXCEPT !.backoff = FALSE])
    PROVE  InMemoryInv'
<1>0. /\ TypeOK /\ EntryShape /\ SessionsApart /\ ContentTrue
  BY DEF InMemoryInv
<1>1. entry' = [entry EXCEPT !.backoff = FALSE]
      /\ UNCHANGED <<objects, minted, snaps, acked>>
  BY DEF Change
<1>2. /\ entry'.state = entry.state /\ entry'.generation = entry.generation
      /\ entry'.owner = entry.owner /\ entry'.lease = entry.lease
      /\ entry'.objectKey = entry.objectKey /\ entry'.hotDeleted = entry.hotDeleted
      /\ entry'.records = entry.records /\ entry'.present = entry.present
  BY <1>0, <1>1 DEF TypeOK
<1>3. TypeOK'
  BY <1>0, <1>1 DEF TypeOK
<1>4. EntryShape'
  BY <1>0, <1>2 DEF EntryShape, NoRecords
<1>5. SessionsApart'
  BY <1>0, <1>1, <1>2, SessionsKept
<1>6. ContentTrue'
  BY <1>0, <1>1, <1>2, Zenon DEF ContentTrue
<1> QED
  BY <1>3, <1>4, <1>5, <1>6 DEF InMemoryInv

\* The session gives up and the bucket is open again.
LEMMA ReopenStep ==
    ASSUME InMemoryInv, NEW b \in BOOLEAN, entry.state = "archiving",
           Change([entry EXCEPT !.state = "hot", !.owner = None, !.lease = "none", !.backoff = b])
    PROVE  InMemoryInv'
<1>0. /\ TypeOK /\ EntryShape /\ SessionsApart /\ ContentTrue
  BY DEF InMemoryInv
<1>1. entry' = [entry EXCEPT !.state = "hot", !.owner = None, !.lease = "none", !.backoff = b]
      /\ UNCHANGED <<objects, minted, snaps, acked>>
  BY DEF Change
<1>2. /\ entry'.state = "hot" /\ entry'.generation = entry.generation
      /\ entry'.owner = None /\ entry'.lease = "none"
      /\ entry'.objectKey = entry.objectKey /\ entry'.hotDeleted = entry.hotDeleted
      /\ entry'.records = entry.records /\ entry'.present = entry.present
  BY <1>0, <1>1 DEF TypeOK
<1>3. TypeOK'
  BY <1>0, <1>1 DEF TypeOK
<1>4. EntryShape'
  BY <1>0, <1>2 DEF EntryShape
<1>5. SessionsApart'
  BY <1>0, <1>1, <1>2, SessionsKept
<1>6. ContentTrue'
  BY <1>0, <1>1, <1>2 DEF ContentTrue
<1> QED
  BY <1>3, <1>4, <1>5, <1>6 DEF InMemoryInv

\* A session publishes what it uploaded: all that was appended.
LEMMA PublishStep ==
    ASSUME InMemoryInv, NEW w \in Tokens, publish_archive(w)
    PROVE  InMemoryInv' /\ snaps[w] = acked /\ objects[minted[w]] = acked
<1>0. /\ TypeOK /\ EntryShape /\ SessionsApart /\ ContentTrue
  BY DEF InMemoryInv
<1>1. /\ entry.generation = minted[w] /\ entry.owner = w /\ entry.lease = "live"
      /\ minted[w] \in Generations
      /\ \A v \in Tokens : minted[v] = minted[w] => v = w
  BY HolderIsLatest DEF publish_archive, OwnsArchiving
<1>2. entry.state = "archiving" /\ snaps[w] # None /\ objects[minted[w]] # None
  BY DEF publish_archive, OwnsArchiving, ObjectKey
<1>3. entry' = [entry EXCEPT !.state = "archived", !.hotDeleted = FALSE, !.objectKey = minted[w]]
      /\ UNCHANGED <<objects, minted, snaps, acked>>
  BY DEF publish_archive, Change, ObjectKey
<1>4. snaps[w] = acked /\ objects[minted[w]] = acked
  BY <1>0, <1>1, <1>2 DEF ContentTrue
<1>5. /\ entry'.state = "archived" /\ entry'.generation = entry.generation
      /\ entry'.owner = entry.owner /\ entry'.lease = entry.lease
      /\ entry'.objectKey = minted[w] /\ entry'.hotDeleted = FALSE
      /\ entry'.records = entry.records /\ entry'.present = entry.present
  BY <1>0, <1>3 DEF TypeOK
<1>6. TypeOK'
  BY <1>0, <1>1, <1>3 DEF TypeOK
<1>7. minted[w] # None /\ w # None
  BY <1>1, NoneApart, GenerationNumbers
<1>8. EntryShape'
  BY <1>0, <1>1, <1>2, <1>5, <1>7 DEF EntryShape
<1>9. SessionsApart'
  BY <1>0, <1>3, <1>5, SessionsKept
<1>10. ContentTrue'
  <2>1. ~(entry'.state = "archiving")
    BY <1>5
  <2>2. \A v \in Tokens : minted'[v] = entry'.objectKey => snaps'[v] = acked'
    BY <1>1, <1>3, <1>4, <1>5, Zenon
  <2>3. objects'[entry'.objectKey] = acked'
    BY <1>3, <1>4, <1>5, Zenon
  <2> QED
    BY <1>5, <2>1, <2>2, <2>3, Zenon DEF ContentTrue
<1> QED
  BY <1>4, <1>6, <1>8, <1>9, <1>10 DEF InMemoryInv

\* The hot copy is deleted.
LEMMA DeleteStep ==
    ASSUME InMemoryInv, NEW w \in Tokens, delete_hot_bucket(w)
    PROVE  InMemoryInv'
<1>0. /\ TypeOK /\ EntryShape /\ SessionsApart /\ ContentTrue
  BY DEF InMemoryInv
<1>1. entry' = [entry EXCEPT !.hotDeleted = TRUE, !.records = NoRecords]
      /\ UNCHANGED <<objects, minted, snaps, acked>> /\ entry.state = "archived"
  BY DEF delete_hot_bucket, Change, OwnsCleanup
<1>2. NoRecords \in Copies
  BY InMemoryAssumption DEF NoRecords, Copies
<1>3. /\ entry'.state = "archived" /\ entry'.generation = entry.generation
      /\ entry'.owner = entry.owner /\ entry'.lease = entry.lease
      /\ entry'.objectKey = entry.objectKey /\ entry'.present = entry.present
  BY <1>0, <1>1 DEF TypeOK
<1>4. TypeOK'
  BY <1>0, <1>1, <1>2 DEF TypeOK
<1>5. EntryShape'
  BY <1>0, <1>1, <1>3 DEF EntryShape
<1>6. SessionsApart'
  BY <1>0, <1>1, <1>3, SessionsKept
<1>7. ContentTrue'
  BY <1>0, <1>1, <1>3 DEF ContentTrue
<1> QED
  BY <1>4, <1>5, <1>6, <1>7 DEF InMemoryInv

\* A session takes its snapshot.
LEMMA SnapshotStep ==
    ASSUME InMemoryInv, NEW w \in Tokens, snapshot(w)
    PROVE  InMemoryInv'
<1>0. /\ TypeOK /\ EntryShape /\ SessionsApart /\ ContentTrue
  BY DEF InMemoryInv
<1>1. /\ minted[w] \in Generations /\ entry.state = "archiving"
      /\ snaps' = [snaps EXCEPT ![w] = entry.records]
      /\ UNCHANGED <<entry, objects, minted, acked>>
  BY HolderIsLatest DEF snapshot, OwnsArchiving
<1>2. entry.records = acked
  BY <1>0, <1>1 DEF ContentTrue
<1>3. snaps'[w] = acked /\ \A v \in Tokens : v # w => snaps'[v] = snaps[v]
  BY <1>0, <1>1, <1>2 DEF TypeOK
<1>4. TypeOK'
  BY <1>0, <1>1 DEF TypeOK
<1>5. EntryShape'
  BY <1>0, <1>1 DEF EntryShape
<1>6. minted[w] # 0
  BY <1>1, GenerationNumbers
<1>7. \A v \in Tokens : snaps'[v] # None => minted'[v] # 0
  BY <1>0, <1>1, <1>3, <1>6, Zenon DEF SessionsApart
<1>8. SessionsApart'
  BY <1>0, <1>1, <1>7, Zenon DEF SessionsApart
<1>9. ContentTrue'
  <2>1. \A v \in Tokens : minted'[v] = entry'.generation => snaps'[v] \in {None, acked'}
    BY <1>0, <1>1, <1>3, Zenon DEF ContentTrue
  <2>2. ~(entry'.state = "archived") /\ entry'.records = acked'
    BY <1>1, <1>2
  <2>3. \A g \in Generations : g = entry'.generation => objects'[g] \in {None, acked'}
    BY <1>0, <1>1, Zenon DEF ContentTrue
  <2> QED
    BY <2>1, <2>2, <2>3, Zenon DEF ContentTrue
<1> QED
  BY <1>4, <1>5, <1>8, <1>9 DEF InMemoryInv

\* A holder of any session, old or new, uploads; a published object stays what
\* it was.
LEMMA PutStep ==
    ASSUME InMemoryInv, NEW w \in Tokens, put_bucket_generation(w)
    PROVE  InMemoryInv' /\ (entry.objectKey # None =>
                               objects'[entry.objectKey] = objects[entry.objectKey])
<1>0. /\ TypeOK /\ EntryShape /\ SessionsApart /\ ContentTrue
  BY DEF InMemoryInv
<1>1. /\ snaps[w] # None /\ objects' = [objects EXCEPT ![minted[w]] = snaps[w]]
      /\ UNCHANGED <<entry, minted, snaps, acked>>
  BY DEF put_bucket_generation, ObjectKey
<1>2. minted[w] # 0 /\ minted[w] \in Generations
  BY <1>0, <1>1, Numbers DEF SessionsApart
<1>3. snaps[w] \in Copies
  BY <1>0, <1>1 DEF TypeOK
<1>4. objects'[minted[w]] = snaps[w]
      /\ \A g \in Generations : g # minted[w] => objects'[g] = objects[g]
  BY <1>0, <1>1, <1>2 DEF TypeOK
<1>5. TypeOK'
  BY <1>0, <1>1, <1>3 DEF TypeOK
<1>6. EntryShape'
  BY <1>0, <1>1 DEF EntryShape
<1>7. minted[w] <= entry.generation
  BY <1>0 DEF SessionsApart
<1>8. \A g \in Generations : objects'[g] # None => g <= entry'.generation
  BY <1>0, <1>1, <1>4, <1>7, Zenon DEF SessionsApart
<1>9. SessionsApart'
  BY <1>0, <1>1, <1>8, Zenon DEF SessionsApart
<1>10. entry.objectKey # None =>
         entry.objectKey \in Generations /\ entry.state = "archived"
  BY <1>0, Numbers DEF EntryShape, TypeOK
<1>11. entry.objectKey # None => objects'[entry.objectKey] = objects[entry.objectKey]
  BY <1>0, <1>4, <1>10, Zenon DEF ContentTrue
<1>12. ContentTrue'
  <2>1. CASE entry.state = "archiving"
    <3>1. \A g \in Generations : g = entry'.generation => objects'[g] \in {None, acked'}
      BY <1>0, <1>1, <1>4, <2>1, Zenon DEF ContentTrue
    <3>2. ~(entry'.state = "archived")
      BY <1>1, <2>1
    <3> QED
      BY <1>0, <1>1, <2>1, <3>1, <3>2 DEF ContentTrue
  <2>2. CASE entry.state = "archived"
    <3>1. objects'[entry'.objectKey] = acked'
      BY <1>0, <1>1, <1>11, <2>2 DEF ContentTrue, EntryShape
    <3>2. ~(entry'.state = "archiving")
      BY <1>1, <2>2
    <3> QED
      BY <1>0, <1>1, <2>2, <3>1, <3>2, Zenon DEF ContentTrue
  <2>3. CASE entry.state = "hot"
    BY <1>0, <1>1, <2>3 DEF ContentTrue
  <2> QED
    BY <1>0, <2>1, <2>2, <2>3 DEF TypeOK
<1> QED
  BY <1>5, <1>6, <1>9, <1>11, <1>12 DEF InMemoryInv

-----------------------------------------------------------------------------
\* Every step keeps the invariant.
LEMMA InMemoryStep == InMemoryInv /\ [Next]_vars => InMemoryInv'
<1> SUFFICES ASSUME InMemoryInv, [Next]_vars PROVE InMemoryInv'
  OBVIOUS
<1>0. TypeOK /\ EntryShape
  BY DEF InMemoryInv
<1>1. entry.lease \in {"none", "live", "lapsed"} /\ entry.backoff \in BOOLEAN
  BY <1>0 DEF TypeOK
<1>2. CASE UNCHANGED vars
  BY <1>2 DEF vars, InMemoryInv, TypeOK, EntryShape, SessionsApart, ContentTrue
<1>3. ASSUME NEW r \in Records, append(r) PROVE InMemoryInv'
  BY <1>3, AppendStep
<1>4. ASSUME NEW w \in Tokens,
             claim_archive(w) \/ claim_cleanup(w) \/ begin_archive(w)
      PROVE  InMemoryInv'
  BY <1>4, MintStep DEF claim_archive, claim_cleanup, begin_archive
<1>5. ASSUME NEW w \in Tokens, defer_archive(w) \/ abort_archive(w) PROVE InMemoryInv'
  BY <1>5, ReopenStep DEF defer_archive, abort_archive, OwnsArchiving
<1>6. ASSUME NEW w \in Tokens, defer_cleanup(w) PROVE InMemoryInv'
  <2>1. entry.lease = "live"
    BY <1>6, HolderIsLatest DEF defer_cleanup, OwnsCleanup
  <2> QED
    BY <1>6, <2>1, LeaseStep DEF defer_cleanup
<1>7. ASSUME NEW w \in Tokens, renew_archive_lease(w) PROVE InMemoryInv'
  <2>1. entry.lease = "live"
    BY <1>7, HolderIsLatest DEF renew_archive_lease
  <2>2. [entry EXCEPT !.lease = "live"] = [entry EXCEPT !.lease = "live", !.backoff = entry.backoff]
    BY <1>0 DEF TypeOK
  <2> QED
    BY <1>1, <1>7, <2>1, <2>2, LeaseStep DEF renew_archive_lease
<1>8. CASE LeaseLapses
  <2>1. [entry EXCEPT !.lease = "lapsed"] =
          [entry EXCEPT !.lease = "lapsed", !.backoff = entry.backoff]
    BY <1>0 DEF TypeOK
  <2> QED
    BY <1>1, <1>8, <2>1, LeaseStep DEF LeaseLapses
<1>9. CASE BackoffElapses
  BY <1>9, BackoffStep DEF BackoffElapses
<1> QED
  BY <1>2, <1>3, <1>4, <1>5, <1>6, <1>7, <1>8, <1>9, PublishStep, DeleteStep, SnapshotStep,
     PutStep DEF Next

\* The inductive invariant holds in every behaviour.
THEOREM InMemoryInvariant == Spec => []InMemoryInv
<1>1. Init => InMemoryInv
  <2> SUFFICES ASSUME Init PROVE InMemoryInv
    OBVIOUS
  <2>1. NoRecords \in Copies
    BY InMemoryAssumption DEF NoRecords, Copies
  <2>2. TypeOK
    BY <2>1 DEF Init, TypeOK
  <2>3. {w \in Tokens : minted[w] # 0} = {}
    BY DEF Init
  <2>4. SessionsApart
    BY <2>3, FS_EmptySet, NoneApart DEF Init, SessionsApart
  <2> QED
    BY <2>2, <2>4 DEF Init, InMemoryInv, EntryShape, ContentTrue
<1> QED
  BY <1>1, InMemoryStep, PTL DEF Spec

\* VisibleExact: readers see every appended record as often as it was appended.
THEOREM AlwaysVisibleExact == Spec => []VisibleExact
<1>1. InMemoryInv => VisibleExact
  BY DEF InMemoryInv, ContentTrue, VisibleExact, Visible
<1> QED
  BY <1>1, InMemoryInvariant, PTL

-----------------------------------------------------------------------------
(* Every step is one that CockroachDB's store can make.                    *)

\* The entry's row in CockroachDB satisfies the CHECK constraint.
LEMMA RowShaped ==
    ASSUME NEW b \in BOOLEAN, TypeOK', EntryShape'
    PROVE  Cockroach(b)!RowShape'
<1>1. entry'.objectKey # None =>
        /\ entry'.objectKey \in Nat
        /\ [generation |-> entry'.objectKey, records |-> Stored(objects'[entry'.objectKey])]
             \in [generation : Nat, records : SUBSET Records]
  BY GenerationNumbers DEF TypeOK, Stored
<1>2. entry'.objectKey # None =>
        [generation |-> entry'.objectKey, records |-> Stored(objects'[entry'.objectKey])] # None
  BY <1>1, NoneApart, Zenon
<1>3. Stored(NoRecords) = {}
  BY DEF Stored, NoRecords
<1> QED
  BY <1>2, <1>3 DEF EntryShape, Cockroach!RowShape, Row, Stored

\* The key in the entry's row, and the rows that an entry can have.
RowKey == IF entry.objectKey = None THEN None
          ELSE [generation |-> entry.objectKey, records |-> Stored(objects[entry.objectKey])]

RowKeys == [generation : Nat, records : SUBSET Records] \cup {None}

RowType ==
    [row : BOOLEAN, state : {"hot", "archiving", "archived"}, generation : Nat,
     owner : Tokens \cup {None}, lease : {"none", "live", "lapsed"},
     objectKey : RowKeys,
     hotDeleted : BOOLEAN, backoff : BOOLEAN]

\* The columns of the entry's row, before a step
LEMMA RowBefore ==
    ASSUME NEW b \in BOOLEAN, TypeOK
    PROVE  /\ Row(b) \in RowType
           /\ Row(b).row = entry.present /\ Row(b).state = entry.state
           /\ Row(b).generation = entry.generation /\ Row(b).owner = entry.owner
           /\ Row(b).lease = entry.lease /\ Row(b).objectKey = RowKey
           /\ Row(b).hotDeleted = entry.hotDeleted /\ Row(b).backoff = b
<1>1. Row(b) = [row |-> entry.present, state |-> entry.state, generation |-> entry.generation,
                owner |-> entry.owner, lease |-> entry.lease, objectKey |-> RowKey,
                hotDeleted |-> entry.hotDeleted, backoff |-> b]
  BY DEF Row, RowKey
<1>2. RowKey \in RowKeys
  BY GenerationNumbers DEF TypeOK, Stored, RowKey, RowKeys
<1>3. entry.generation \in Nat
  BY Numbers
<1> QED
  BY <1>1, <1>2, <1>3 DEF TypeOK, RowType

\* and after it.
LEMMA RowAfter ==
    ASSUME NEW b \in BOOLEAN, TypeOK'
    PROVE  /\ Row(b)' \in RowType
           /\ Row(b)'.row = entry'.present /\ Row(b)'.state = entry'.state
           /\ Row(b)'.generation = entry'.generation /\ Row(b)'.owner = entry'.owner
           /\ Row(b)'.lease = entry'.lease /\ Row(b)'.objectKey = RowKey'
           /\ Row(b)'.hotDeleted = entry'.hotDeleted /\ Row(b)'.backoff = b
<1>1. Row(b)' = [row |-> entry'.present, state |-> entry'.state, generation |-> entry'.generation,
                 owner |-> entry'.owner, lease |-> entry'.lease, objectKey |-> RowKey',
                 hotDeleted |-> entry'.hotDeleted, backoff |-> b]
  BY DEF Row, RowKey
<1>2. RowKey' \in RowKeys
  BY GenerationNumbers DEF TypeOK, Stored, RowKey, RowKeys
<1>3. entry'.generation \in Nat
  <2>1. entry'.generation \in Generations \cup {0}
    BY DEF TypeOK
  <2> QED
    BY <2>1, GenerationNumbers, Zenon
<1> QED
  BY <1>1, <1>2, <1>3 DEF TypeOK, RowType

\* A claim for archival is CockroachDB's begin_archive, which also creates the
\* row of a bucket that has none.
LEMMA ClaimConforms ==
    ASSUME InMemoryInv, TypeOK', NEW w \in Tokens, claim_archive(w) \/ begin_archive(w)
    PROVE  Cockroach(TRUE)!begin_archive(w)
<1>1. TypeOK /\ EntryShape
  BY DEF InMemoryInv
<1>2. /\ entry' = [entry EXCEPT !.present = TRUE, !.state = "archiving",
                              !.generation = entry.generation + 1, !.owner = w,
                              !.lease = "live", !.backoff = FALSE]
      /\ entry.state = "hot" \/ (entry.state = "archiving" /\ entry.lease # "live")
  BY DEF claim_archive, begin_archive, Mint, lease_expired
<1>3. /\ entry'.state = "archiving" /\ entry'.generation = entry.generation + 1
      /\ entry'.owner = w /\ entry'.lease = "live" /\ entry'.present = TRUE
      /\ entry'.objectKey = entry.objectKey
      /\ entry'.hotDeleted = entry.hotDeleted /\ entry'.records = entry.records
  BY <1>1, <1>2 DEF TypeOK
<1>4. entry.objectKey = None /\ entry.hotDeleted = FALSE
      /\ (entry.state = "archiving" => entry.lease = "lapsed")
  BY <1>1, <1>2 DEF TypeOK, EntryShape
<1>5. RowKey' = None
  BY <1>3, <1>4 DEF RowKey
<1>6. Row(TRUE)' = [Row(TRUE) EXCEPT !.row = TRUE, !.state = "archiving",
                        !.generation = Row(TRUE).generation + 1, !.owner = w,
                        !.lease = "live", !.objectKey = None, !.hotDeleted = FALSE]
  <2>1. ASSUME NEW R \in RowType, NEW Q \in RowType, Q.row = TRUE, Q.state = "archiving",
               Q.owner = w, Q.lease = "live", Q.objectKey = None, Q.hotDeleted = FALSE,
               Q.backoff = R.backoff
        PROVE  Q = [R EXCEPT !.row = TRUE, !.state = "archiving", !.generation = Q.generation,
                             !.owner = w, !.lease = "live", !.objectKey = None,
                             !.hotDeleted = FALSE]
    BY <2>1 DEF RowType
  <2>2. /\ Row(TRUE) \in RowType /\ Row(TRUE).generation = entry.generation
        /\ Row(TRUE).backoff = TRUE
    BY <1>1, RowBefore
  <2>3. /\ Row(TRUE)' \in RowType /\ Row(TRUE)'.row = TRUE /\ Row(TRUE)'.state = "archiving"
        /\ Row(TRUE)'.generation = Row(TRUE).generation + 1 /\ Row(TRUE)'.owner = w
        /\ Row(TRUE)'.lease = "live" /\ Row(TRUE)'.objectKey = None
        /\ Row(TRUE)'.hotDeleted = FALSE /\ Row(TRUE)'.backoff = Row(TRUE).backoff
    BY <1>3, <1>4, <1>5, <2>2, RowAfter
  <2>4. Row(TRUE)' = [Row(TRUE) EXCEPT !.row = TRUE, !.state = "archiving",
                          !.generation = Row(TRUE)'.generation, !.owner = w,
                          !.lease = "live", !.objectKey = None, !.hotDeleted = FALSE]
    BY <2>1, <2>2, <2>3, Zenon
  <2>5. Row(TRUE)'.generation = Row(TRUE).generation + 1
    BY <2>3
  <2> QED
    BY <2>4, <2>5, Zenon
<1>7. Cockroach(TRUE)!Claimable
  BY <1>1, <1>2, <1>4, RowBefore DEF Cockroach!Claimable, Cockroach!Expired
<1>8. UNCHANGED Stored(entry.records)
  BY <1>3 DEF Stored
<1> QED
  BY <1>6, <1>7, <1>8 DEF Cockroach!begin_archive

\* A claim for cleanup.
LEMMA CleanupClaimConforms ==
    ASSUME InMemoryInv, InMemoryInv', NEW w \in Tokens, claim_cleanup(w)
    PROVE  Cockroach(FALSE)!claim_cleanup(w)
<1>1. TypeOK /\ EntryShape /\ ContentTrue /\ TypeOK'
  BY DEF InMemoryInv
<1>2. /\ entry' = [entry EXCEPT !.present = TRUE, !.state = "archived",
                              !.generation = entry.generation + 1, !.owner = w,
                              !.lease = "live", !.backoff = FALSE] /\ objects' = objects
      /\ entry.state = "archived" /\ entry.hotDeleted = FALSE /\ entry.lease # "live"
  BY <1>1 DEF claim_cleanup, Mint, lease_expired
<1>3. /\ entry'.state = entry.state /\ entry'.generation = entry.generation + 1
      /\ entry'.owner = w /\ entry'.lease = "live" /\ entry'.present = TRUE
      /\ entry'.objectKey = entry.objectKey
      /\ entry'.hotDeleted = entry.hotDeleted /\ entry'.records = entry.records
  BY <1>1, <1>2 DEF TypeOK
<1>4. entry.present = TRUE
  BY <1>1, <1>2 DEF TypeOK, EntryShape
<1>5. RowKey' = RowKey
  BY <1>2, <1>3 DEF RowKey, Stored
<1>6. Row(FALSE)' = [Row(FALSE) EXCEPT !.generation = Row(FALSE).generation + 1,
                                       !.owner = w, !.lease = "live",
                                       !.backoff = FALSE]
  <2>1. ASSUME NEW R \in RowType, NEW Q \in RowType, Q.row = R.row,
               Q.state = R.state, Q.generation = R.generation + 1, Q.owner = w,
               Q.lease = "live", Q.objectKey = R.objectKey,
               Q.hotDeleted = R.hotDeleted, Q.backoff = FALSE
        PROVE  Q = [R EXCEPT !.generation = R.generation + 1, !.owner = w,
                             !.lease = "live", !.backoff = FALSE]
    BY <2>1 DEF RowType
  <2>2. Row(FALSE) \in RowType /\ Row(FALSE)' \in RowType
    BY <1>1, RowBefore, RowAfter
  <2>3. /\ Row(FALSE)'.row = Row(FALSE).row /\ Row(FALSE)'.state = Row(FALSE).state
        /\ Row(FALSE)'.generation = Row(FALSE).generation + 1 /\ Row(FALSE)'.owner = w
        /\ Row(FALSE)'.lease = "live" /\ Row(FALSE)'.objectKey = Row(FALSE).objectKey
        /\ Row(FALSE)'.hotDeleted = Row(FALSE).hotDeleted
        /\ Row(FALSE)'.backoff = FALSE
    BY <1>1, <1>3, <1>4, <1>5, RowBefore, RowAfter
  <2> QED
    BY <2>1, <2>2, <2>3, Zenon
<1>7. Cockroach(FALSE)!CleanupDue
  BY <1>1, <1>2, RowBefore DEF Cockroach!CleanupDue
<1>8. UNCHANGED Stored(entry.records)
  BY <1>3 DEF Stored
<1> QED
  BY <1>6, <1>7, <1>8 DEF Cockroach!claim_cleanup

\* A session gives up and schedules a retry.
LEMMA DeferConforms ==
    ASSUME InMemoryInv, InMemoryInv', NEW w \in Tokens, defer_archive(w)
    PROVE  Cockroach(TRUE)!defer_archive([owner |-> w, generation |-> minted[w]])
<1>1. TypeOK /\ EntryShape /\ ContentTrue /\ TypeOK'
  BY DEF InMemoryInv
<1>2. /\ entry' = [entry EXCEPT !.state = "hot", !.owner = None, !.lease = "none",
                              !.backoff = TRUE] /\ objects' = objects
      /\ entry.state = "archiving"
  BY <1>1 DEF defer_archive, Change, OwnsArchiving
<1>3. /\ entry'.state = "hot" /\ entry'.generation = entry.generation
      /\ entry'.owner = None /\ entry'.lease = "none"
      /\ entry'.present = entry.present /\ entry'.objectKey = entry.objectKey
      /\ entry'.hotDeleted = entry.hotDeleted /\ entry'.records = entry.records
  BY <1>1, <1>2 DEF TypeOK
<1>4. entry.objectKey = None /\ entry.hotDeleted = FALSE
  BY <1>1, <1>2 DEF TypeOK, EntryShape
<1>5. RowKey' = None
  BY <1>3, <1>4 DEF RowKey
<1>6. Row(TRUE)' = [Row(TRUE) EXCEPT !.state = "hot", !.owner = None,
                                     !.lease = "none", !.objectKey = None,
                                     !.hotDeleted = FALSE, !.backoff = TRUE]
  <2>1. ASSUME NEW R \in RowType, NEW Q \in RowType, Q.row = R.row,
               Q.state = "hot", Q.generation = R.generation, Q.owner = None,
               Q.lease = "none", Q.objectKey = None, Q.hotDeleted = FALSE,
               Q.backoff = TRUE
        PROVE  Q = [R EXCEPT !.state = "hot", !.owner = None, !.lease = "none",
                             !.objectKey = None, !.hotDeleted = FALSE,
                             !.backoff = TRUE]
    BY <2>1 DEF RowType
  <2>2. Row(TRUE) \in RowType /\ Row(TRUE)' \in RowType
    BY <1>1, RowBefore, RowAfter
  <2>3. /\ Row(TRUE)'.row = Row(TRUE).row /\ Row(TRUE)'.state = "hot"
        /\ Row(TRUE)'.generation = Row(TRUE).generation /\ Row(TRUE)'.owner = None
        /\ Row(TRUE)'.lease = "none" /\ Row(TRUE)'.objectKey = None
        /\ Row(TRUE)'.hotDeleted = FALSE /\ Row(TRUE)'.backoff = TRUE
    BY <1>1, <1>3, <1>4, <1>5, RowBefore, RowAfter
  <2> QED
    BY <2>1, <2>2, <2>3, Zenon
<1>7. entry.generation = minted[w] /\ entry.owner = w
  BY HolderIsLatest DEF defer_archive, OwnsArchiving
<1>8. Cockroach(TRUE)!OwnsArchiving([owner |-> w, generation |-> minted[w]])
  BY <1>1, <1>2, <1>7, RowBefore DEF Cockroach!OwnsArchiving, Cockroach!Owned
<1>9. UNCHANGED Stored(entry.records)
  BY <1>3 DEF Stored
<1> QED
  BY <1>6, <1>8, <1>9 DEF Cockroach!defer_archive

\* A session aborts.
LEMMA AbortConforms ==
    ASSUME InMemoryInv, InMemoryInv', NEW w \in Tokens, abort_archive(w)
    PROVE  Cockroach(TRUE)!abort_archive([owner |-> w, generation |-> minted[w]])
<1>1. TypeOK /\ EntryShape /\ ContentTrue /\ TypeOK'
  BY DEF InMemoryInv
<1>2. /\ entry' = [entry EXCEPT !.state = "hot", !.owner = None, !.lease = "none",
                              !.backoff = FALSE] /\ objects' = objects
      /\ entry.state = "archiving"
  BY <1>1 DEF abort_archive, Change, OwnsArchiving
<1>3. /\ entry'.state = "hot" /\ entry'.generation = entry.generation
      /\ entry'.owner = None /\ entry'.lease = "none"
      /\ entry'.present = entry.present /\ entry'.objectKey = entry.objectKey
      /\ entry'.hotDeleted = entry.hotDeleted /\ entry'.records = entry.records
  BY <1>1, <1>2 DEF TypeOK
<1>4. entry.objectKey = None /\ entry.hotDeleted = FALSE
  BY <1>1, <1>2 DEF TypeOK, EntryShape
<1>5. RowKey' = None
  BY <1>3, <1>4 DEF RowKey
<1>6. Row(TRUE)' = [Row(TRUE) EXCEPT !.state = "hot", !.owner = None,
                                     !.lease = "none", !.objectKey = None,
                                     !.hotDeleted = FALSE]
  <2>1. ASSUME NEW R \in RowType, NEW Q \in RowType, Q.row = R.row,
               Q.state = "hot", Q.generation = R.generation, Q.owner = None,
               Q.lease = "none", Q.objectKey = None, Q.hotDeleted = FALSE,
               Q.backoff = R.backoff
        PROVE  Q = [R EXCEPT !.state = "hot", !.owner = None, !.lease = "none",
                             !.objectKey = None, !.hotDeleted = FALSE]
    BY <2>1 DEF RowType
  <2>2. Row(TRUE) \in RowType /\ Row(TRUE)' \in RowType
    BY <1>1, RowBefore, RowAfter
  <2>3. /\ Row(TRUE)'.row = Row(TRUE).row /\ Row(TRUE)'.state = "hot"
        /\ Row(TRUE)'.generation = Row(TRUE).generation /\ Row(TRUE)'.owner = None
        /\ Row(TRUE)'.lease = "none" /\ Row(TRUE)'.objectKey = None
        /\ Row(TRUE)'.hotDeleted = FALSE /\ Row(TRUE)'.backoff = Row(TRUE).backoff
    BY <1>1, <1>3, <1>4, <1>5, RowBefore, RowAfter
  <2> QED
    BY <2>1, <2>2, <2>3, Zenon
<1>7. entry.generation = minted[w] /\ entry.owner = w
  BY HolderIsLatest DEF abort_archive, OwnsArchiving
<1>8. Cockroach(TRUE)!OwnsArchiving([owner |-> w, generation |-> minted[w]])
  BY <1>1, <1>2, <1>7, RowBefore DEF Cockroach!OwnsArchiving, Cockroach!Owned
<1>9. UNCHANGED Stored(entry.records)
  BY <1>3 DEF Stored
<1> QED
  BY <1>6, <1>8, <1>9 DEF Cockroach!abort_archive

\* A cleanup is put off.
LEMMA DeferCleanupConforms ==
    ASSUME InMemoryInv, InMemoryInv', NEW w \in Tokens, defer_cleanup(w)
    PROVE  Cockroach(TRUE)!defer_cleanup([owner |-> w, generation |-> minted[w]])
<1>1. TypeOK /\ EntryShape /\ ContentTrue /\ TypeOK'
  BY DEF InMemoryInv
<1>2. /\ entry' = [entry EXCEPT !.lease = "live", !.backoff = TRUE] /\ objects' = objects
      /\ entry.state = "archived" /\ entry.hotDeleted = FALSE
  BY <1>1 DEF defer_cleanup, Change, OwnsCleanup
<1>3. /\ entry'.state = entry.state /\ entry'.generation = entry.generation
      /\ entry'.owner = entry.owner /\ entry'.lease = "live"
      /\ entry'.present = entry.present /\ entry'.objectKey = entry.objectKey
      /\ entry'.hotDeleted = entry.hotDeleted /\ entry'.records = entry.records
  BY <1>1, <1>2 DEF TypeOK
<1>5. RowKey' = RowKey
  BY <1>2, <1>3 DEF RowKey, Stored
<1>6. Row(TRUE)' = [Row(TRUE) EXCEPT !.lease = "live", !.backoff = TRUE]
  <2>1. ASSUME NEW R \in RowType, NEW Q \in RowType, Q.row = R.row,
               Q.state = R.state, Q.generation = R.generation, Q.owner = R.owner,
               Q.lease = "live", Q.objectKey = R.objectKey,
               Q.hotDeleted = R.hotDeleted, Q.backoff = TRUE
        PROVE  Q = [R EXCEPT !.lease = "live", !.backoff = TRUE]
    BY <2>1 DEF RowType
  <2>2. Row(TRUE) \in RowType /\ Row(TRUE)' \in RowType
    BY <1>1, RowBefore, RowAfter
  <2>3. /\ Row(TRUE)'.row = Row(TRUE).row /\ Row(TRUE)'.state = Row(TRUE).state
        /\ Row(TRUE)'.generation = Row(TRUE).generation
        /\ Row(TRUE)'.owner = Row(TRUE).owner /\ Row(TRUE)'.lease = "live"
        /\ Row(TRUE)'.objectKey = Row(TRUE).objectKey
        /\ Row(TRUE)'.hotDeleted = Row(TRUE).hotDeleted /\ Row(TRUE)'.backoff = TRUE
    BY <1>1, <1>3, <1>5, RowBefore, RowAfter
  <2> QED
    BY <2>1, <2>2, <2>3, Zenon
<1>7. entry.generation = minted[w] /\ entry.owner = w
  BY HolderIsLatest DEF defer_cleanup, OwnsCleanup
<1>8. Cockroach(TRUE)!OwnsCleanup([owner |-> w, generation |-> minted[w]])
  BY <1>1, <1>2, <1>7, RowBefore DEF Cockroach!OwnsCleanup, Cockroach!Owned
<1>9. UNCHANGED Stored(entry.records)
  BY <1>3 DEF Stored
<1> QED
  BY <1>6, <1>8, <1>9 DEF Cockroach!defer_cleanup

\* The hot rows are deleted.
LEMMA DeleteConforms ==
    ASSUME InMemoryInv, InMemoryInv', NEW w \in Tokens, delete_hot_bucket(w)
    PROVE  Cockroach(TRUE)!delete_hot_bucket([owner |-> w, generation |-> minted[w]])
<1>1. TypeOK /\ EntryShape /\ ContentTrue /\ TypeOK'
  BY DEF InMemoryInv
<1>2. /\ entry' = [entry EXCEPT !.hotDeleted = TRUE, !.records = NoRecords] /\ objects' = objects
      /\ entry.state = "archived" /\ entry.hotDeleted = FALSE
  BY <1>1 DEF delete_hot_bucket, Change, OwnsCleanup
<1>3. /\ entry'.state = entry.state /\ entry'.generation = entry.generation
      /\ entry'.owner = entry.owner /\ entry'.lease = entry.lease
      /\ entry'.present = entry.present /\ entry'.objectKey = entry.objectKey
      /\ entry'.hotDeleted = TRUE /\ entry'.records = NoRecords
  BY <1>1, <1>2 DEF TypeOK
<1>5. RowKey' = RowKey
  BY <1>2, <1>3 DEF RowKey, Stored
<1>6. Row(TRUE)' = [Row(TRUE) EXCEPT !.hotDeleted = TRUE]
  <2>1. ASSUME NEW R \in RowType, NEW Q \in RowType, Q.row = R.row,
               Q.state = R.state, Q.generation = R.generation, Q.owner = R.owner,
               Q.lease = R.lease, Q.objectKey = R.objectKey, Q.hotDeleted = TRUE,
               Q.backoff = R.backoff
        PROVE  Q = [R EXCEPT !.hotDeleted = TRUE]
    BY <2>1 DEF RowType
  <2>2. Row(TRUE) \in RowType /\ Row(TRUE)' \in RowType
    BY <1>1, RowBefore, RowAfter
  <2>3. /\ Row(TRUE)'.row = Row(TRUE).row /\ Row(TRUE)'.state = Row(TRUE).state
        /\ Row(TRUE)'.generation = Row(TRUE).generation
        /\ Row(TRUE)'.owner = Row(TRUE).owner /\ Row(TRUE)'.lease = Row(TRUE).lease
        /\ Row(TRUE)'.objectKey = Row(TRUE).objectKey /\ Row(TRUE)'.hotDeleted = TRUE
        /\ Row(TRUE)'.backoff = Row(TRUE).backoff
    BY <1>1, <1>3, <1>5, RowBefore, RowAfter
  <2> QED
    BY <2>1, <2>2, <2>3, Zenon
<1>7. entry.generation = minted[w] /\ entry.owner = w
  BY HolderIsLatest DEF delete_hot_bucket, OwnsCleanup
<1>8. Cockroach(TRUE)!OwnsCleanup([owner |-> w, generation |-> minted[w]])
  BY <1>1, <1>2, <1>7, RowBefore DEF Cockroach!OwnsCleanup, Cockroach!Owned
<1>9. Stored(entry'.records) = {}
  BY <1>3 DEF Stored, NoRecords
<1> QED
  BY <1>6, <1>8, <1>9 DEF Cockroach!delete_hot_bucket, Stored

\* A session publishes the key of its snapshot.
LEMMA PublishConforms ==
    ASSUME InMemoryInv, InMemoryInv', NEW w \in Tokens, publish_archive(w)
    PROVE  Cockroach(TRUE)!publish_archive([owner |-> w, generation |-> minted[w]],
               [generation |-> minted[w], records |-> Stored(snaps[w])])
<1>1. TypeOK /\ EntryShape /\ ContentTrue /\ TypeOK'
  BY DEF InMemoryInv
<1>2. /\ entry' = [entry EXCEPT !.state = "archived", !.hotDeleted = FALSE,
                              !.objectKey = minted[w]] /\ objects' = objects
      /\ entry.state = "archiving"
  BY <1>1 DEF publish_archive, Change, OwnsArchiving, ObjectKey
<1>3. /\ entry'.state = "archived" /\ entry'.generation = entry.generation
      /\ entry'.owner = entry.owner /\ entry'.lease = entry.lease
      /\ entry'.present = entry.present /\ entry'.objectKey = minted[w]
      /\ entry'.hotDeleted = FALSE /\ entry'.records = entry.records
  BY <1>1, <1>2 DEF TypeOK
<1>4. minted[w] # None
  BY NoneApart, GenerationNumbers, HolderIsLatest DEF publish_archive, OwnsArchiving
<1>5. RowKey' = [generation |-> minted[w], records |-> Stored(snaps[w])]
  BY <1>2, <1>3, <1>4, PublishStep DEF RowKey, Stored
<1>6. Row(TRUE)' = [Row(TRUE) EXCEPT !.state = "archived",
                                     !.objectKey = [generation |-> minted[w],
                                                    records |-> Stored(snaps[w])],
                                     !.hotDeleted = FALSE]
  <2>1. ASSUME NEW R \in RowType, NEW Q \in RowType, Q.row = R.row,
               Q.state = "archived", Q.generation = R.generation,
               Q.owner = R.owner, Q.lease = R.lease,
               Q.objectKey = [generation |-> minted[w], records |-> Stored(snaps[w])],
               Q.hotDeleted = FALSE, Q.backoff = R.backoff
        PROVE  Q = [R EXCEPT !.state = "archived",
                             !.objectKey = [generation |-> minted[w], records |-> Stored(snaps[w])],
                             !.hotDeleted = FALSE]
    BY <2>1 DEF RowType
  <2>2. Row(TRUE) \in RowType /\ Row(TRUE)' \in RowType
    BY <1>1, RowBefore, RowAfter
  <2>3. /\ Row(TRUE)'.row = Row(TRUE).row /\ Row(TRUE)'.state = "archived"
        /\ Row(TRUE)'.generation = Row(TRUE).generation
        /\ Row(TRUE)'.owner = Row(TRUE).owner /\ Row(TRUE)'.lease = Row(TRUE).lease
        /\ Row(TRUE)'.objectKey = [generation |-> minted[w], records |-> Stored(snaps[w])]
        /\ Row(TRUE)'.hotDeleted = FALSE /\ Row(TRUE)'.backoff = Row(TRUE).backoff
    BY <1>1, <1>3, <1>4, <1>5, RowBefore, RowAfter
  <2> QED
    BY <2>1, <2>2, <2>3, Zenon
<1>7. entry.generation = minted[w] /\ entry.owner = w
  BY HolderIsLatest DEF publish_archive, OwnsArchiving
<1>8. Cockroach(TRUE)!OwnsArchiving([owner |-> w, generation |-> minted[w]])
  BY <1>1, <1>2, <1>7, RowBefore DEF Cockroach!OwnsArchiving, Cockroach!Owned
<1>9. UNCHANGED Stored(entry.records)
  BY <1>3 DEF Stored
<1> QED
  BY <1>6, <1>8, <1>9 DEF Cockroach!publish_archive

\* A lease lapses.
LEMMA LapseConforms ==
    ASSUME InMemoryInv, InMemoryInv', LeaseLapses
    PROVE  Cockroach(TRUE)!LeaseLapses
<1>1. TypeOK /\ EntryShape /\ ContentTrue /\ TypeOK'
  BY DEF InMemoryInv
<1>2. /\ entry' = [entry EXCEPT !.lease = "lapsed"] /\ objects' = objects
      /\ entry.lease = "live"
  BY <1>1 DEF LeaseLapses, Change
<1>3. /\ entry'.state = entry.state /\ entry'.generation = entry.generation
      /\ entry'.owner = entry.owner /\ entry'.lease = "lapsed"
      /\ entry'.present = entry.present /\ entry'.objectKey = entry.objectKey
      /\ entry'.hotDeleted = entry.hotDeleted /\ entry'.records = entry.records
  BY <1>1, <1>2 DEF TypeOK
<1>5. RowKey' = RowKey
  BY <1>2, <1>3 DEF RowKey, Stored
<1>6. Row(TRUE)' = [Row(TRUE) EXCEPT !.lease = "lapsed"]
  <2>1. ASSUME NEW R \in RowType, NEW Q \in RowType, Q.row = R.row,
               Q.state = R.state, Q.generation = R.generation, Q.owner = R.owner,
               Q.lease = "lapsed", Q.objectKey = R.objectKey,
               Q.hotDeleted = R.hotDeleted, Q.backoff = R.backoff
        PROVE  Q = [R EXCEPT !.lease = "lapsed"]
    BY <2>1 DEF RowType
  <2>2. Row(TRUE) \in RowType /\ Row(TRUE)' \in RowType
    BY <1>1, RowBefore, RowAfter
  <2>3. /\ Row(TRUE)'.row = Row(TRUE).row /\ Row(TRUE)'.state = Row(TRUE).state
        /\ Row(TRUE)'.generation = Row(TRUE).generation
        /\ Row(TRUE)'.owner = Row(TRUE).owner /\ Row(TRUE)'.lease = "lapsed"
        /\ Row(TRUE)'.objectKey = Row(TRUE).objectKey
        /\ Row(TRUE)'.hotDeleted = Row(TRUE).hotDeleted
        /\ Row(TRUE)'.backoff = Row(TRUE).backoff
    BY <1>1, <1>3, <1>5, RowBefore, RowAfter
  <2> QED
    BY <2>1, <2>2, <2>3, Zenon
<1>7. Row(TRUE).lease = "live"
  BY <1>1, <1>2, RowBefore
<1>8. UNCHANGED Stored(entry.records)
  BY <1>3 DEF Stored
<1> QED
  BY <1>6, <1>7, <1>8 DEF Cockroach!LeaseLapses

\* The first append of a record is an append there; a duplicate, which
\* CockroachDB refuses, changes nothing that the row or the set of records shows.
LEMMA AppendConforms ==
    ASSUME InMemoryInv, InMemoryInv', NEW r \in Records, append(r)
    PROVE  \/ Cockroach(TRUE)!Append(r)
           \/ UNCHANGED <<Row(TRUE), Stored(entry.records)>>
<1>1. TypeOK /\ EntryShape /\ TypeOK'
  BY DEF InMemoryInv
<1>2. /\ entry' = [entry EXCEPT !.present = TRUE,
                                !.records = [entry.records EXCEPT ![r] = entry.records[r] + 1]]
      /\ objects' = objects /\ entry.state = "hot"
  BY <1>1 DEF append, TypeOK
<1>3. /\ entry'.state = entry.state /\ entry'.generation = entry.generation
      /\ entry'.owner = entry.owner /\ entry'.lease = entry.lease
      /\ entry'.present = TRUE /\ entry'.objectKey = entry.objectKey
      /\ entry'.hotDeleted = entry.hotDeleted
      /\ entry'.records = [entry.records EXCEPT ![r] = entry.records[r] + 1]
  BY <1>1, <1>2 DEF TypeOK
<1>4. RowKey' = RowKey
  BY <1>2, <1>3 DEF RowKey, Stored
<1>5. entry.records \in [Records -> Nat]
  BY <1>1, InMemoryAssumption DEF TypeOK, Copies
<1>6. Stored(entry'.records) = Stored(entry.records) \cup {r}
  BY <1>3, <1>5 DEF Stored
<1>7. CASE r \notin Stored(entry.records)
  <2>1. Row(TRUE)' = [Row(TRUE) EXCEPT !.row = TRUE]
    <3>1. ASSUME NEW R \in RowType, NEW Q \in RowType, Q.row = TRUE, Q.state = R.state,
                 Q.generation = R.generation, Q.owner = R.owner, Q.lease = R.lease,
                 Q.objectKey = R.objectKey, Q.hotDeleted = R.hotDeleted,
                 Q.backoff = R.backoff
          PROVE  Q = [R EXCEPT !.row = TRUE]
      BY <3>1 DEF RowType
    <3>2. Row(TRUE) \in RowType /\ Row(TRUE)' \in RowType
      BY <1>1, RowBefore, RowAfter
    <3>3. /\ Row(TRUE)'.row = TRUE /\ Row(TRUE)'.state = Row(TRUE).state
          /\ Row(TRUE)'.generation = Row(TRUE).generation
          /\ Row(TRUE)'.owner = Row(TRUE).owner /\ Row(TRUE)'.lease = Row(TRUE).lease
          /\ Row(TRUE)'.objectKey = Row(TRUE).objectKey
          /\ Row(TRUE)'.hotDeleted = Row(TRUE).hotDeleted
          /\ Row(TRUE)'.backoff = Row(TRUE).backoff
      BY <1>1, <1>3, <1>4, RowBefore, RowAfter
    <3> QED
      BY <3>1, <3>2, <3>3, Zenon
  <2>2. Row(TRUE).state = "hot"
    BY <1>1, <1>2, RowBefore
  <2>3. Stored(entry.records)' = Stored(entry.records) \cup {r}
    BY <1>6 DEF Stored
  <2> QED
    BY <1>7, <2>1, <2>2, <2>3 DEF Cockroach!Append, Cockroach!AppendAllowed
<1>8. CASE r \in Stored(entry.records)
  <2>1. entry.present = TRUE
    BY <1>1, <1>8 DEF TypeOK, EntryShape, Stored, NoRecords
  <2>2. Row(TRUE)' = Row(TRUE)
    BY <1>3, <1>4, <2>1 DEF Row, RowKey
  <2>3. Stored(entry.records)' = Stored(entry.records)
    BY <1>6, <1>8 DEF Stored
  <2> QED
    BY <2>2, <2>3
<1> QED
  BY <1>7, <1>8

\* Steps that CockroachDB's store does not see: a renewal of a live lease, the
\* end of a backoff, a snapshot, and an upload, which cannot change a published
\* object.
LEMMA UnseenConforms ==
    ASSUME InMemoryInv,
           \/ UNCHANGED vars
           \/ BackoffElapses
           \/ \E w \in Tokens : \/ renew_archive_lease(w) \/ snapshot(w)
                                \/ put_bucket_generation(w)
    PROVE  UNCHANGED <<Row(TRUE), Stored(entry.records)>>
<1>1. TypeOK
  BY DEF InMemoryInv
<1>2. ASSUME entry' = entry, RowKey' = RowKey
      PROVE  UNCHANGED <<Row(TRUE), Stored(entry.records)>>
  BY <1>2 DEF Row, RowKey, Stored
<1>3. CASE UNCHANGED vars
  BY <1>2, <1>3 DEF vars, RowKey, Stored
<1>4. CASE BackoffElapses
  <2>1. entry' = [entry EXCEPT !.backoff = FALSE] /\ objects' = objects
    BY <1>4 DEF BackoffElapses, Change
  <2>2. /\ entry'.state = entry.state /\ entry'.generation = entry.generation
        /\ entry'.owner = entry.owner /\ entry'.lease = entry.lease
        /\ entry'.present = entry.present /\ entry'.objectKey = entry.objectKey
        /\ entry'.hotDeleted = entry.hotDeleted /\ entry'.records = entry.records
    BY <1>1, <2>1 DEF TypeOK
  <2> QED
    BY <2>1, <2>2 DEF Row, Stored
<1>5. ASSUME NEW w \in Tokens, renew_archive_lease(w)
      PROVE  UNCHANGED <<Row(TRUE), Stored(entry.records)>>
  <2>1. entry.lease = "live" /\ entry' = [entry EXCEPT !.lease = "live"] /\ objects' = objects
    BY <1>5, HolderIsLatest DEF renew_archive_lease, Change
  <2>2. entry' = entry
    BY <1>1, <2>1 DEF TypeOK
  <2> QED
    BY <1>2, <2>1, <2>2 DEF RowKey, Stored
<1>6. ASSUME NEW w \in Tokens, snapshot(w)
      PROVE  UNCHANGED <<Row(TRUE), Stored(entry.records)>>
  BY <1>2, <1>6 DEF snapshot, RowKey, Stored
<1>7. ASSUME NEW w \in Tokens, put_bucket_generation(w)
      PROVE  UNCHANGED <<Row(TRUE), Stored(entry.records)>>
  <2>1. entry' = entry
    BY <1>7 DEF put_bucket_generation
  <2>2. entry.objectKey # None => objects'[entry.objectKey] = objects[entry.objectKey]
    BY <1>7, PutStep
  <2>3. RowKey' = RowKey
    BY <2>1, <2>2 DEF RowKey, Stored
  <2> QED
    BY <1>2, <2>1, <2>3
<1> QED
  BY <1>3, <1>4, <1>5, <1>6, <1>7

\* ConformsToCockroach: whatever a test sees on the in-memory stores,
\* CockroachDB's store can do.
THEOREM AlwaysConforms == Spec => ConformsToCockroach
<1>1. InMemoryInv /\ [Next]_vars =>
        [\E b \in BOOLEAN : CockroachStep(b) /\ Cockroach(b)!RowShape']_vars
  <2> SUFFICES ASSUME InMemoryInv, [Next]_vars
               PROVE  \E b \in BOOLEAN : CockroachStep(b) /\ Cockroach(b)!RowShape'
    OBVIOUS
  <2>1. InMemoryInv'
    BY InMemoryStep
  <2>2. \A b \in BOOLEAN : Cockroach(b)!RowShape'
    BY <2>1, RowShaped DEF InMemoryInv
  <2>3. CockroachStep(TRUE) \/ CockroachStep(FALSE)
    <3>1. ASSUME NEW w \in Tokens, NEW b \in BOOLEAN, CockroachCall(b, w) PROVE CockroachStep(b)
      BY <3>1 DEF CockroachStep
    <3>2. ASSUME NEW r \in Records, append(r) PROVE CockroachStep(TRUE)
      BY <2>1, <3>2, AppendConforms DEF CockroachStep
    <3>3. ASSUME NEW w \in Tokens, claim_archive(w) \/ begin_archive(w)
          PROVE  CockroachStep(TRUE)
      BY <2>1, <3>1, <3>3, ClaimConforms DEF CockroachCall, InMemoryInv
    <3>4. ASSUME NEW w \in Tokens, claim_cleanup(w) PROVE CockroachStep(FALSE)
      BY <2>1, <3>1, <3>4, CleanupClaimConforms DEF CockroachCall
    <3>5. ASSUME NEW w \in Tokens, publish_archive(w) PROVE CockroachStep(TRUE)
      BY <2>1, <3>1, <3>5, PublishConforms DEF CockroachCall, publish_archive
    <3>6. ASSUME NEW w \in Tokens, delete_hot_bucket(w) PROVE CockroachStep(TRUE)
      BY <2>1, <3>1, <3>6, DeleteConforms DEF CockroachCall
    <3>7. ASSUME NEW w \in Tokens, defer_archive(w) PROVE CockroachStep(TRUE)
      BY <2>1, <3>1, <3>7, DeferConforms DEF CockroachCall
    <3>8. ASSUME NEW w \in Tokens, defer_cleanup(w) PROVE CockroachStep(TRUE)
      BY <2>1, <3>1, <3>8, DeferCleanupConforms DEF CockroachCall
    <3>9. ASSUME NEW w \in Tokens, abort_archive(w) PROVE CockroachStep(TRUE)
      BY <2>1, <3>1, <3>9, AbortConforms DEF CockroachCall
    <3>10. CASE LeaseLapses
      BY <2>1, <3>10, LapseConforms DEF CockroachStep
    <3>11. CASE \/ UNCHANGED vars
                \/ BackoffElapses
                \/ \E w \in Tokens : \/ renew_archive_lease(w) \/ snapshot(w)
                                     \/ put_bucket_generation(w)
      BY <3>11, UnseenConforms DEF CockroachStep
    <3> QED
      BY <3>2, <3>3, <3>4, <3>5, <3>6, <3>7, <3>8, <3>9, <3>10, <3>11 DEF Next
  <2> QED
    BY <2>2, <2>3
<1> QED
  BY <1>1, InMemoryInvariant, PTL DEF Spec, ConformsToCockroach
=============================================================================
