---------------------------- MODULE Memory_proof ----------------------------
(***************************************************************************)
(* The memory stores and the profile kept in them: what a load returns,    *)
(* that the two stores cannot be told apart, and what the assistant        *)
(* remembers, for every number of records and every set of names, texts    *)
(* and scopes.                                                             *)
(***************************************************************************)
EXTENDS MCMemory, FiniteSetTheorems, FunctionTheorems, TLAPS

-----------------------------------------------------------------------------
(* A set of numbers in order                                               *)

LEMMA RankFacts ==
    ASSUME NEW S \in SUBSET Int, IsFiniteSet(S), NEW i \in S
    PROVE  /\ Rank(S, i) \in 0 .. Cardinality(S) - 1
           /\ \A j \in S : i < j => Rank(S, i) < Rank(S, j)
  <1> DEFINE B(n) == {j \in S : j < n}
  <1>1. ASSUME NEW n \in S PROVE IsFiniteSet(B(n)) /\ Cardinality(B(n)) \in Nat
    <2>1. B(n) \in SUBSET S
      OBVIOUS
    <2>2. IsFiniteSet(B(n))
      BY <2>1, FS_Subset
    <2> HIDE DEF B
    <2> QED BY <2>2, FS_CardinalityType
  <1>2. Cardinality(B(i)) <= Cardinality(S) - 1
    <2>1. B(i) \in SUBSET (S \ {i}) /\ IsFiniteSet(S \ {i})
      BY FS_RemoveElement
    <2>2. Cardinality(S \ {i}) = Cardinality(S) - 1
      BY FS_RemoveElement
    <2> HIDE DEF B
    <2> QED BY <2>1, <2>2, FS_Subset
  <1>3. ASSUME NEW j \in S, i < j PROVE Cardinality(B(i)) < Cardinality(B(j))
    <2>1. B(i) \in SUBSET B(j) /\ i \in B(j) /\ i \notin B(i)
      <3>1. \A n \in S : n \in Int
        OBVIOUS
      <3>2. \A n \in S : n < i => n < j
        BY <1>3, <3>1
      <3>3. ~(i < i)
        BY <3>1
      <3> QED BY <1>3, <3>2, <3>3
    <2> HIDE DEF B
    <2>2. Cardinality(B(i)) <= Cardinality(B(j)) /\ Cardinality(B(i)) # Cardinality(B(j))
      BY <1>1, <2>1, FS_Subset
    <2> QED BY <1>1, <2>2
  <1>4. Cardinality(S) \in Nat
    BY FS_CardinalityType
  <1> QED BY <1>1, <1>2, <1>3, <1>4 DEF Rank

LEMMA RankHit ==
    ASSUME NEW S \in SUBSET Int, IsFiniteSet(S), NEW k \in 0 .. Cardinality(S) - 1
    PROVE  \E i \in S : Rank(S, i) = k
  <1> SUFFICES ASSUME \A i \in S : Rank(S, i) # k PROVE FALSE
    OBVIOUS
  <1> DEFINE N == Cardinality(S)
             T == (0 .. N - 1) \ {k}
             f == [i \in S |-> Rank(S, i)]
  <1>1. N \in Nat
    BY FS_CardinalityType
  <1>2. IsFiniteSet(0 .. N - 1) /\ Cardinality(0 .. N - 1) = N
    <2>1. N - 1 \in Int /\ 0 \in Int
      BY <1>1
    <2>2. IsFiniteSet(0 .. N - 1)
          /\ Cardinality(0 .. N - 1) = IF 0 > N - 1 THEN 0 ELSE (N - 1) - 0 + 1
      BY <2>1, FS_Interval
    <2> HIDE DEF N
    <2> QED BY <1>1, <2>2
  <1>3. IsFiniteSet(T) /\ Cardinality(T) < N
    <2> HIDE DEF N
    <2>1. k \in 0 .. N - 1
      BY DEF N
    <2>2. IsFiniteSet(T) /\ Cardinality(T) = N - 1
      BY <1>2, <2>1, FS_RemoveElement
    <2> QED BY <1>1, <2>2
  <1>4. f \in [S -> T]
    BY RankFacts
  <1> HIDE DEF T, f
  <1>5. \E x, y \in S : x # y /\ f[x] = f[y]
    BY <1>3, <1>4, FS_PigeonHole
  <1>6. \A x, y \in S : x < y => f[x] < f[y] /\ f[x] \in Int /\ f[y] \in Int
    BY RankFacts DEF f
  <1> QED BY <1>5, <1>6

(* The sequence lists all of the set, the smaller before the larger.       *)
LEMMA InOrderFacts ==
    ASSUME NEW S \in SUBSET Int, IsFiniteSet(S)
    PROVE  /\ InOrder(S) \in Seq(S)
           /\ Cardinality(S) \in Nat
           /\ Len(InOrder(S)) = Cardinality(S)
           /\ DOMAIN InOrder(S) = 1 .. Cardinality(S)
           /\ \A i \in S : \E k \in DOMAIN InOrder(S) : InOrder(S)[k] = i
           /\ \A j, k \in DOMAIN InOrder(S) : j < k => InOrder(S)[j] < InOrder(S)[k]
  <1> DEFINE N == Cardinality(S)
             f == InOrder(S)
  <1>1. N \in Nat
    BY FS_CardinalityType
  <1>2. ASSUME NEW k \in 1 .. N PROVE f[k] \in S /\ Rank(S, f[k]) = k - 1
    <2>1. k - 1 \in 0 .. N - 1
      BY <1>1
    <2>2. \E i \in S : Rank(S, i) = k - 1
      BY <2>1, RankHit
    <2> QED BY <2>2 DEF InOrder
  <1>3. DOMAIN f = 1 .. N /\ f = [k \in 1 .. N |-> f[k]]
    BY DEF InOrder
  <1> HIDE DEF f, N
  <1>4. f \in [1 .. N -> S]
    BY <1>2, <1>3
  <1>5. f \in Seq(S) /\ Len(f) = N
    BY <1>1, <1>4
  <1>6. ASSUME NEW i \in S PROVE \E k \in 1 .. N : f[k] = i
    <2>1. Rank(S, i) \in 0 .. N - 1
      BY RankFacts DEF N
    <2> DEFINE k == Rank(S, i) + 1
    <2>2. k \in 1 .. N /\ k - 1 = Rank(S, i)
      BY <1>1, <2>1
    <2>3. f[k] \in S /\ Rank(S, f[k]) = Rank(S, i)
      BY <1>2, <2>2
    <2>4. f[k] = i
      <3>1. \A a, b \in S : a < b =>
               Rank(S, a) < Rank(S, b) /\ Rank(S, a) \in Int /\ Rank(S, b) \in Int
        BY RankFacts
      <3> HIDE DEF k
      <3>2. f[k] \in Int /\ i \in Int
        BY <2>3
      <3>3. Rank(S, i) \in Int
        BY RankFacts
      <3> DEFINE g == f[k]
      <3>4. g \in S /\ Rank(S, g) = Rank(S, i)
        BY <2>3
      <3> HIDE DEF g
      <3>5. ~(g < i)
        BY <3>1, <3>3, <3>4
      <3>6. ~(i < g)
        BY <3>1, <3>3, <3>4
      <3> QED BY <3>2, <3>5, <3>6 DEF g
    <2> QED BY <2>2, <2>4
  <1>7. ASSUME NEW j \in 1 .. N, NEW k \in 1 .. N, j < k PROVE f[j] < f[k]
    <2>1. f[j] \in S /\ f[k] \in S /\ Rank(S, f[j]) = j - 1 /\ Rank(S, f[k]) = k - 1
      BY <1>2
    <2>2. f[k] < f[j] => Rank(S, f[k]) < Rank(S, f[j])
      BY <2>1, RankFacts
    <2>3. j \in Int /\ k \in Int /\ f[j] \in Int /\ f[k] \in Int
      <3>1. j \in Int /\ k \in Int
        BY <1>1
      <3>2. \A n \in S : n \in Int
        OBVIOUS
      <3> QED BY <2>1, <3>1, <3>2
    <2>4. f[j] # f[k] /\ ~(f[k] < f[j])
      BY <1>7, <2>1, <2>2, <2>3
    <2> QED BY <2>3, <2>4
  <1> QED BY <1>1, <1>3, <1>5, <1>6, <1>7 DEF f, N

LEMMA GreatestFacts ==
    ASSUME NEW S \in SUBSET Int, IsFiniteSet(S), S # {}
    PROVE  Max(S) \in S /\ \A y \in S : Max(S) >= y
  <1> DEFINE N == Cardinality(S)
             f == InOrder(S)
  <1>1. N \in Nat /\ N # 0
    BY FS_CardinalityType, FS_EmptySet
  <1>2. f[N] \in S /\ \A y \in S : f[N] >= y
    <2>1. /\ f \in Seq(S) /\ DOMAIN f = 1 .. N /\ Len(f) = N
          /\ \A i \in S : \E k \in 1 .. N : f[k] = i
          /\ \A j, k \in 1 .. N : j < k => f[j] < f[k]
      BY InOrderFacts
    <2> HIDE DEF f, N
    <2>2. N \in 1 .. N
      BY <1>1
    <2>3. \A k \in 1 .. N : f[k] \in S /\ f[k] \in Int /\ k \in Int /\ (k < N \/ k = N)
      <3>1. \A k \in 1 .. N : k \in Int /\ (k < N \/ k = N)
        BY <1>1
      <3>2. \A k \in 1 .. N : f[k] \in S
        BY <2>1
      <3>3. \A n \in S : n \in Int
        OBVIOUS
      <3> QED BY <3>1, <3>2, <3>3
    <2>4. ASSUME NEW y \in S PROVE f[N] >= y
      <3>1. PICK k \in 1 .. N : f[k] = y
        BY <2>1
      <3>2. f[k] < f[N] \/ f[k] = f[N]
        BY <2>1, <2>2, <2>3
      <3> QED BY <2>2, <2>3, <3>1, <3>2
    <2> QED BY <2>2, <2>3, <2>4
  <1> HIDE DEF f, N
  <1> QED BY <1>2 DEF Max

LEMMA LeastExists ==
    ASSUME NEW S \in SUBSET Int, IsFiniteSet(S), S # {}
    PROVE  \E x \in S : \A y \in S : x <= y
  <1> DEFINE N == Cardinality(S)
             f == InOrder(S)
  <1>1. N \in Nat /\ N # 0
    BY FS_CardinalityType, FS_EmptySet
  <1>2. /\ f \in Seq(S) /\ DOMAIN f = 1 .. N /\ Len(f) = N
        /\ \A i \in S : \E k \in 1 .. N : f[k] = i
        /\ \A j, k \in 1 .. N : j < k => f[j] < f[k]
    BY InOrderFacts
  <1> HIDE DEF f, N
  <1>3. 1 \in 1 .. N /\ \A k \in 1 .. N : 1 < k \/ k = 1
    BY <1>1
  <1>4. \A k \in 1 .. N : f[k] \in S
    BY <1>2
  <1>5. \A n \in S : n \in Int
    OBVIOUS
  <1>6. ASSUME NEW y \in S PROVE f[1] <= y
    <2>1. PICK k \in 1 .. N : f[k] = y
      BY <1>2
    <2>2. f[1] < f[k] \/ f[1] = f[k]
      BY <1>2, <1>3
    <2>3. f[1] \in Int /\ f[k] \in Int
      BY <1>3, <1>4, <1>5
    <2> QED BY <2>1, <2>2, <2>3
  <1> QED BY <1>3, <1>4, <1>6

-----------------------------------------------------------------------------
(* The lines of records.jsonl                                              *)

(* A record has one line: write appends only records with an id of their   *)
(* own, and a rewrite lists each id once.                                  *)
OneLine(ls) == \A i, j \in DOMAIN ls : ls[i][1] = ls[j][1] => i = j

LEMMA LatestOfOne ==
    ASSUME NEW ls \in Seq(Id \X MemoryRecord), OneLine(ls)
    PROVE  /\ load_latest_records(ls) \in [Id -> MemoryRecord \cup {None}]
           /\ \A i \in DOMAIN ls : ls[i][1] \in Id /\ load_latest_records(ls)[ls[i][1]] = ls[i][2]
           /\ \A id \in Id : (\A i \in DOMAIN ls : ls[i][1] # id)
                                => load_latest_records(ls)[id] = None
  <1> DEFINE L == load_latest_records(ls)
  <1>1. \A i \in DOMAIN ls : ls[i] \in Id \X MemoryRecord /\ i \in Int
    OBVIOUS
  <1>2. \A i \in DOMAIN ls : ls[i][1] \in Id /\ ls[i][2] \in MemoryRecord
    BY <1>1
  <1>3. ASSUME NEW i \in DOMAIN ls PROVE Wins(ls, i, ls[i][1])
    BY <1>1 DEF OneLine, Wins
  <1>4. ASSUME NEW i \in DOMAIN ls PROVE L[ls[i][1]] = ls[i][2]
    <2>1. \A j \in DOMAIN ls : Wins(ls, j, ls[i][1]) => j = i
      BY DEF OneLine, Wins
    <2>2. (CHOOSE j \in DOMAIN ls : Wins(ls, j, ls[i][1])) = i
      BY <1>3, <2>1
    <2> QED BY <1>2, <1>3, <2>2 DEF load_latest_records
  <1>5. ASSUME NEW id \in Id, \A i \in DOMAIN ls : ls[i][1] # id PROVE L[id] = None
    BY <1>5 DEF load_latest_records, Wins
  <1>6. \A id \in Id : L[id] \in MemoryRecord \cup {None}
    BY <1>2, <1>4, <1>5
  <1>7. L = [id \in Id |-> L[id]]
    BY DEF load_latest_records
  <1> HIDE DEF L
  <1>8. L \in [Id -> MemoryRecord \cup {None}]
    BY <1>6, <1>7
  <1> QED BY <1>2, <1>4, <1>5, <1>8 DEF L

LEMMA AppendedLine ==
    ASSUME NEW ls \in Seq(Id \X MemoryRecord), OneLine(ls),
           NEW id \in Id, NEW r \in MemoryRecord, \A i \in DOMAIN ls : ls[i][1] # id
    PROVE  /\ Append(ls, <<id, r>>) \in Seq(Id \X MemoryRecord)
           /\ OneLine(Append(ls, <<id, r>>))
           /\ load_latest_records(Append(ls, <<id, r>>))
                 = [load_latest_records(ls) EXCEPT ![id] = r]
  <1> DEFINE m == <<id, r>>
             ms == Append(ls, m)
             L == load_latest_records(ls)
             K == load_latest_records(ms)
  <1>1. m \in Id \X MemoryRecord /\ m[1] = id /\ m[2] = r
    OBVIOUS
  <1> HIDE DEF m
  <1>2. /\ ms \in Seq(Id \X MemoryRecord) /\ Len(ls) \in Nat
        /\ DOMAIN ls = 1 .. Len(ls) /\ DOMAIN ms = 1 .. (Len(ls) + 1)
        /\ ms[Len(ls) + 1] = m /\ \A i \in DOMAIN ls : ms[i] = ls[i]
    BY <1>1
  <1> HIDE DEF ms
  <1>3. \A i \in DOMAIN ms : i \in DOMAIN ls \/ i = Len(ls) + 1
    BY <1>2
  <1>4. OneLine(ms)
    BY <1>1, <1>2, <1>3 DEF OneLine
  <1>5. /\ L \in [Id -> MemoryRecord \cup {None}]
        /\ K \in [Id -> MemoryRecord \cup {None}]
    BY <1>2, <1>4, LatestOfOne
  <1>6. K[id] = r
    <2>1. Len(ls) + 1 \in DOMAIN ms
      BY <1>2
    <2> QED BY <1>1, <1>2, <1>4, <2>1, LatestOfOne
  <1>7. ASSUME NEW x \in Id, x # id PROVE K[x] = L[x]
    <2>1. CASE \E i \in DOMAIN ls : ls[i][1] = x
      <3>1. PICK i \in DOMAIN ls : ls[i][1] = x
        BY <2>1
      <3>2. i \in DOMAIN ms /\ ms[i] = ls[i]
        BY <1>2
      <3>3. L[ls[i][1]] = ls[i][2]
        BY LatestOfOne
      <3>4. K[ms[i][1]] = ms[i][2]
        BY <1>2, <1>4, <3>2, LatestOfOne
      <3> QED BY <3>1, <3>2, <3>3, <3>4
    <2>2. CASE ~ \E i \in DOMAIN ls : ls[i][1] = x
      <3>1. \A i \in DOMAIN ms : ms[i][1] # x
        BY <1>1, <1>2, <1>3, <1>7, <2>2
      <3>2. K[x] = None
        BY <1>2, <1>4, <3>1, LatestOfOne
      <3>3. L[x] = None
        BY <2>2, LatestOfOne
      <3> QED BY <3>2, <3>3
    <2> QED BY <2>1, <2>2
  <1> HIDE DEF L, K
  <1>8. K = [L EXCEPT ![id] = r]
    BY <1>5, <1>6, <1>7
  <1> QED BY <1>2, <1>4, <1>8 DEF K, L, ms, m

LEMMA RewrittenLines ==
    ASSUME NEW latest \in [Id -> MemoryRecord \cup {None}]
    PROVE  /\ rewrite_records(latest) \in Seq(Id \X MemoryRecord)
           /\ OneLine(rewrite_records(latest))
           /\ \A i \in DOMAIN rewrite_records(latest) : latest[rewrite_records(latest)[i][1]] # None
           /\ load_latest_records(rewrite_records(latest)) = latest
  <1> DEFINE T == {i \in Id : latest[i] # None}
             ids == InOrder(T)
             ms == rewrite_records(latest)
             K == load_latest_records(ms)
             N == Cardinality(T)
  <1>1. T \in SUBSET Int /\ IsFiniteSet(T)
    <2>1. IsFiniteSet(1 .. MaxRecords)
      BY BoundAssumption, FS_Interval
    <2>2. T \in SUBSET (1 .. MaxRecords)
      BY DEF Id
    <2>3. \A n \in 1 .. MaxRecords : n \in Int
      BY BoundAssumption
    <2> HIDE DEF T
    <2> QED BY <2>1, <2>2, <2>3, FS_Subset
  <1>2. /\ ids \in Seq(T) /\ N \in Nat
        /\ DOMAIN ids = 1 .. N
        /\ \A i \in T : \E k \in DOMAIN ids : ids[k] = i
        /\ \A j, k \in DOMAIN ids : j < k => ids[j] < ids[k]
    <2> HIDE DEF T
    <2> QED BY <1>1, InOrderFacts
  <1>3. \A k \in DOMAIN ids :
           ids[k] \in Id /\ latest[ids[k]] \in MemoryRecord /\ latest[ids[k]] # None
    <2>1. \A k \in DOMAIN ids : ids[k] \in T
      <3> HIDE DEF T, ids
      <3> QED BY <1>2
    <2> HIDE DEF ids
    <2> QED BY <2>1
  <1>4. ms = [k \in 1 .. N |-> <<ids[k], latest[ids[k]]>>]
    BY <1>2 DEF rewrite_records
  <1>5. /\ DOMAIN ms = 1 .. N
        /\ \A k \in 1 .. N : /\ ms[k] \in Id \X MemoryRecord
                             /\ ms[k][1] = ids[k] /\ ms[k][2] = latest[ids[k]]
    <2> HIDE DEF T, ids, ms, N
    <2> QED BY <1>2, <1>3, <1>4
  <1>6. ms \in Seq(Id \X MemoryRecord)
    <2>1. ms \in [1 .. N -> Id \X MemoryRecord]
      <3> HIDE DEF T, ids, ms, N
      <3> QED BY <1>4, <1>5
    <2> HIDE DEF T, ids, ms, N
    <2> QED BY <1>2, <2>1
  <1>7. OneLine(ms)
    <2>1. \A k \in DOMAIN ids : k \in Int /\ ids[k] \in Int
      <3>1. \A x \in Id : x \in Int
        BY DEF Id
      <3> HIDE DEF T, ids, ms, N
      <3> QED BY <1>2, <1>3, <3>1
    <2>2. ASSUME NEW j \in DOMAIN ms, NEW k \in DOMAIN ms, ms[j][1] = ms[k][1] PROVE j = k
      <3> HIDE DEF T, ids, ms, N
      <3>1. j \in DOMAIN ids /\ k \in DOMAIN ids /\ ids[j] = ids[k]
        BY <1>2, <1>5, <2>2
      <3>2. ~(j < k) /\ ~(k < j)
        BY <1>2, <2>1, <3>1
      <3> QED BY <2>1, <3>1, <3>2
    <2> QED BY <2>2 DEF OneLine
  <1> HIDE DEF ids, ms, N
  <1>8. \A i \in DOMAIN ms : latest[ms[i][1]] # None
    BY <1>2, <1>3, <1>5
  <1>9. ASSUME NEW x \in Id PROVE K[x] = latest[x]
    <2>1. CASE latest[x] # None
      <3>1. PICK k \in DOMAIN ids : ids[k] = x
        BY <1>2, <2>1
      <3>2. k \in DOMAIN ms /\ ms[k][1] = x /\ ms[k][2] = latest[x]
        BY <1>2, <1>5, <3>1
      <3> QED BY <1>6, <1>7, <3>2, LatestOfOne
    <2>2. CASE latest[x] = None
      <3>1. \A i \in DOMAIN ms : ms[i][1] # x
        BY <1>8, <2>2
      <3> QED BY <1>6, <1>7, <2>2, <3>1, LatestOfOne
    <2> QED BY <2>1, <2>2
  <1>10. K \in [Id -> MemoryRecord \cup {None}]
    BY <1>6, <1>7, LatestOfOne
  <1> HIDE DEF K
  <1>11. K = latest
    BY <1>9, <1>10
  <1> QED BY <1>6, <1>7, <1>8, <1>11 DEF K, ms

-----------------------------------------------------------------------------
(* The inductive invariant of the stores                                   *)

(* What has a line was handed out.                                         *)
LinesKnown == \A i \in DOMAIN lines : expected[lines[i][1]] # {None}

FileInv ==
    /\ lines \in Seq(Id \X MemoryRecord)
    /\ expected \in [Id -> SUBSET (MemoryRecord \cup {None})]
    /\ OneLine(lines)
    /\ LinesKnown
    /\ LoadReturnsAcknowledged

AcknowledgedInv == TypeOK /\ FileInv

LEMMA FreshIdFresh ==
    ASSUME TypeOK, FreshId \in Id
    PROVE  records[FreshId] = None /\ expected[FreshId] = {None}
  <1> DEFINE U == {0} \cup {i \in Id : records[i] # None \/ expected[i] # {None}}
  <1>1. U \in SUBSET Int /\ IsFiniteSet(U) /\ U # {} /\ \A i \in U : i \in Int
    <2>1. IsFiniteSet(0 .. MaxRecords)
      BY BoundAssumption, FS_Interval
    <2>2. U \in SUBSET (0 .. MaxRecords) /\ 0 \in U
      BY BoundAssumption DEF Id
    <2>3. \A n \in 0 .. MaxRecords : n \in Int
      BY BoundAssumption
    <2> HIDE DEF U
    <2> QED BY <2>1, <2>2, <2>3, FS_Subset
  <1>2. FreshId = 1 + Max(U)
    BY DEF FreshId
  <1> HIDE DEF U
  <1>3. Max(U) \in U /\ \A y \in U : Max(U) >= y
    BY <1>1, GreatestFacts
  <1> DEFINE m == Max(U)
  <1>4. FreshId = 1 + m /\ m \in Int /\ \A y \in U : y \in Int /\ m >= y
    BY <1>1, <1>2, <1>3
  <1> HIDE DEF m
  <1>5. FreshId \notin U
    BY <1>4
  <1> QED BY <1>5 DEF U

(* The records that the operations write.                                  *)
LEMMA NewRecord ==
    ASSUME NEW kind \in Kind, NEW name \in Name \cup {None}, NEW c \in Content,
           NEW scope \in Scope \cup {None}, NEW t \in 0 .. MaxTime
    PROVE  /\ new_record(kind, name, c, scope, t) \in MemoryRecord
           /\ new_record(kind, name, c, scope, t).kind = kind
           /\ new_record(kind, name, c, scope, t).name = name
           /\ new_record(kind, name, c, scope, t).content = c
           /\ ~new_record(kind, name, c, scope, t).deleted
           /\ new_record(kind, name, c, scope, t).updated_at = t
  BY DEF new_record, MemoryRecord

LEMMA ContentUpdated ==
    ASSUME NEW old \in MemoryRecord, NEW c \in Content, NEW t \in 0 .. MaxTime
    PROVE  LET r == [old EXCEPT !["content"] = c, !.updated_at = t] IN
           /\ r \in MemoryRecord /\ r.kind = old.kind /\ r.name = old.name
           /\ r.deleted = old.deleted /\ r.content = c /\ r.updated_at = t
  BY DEF MemoryRecord

LEMMA NameUpdated ==
    ASSUME NEW old \in MemoryRecord, NEW n \in Name, NEW t \in 0 .. MaxTime
    PROVE  LET r == [old EXCEPT !["name"] = n, !.updated_at = t] IN
           /\ r \in MemoryRecord /\ r.kind = old.kind /\ r.name = n
           /\ r.deleted = old.deleted /\ r.content = old.content /\ r.updated_at = t
  BY DEF MemoryRecord

LEMMA MarkedDeleted ==
    ASSUME NEW old \in MemoryRecord, NEW t \in 0 .. MaxTime
    PROVE  LET r == [old EXCEPT !.deleted = TRUE, !.updated_at = t] IN
           /\ r \in MemoryRecord /\ r.kind = old.kind /\ r.name = old.name
           /\ r.deleted /\ r.content = old.content /\ r.updated_at = t
  BY DEF MemoryRecord

(* An append or a rewrite makes exactly the new version the latest one.    *)
LEMMA AppendKeepsFile ==
    ASSUME FileInv, NEW id \in Id, NEW r \in MemoryRecord, NEW may \in SUBSET {None},
           expected[id] = {None}, lines' = Append(lines, <<id, r>>),
           expected' = [expected EXCEPT ![id] = may \cup {r}], torn => torn'
    PROVE  /\ FileInv'
           /\ load_latest_records(lines)' = [load_latest_records(lines) EXCEPT ![id] = r]
  <1>1. \A i \in DOMAIN lines : lines[i][1] # id
    BY DEF FileInv, LinesKnown
  <1>2. /\ lines' \in Seq(Id \X MemoryRecord) /\ OneLine(lines')
        /\ load_latest_records(lines') = [load_latest_records(lines) EXCEPT ![id] = r]
    BY <1>1, AppendedLine, SMTT(30) DEF FileInv
  <1>3. /\ load_latest_records(lines) \in [Id -> MemoryRecord \cup {None}]
        /\ \A i \in DOMAIN lines : lines[i][1] \in Id
    BY LatestOfOne DEF FileInv
  <1>4. LinesKnown'
    <2>1. r # None
      BY NoneAssumption
    <2> DEFINE m == <<id, r>>
    <2>2. m[1] = id /\ m \in Id \X MemoryRecord /\ lines' = Append(lines, m)
      OBVIOUS
    <2> HIDE DEF m
    <2>3. \A i \in DOMAIN lines' : lines'[i][1] = id \/ (i \in DOMAIN lines /\ lines'[i] = lines[i])
      BY <2>2 DEF FileInv
    <2>4. ASSUME NEW i \in DOMAIN lines' PROVE expected'[lines'[i][1]] # {None}
      BY <1>3, <2>1, <2>3 DEF FileInv, LinesKnown
    <2> QED BY <2>4 DEF LinesKnown
  <1>5. expected' \in [Id -> SUBSET (MemoryRecord \cup {None})]
    BY DEF FileInv
  <1>6. LoadReturnsAcknowledged'
    BY <1>2, <1>3 DEF FileInv, LoadReturnsAcknowledged
  <1> QED BY <1>2, <1>4, <1>5, <1>6 DEF FileInv

LEMMA RewriteKeepsFile ==
    ASSUME FileInv, NEW id \in Id, NEW r \in MemoryRecord, FileRewrite(id, r), torn' = torn
    PROVE  /\ FileInv'
           /\ ~torn /\ Live(load_latest_records(lines)[id]) =>
                 load_latest_records(lines)' = [load_latest_records(lines) EXCEPT ![id] = r]
  <1>1. CASE torn \/ ~Live(load_latest_records(lines)[id])
    BY <1>1 DEF FileRewrite, FileInv, LinesKnown, LoadReturnsAcknowledged
  <1>2. CASE ~torn /\ Live(load_latest_records(lines)[id])
    <2> DEFINE L == load_latest_records(lines)
               K == [L EXCEPT ![id] = r]
    <2>1. L \in [Id -> MemoryRecord \cup {None}]
      BY LatestOfOne DEF FileInv
    <2>2. /\ lines' = rewrite_records(K)
          /\ expected' = [expected EXCEPT ![id] = {r}]
      BY <1>2 DEF FileRewrite
    <2>3. \A x \in Id : L[x] \in expected[x]
      BY <1>2 DEF FileInv, LoadReturnsAcknowledged
    <2> HIDE DEF L
    <2>4. K \in [Id -> MemoryRecord \cup {None}]
      BY <2>1
    <2> HIDE DEF K
    <2>5. /\ lines' \in Seq(Id \X MemoryRecord) /\ OneLine(lines')
          /\ \A i \in DOMAIN lines' : K[lines'[i][1]] # None
          /\ load_latest_records(lines') = K
      BY <2>2, <2>4, RewrittenLines
    <2>6. \A i \in DOMAIN lines' : lines'[i][1] \in Id
      BY <2>5, LatestOfOne
    <2>7. expected' \in [Id -> SUBSET (MemoryRecord \cup {None})]
      BY <2>2 DEF FileInv
    <2>8. \A x \in Id : K[x] \in expected'[x]
      BY <2>1, <2>2, <2>3 DEF FileInv, K
    <2>9. LinesKnown' /\ LoadReturnsAcknowledged'
      <3>1. \A i \in DOMAIN lines' : expected'[lines'[i][1]] # {None}
        BY <2>5, <2>6, <2>8
      <3> QED BY <2>5, <2>8, <3>1 DEF LinesKnown, LoadReturnsAcknowledged
    <2> QED BY <2>5, <2>7, <2>9 DEF FileInv, K, L
  <1> QED BY <1>1, <1>2

LEMMA AcknowledgedInit == Init => AcknowledgedInv
  <1> SUFFICES ASSUME Init PROVE AcknowledgedInv
    OBVIOUS
  <1>1. TypeOK
    <2>1. lines \in Seq(Id \X MemoryRecord)
      BY DEF Init
    <2>2. now \in 0 .. MaxTime /\ ties \in Nat /\ setbacks \in Nat
      BY BoundAssumption DEF Init
    <2> QED BY <2>1, <2>2 DEF Init, TypeOK
  <1>2. lines = <<>> /\ DOMAIN lines = {} /\ OneLine(lines)
    BY DEF Init, OneLine
  <1>3. \A id \in Id : load_latest_records(lines)[id] = None
    BY <1>1, <1>2, LatestOfOne DEF TypeOK
  <1> QED BY <1>1, <1>2, <1>3
          DEF Init, TypeOK, AcknowledgedInv, FileInv, LinesKnown, LoadReturnsAcknowledged

LEMMA ClockTyped ==
    ASSUME TypeOK, NEW t \in Time, ReadClock(t)
    PROVE  t \in 0 .. MaxTime /\ now' \in 0 .. MaxTime /\ ties' \in Nat /\ setbacks' \in Nat
  BY DEF TypeOK, Time, ReadClock

LEMMA IndexTyped ==
    ASSUME NEW index \in [Name -> Id \cup {None}], NEW id \in Id, NEW r \in MemoryRecord,
           NEW name \in Name \cup {None}
    PROVE  /\ sync_note_index(index, id, r) \in [Name -> Id \cup {None}]
           /\ remove_stale_note_index(index, name, id) \in [Name -> Id \cup {None}]
  <1>1. r.name \in Name \cup {None}
    BY DEF MemoryRecord
  <1> QED BY <1>1 DEF sync_note_index, remove_stale_note_index

(* The latest version of a note the file store would write to is live.     *)
LEMMA LatestNote ==
    ASSUME TypeOK, FileInv, NEW n \in Name, latest_note_by_name(n) # None
    PROVE  /\ latest_note_by_name(n) \in Id
           /\ IsNote(load_latest_records(lines)[latest_note_by_name(n)], n)
  <1> DEFINE L == load_latest_records(lines)
             C == {id \in Id : IsNote(L[id], n)}
             Best(id) == \A other \in C :
                            \/ L[id].updated_at > L[other].updated_at
                            \/ L[id].updated_at = L[other].updated_at /\ id <= other
  <1>1. C # {} /\ latest_note_by_name(n) = CHOOSE id \in C : Best(id)
    BY DEF latest_note_by_name
  <1>2. L \in [Id -> MemoryRecord \cup {None}]
    BY LatestOfOne DEF FileInv
  <1>3. \A id \in C : id \in Id /\ L[id].updated_at \in 0 .. MaxTime
    BY <1>2 DEF IsNote, Live, MemoryRecord
  <1> HIDE DEF L, C
  <1>4. PICK top \in Int : /\ \E id \in C : L[id].updated_at = top
                           /\ \A id \in C : top >= L[id].updated_at
    <2> DEFINE T == {L[id].updated_at : id \in C}
    <2>1. T \in SUBSET (0 .. MaxTime) /\ T # {}
      BY <1>1, <1>3
    <2>2. \A x \in 0 .. MaxTime : x \in Int
      BY BoundAssumption
    <2>3. IsFiniteSet(0 .. MaxTime)
      BY BoundAssumption, FS_Interval
    <2>4. Max(T) \in T /\ \A y \in T : Max(T) >= y
      <3> HIDE DEF T
      <3>1. T \in SUBSET Int /\ IsFiniteSet(T)
        BY <2>1, <2>2, <2>3, FS_Subset
      <3> QED BY <2>1, <3>1, GreatestFacts
    <2>5. Max(T) \in Int
      <3> HIDE DEF T
      <3> QED BY <2>1, <2>2, <2>4
    <2> QED BY <2>4, <2>5
  <1>5. PICK id \in C : L[id].updated_at = top /\ \A y \in C : L[y].updated_at = top => id <= y
    <2> DEFINE D == {x \in C : L[x].updated_at = top}
    <2>1. D \in SUBSET (1 .. MaxRecords) /\ D # {}
      BY <1>3, <1>4 DEF Id
    <2>2. \A x \in 1 .. MaxRecords : x \in Int
      BY BoundAssumption
    <2>3. IsFiniteSet(1 .. MaxRecords)
      BY BoundAssumption, FS_Interval
    <2>4. \E x \in D : \A y \in D : x <= y
      <3> HIDE DEF D
      <3>1. D \in SUBSET Int /\ IsFiniteSet(D)
        BY <2>1, <2>2, <2>3, FS_Subset
      <3> QED BY <2>1, <3>1, LeastExists
    <2> QED BY <2>4
  <1>6. Best(id)
    <2>1. \A y \in C : L[y].updated_at \in Int
      BY <1>3, BoundAssumption
    <2> QED BY <1>4, <1>5, <2>1
  <1>7. latest_note_by_name(n) \in C
    BY <1>1, <1>6
  <1> QED BY <1>7 DEF C, L

LEMMA WriteKeeps ==
    ASSUME AcknowledgedInv, NEW t \in Time, ReadClock(t), FreshId \in Id,
           NEW r \in MemoryRecord, WriteRecord(FreshId, r), UNCHANGED <<orphaned, restarted>>
    PROVE  AcknowledgedInv'
  <1>1. expected[FreshId] = {None}
    BY FreshIdFresh DEF AcknowledgedInv
  <1>2. expected' = [expected EXCEPT ![FreshId] = {} \cup {r}]
    BY DEF WriteRecord, FileAppend
  <1>3. FileInv'
    <2>1. lines' = Append(lines, <<FreshId, r>>) /\ (torn => torn')
      BY DEF WriteRecord, FileAppend
    <2>2. {} \in SUBSET {None}
      OBVIOUS
    <2> QED BY <1>1, <1>2, <2>1, <2>2, AppendKeepsFile DEF AcknowledgedInv
  <1>4. note_index' \in [Name -> Id \cup {None}]
    BY IndexTyped, NoneAssumption DEF AcknowledgedInv, TypeOK, WriteRecord, MemoryWrite
  <1> QED BY <1>3, <1>4, ClockTyped
          DEF AcknowledgedInv, TypeOK, FileInv, WriteRecord, MemoryWrite

LEMMA AcknowledgedNext == AcknowledgedInv /\ [Next]_vars => AcknowledgedInv'
  <1> SUFFICES ASSUME AcknowledgedInv, [Next]_vars PROVE AcknowledgedInv'
    OBVIOUS
  <1> USE DEF AcknowledgedInv
  <1>1. CASE UNCHANGED vars
    BY <1>1 DEF vars, TypeOK, FileInv, LinesKnown, LoadReturnsAcknowledged
  <1>2. ASSUME NEW n \in Name, NEW c \in Content, NEW scope \in Scope, NEW t \in Time,
               ToolWriteNote(n, c, scope, t)
        PROVE  AcknowledgedInv'
    <2>1. t \in 0 .. MaxTime
      BY <1>2, ClockTyped DEF ToolWriteNote
    <2>2. new_record("note", n, c, scope, t) \in MemoryRecord
      BY <2>1, NewRecord DEF Kind
    <2> QED BY <1>2, <2>2, WriteKeeps DEF ToolWriteNote
  <1>3. ASSUME NEW kind \in SavedKind, NEW c \in Content \cup {Blank}, NEW scope \in Scope,
               NEW t \in Time, ToolSaveMemory(kind, c, scope, t)
        PROVE  AcknowledgedInv'
    <2>1. t \in 0 .. MaxTime
      BY <1>3, ClockTyped DEF ToolSaveMemory
    <2>2. new_record(kind, None, c, scope, t) \in MemoryRecord
      BY <1>3, <2>1, NewRecord, BoundAssumption DEF ToolSaveMemory
    <2> QED BY <1>3, <2>2, WriteKeeps DEF ToolSaveMemory
  <1>4. ASSUME NEW n \in Name, NEW c \in Content, NEW t \in Time, StoreWriteNote(n, c, t)
        PROVE  AcknowledgedInv'
    <2> DEFINE m == note_index[n]
               f == latest_note_by_name(n)
               new == new_record("note", n, c, None, t)
               old == load_latest_records(lines)[f]
    <2>1. t \in 0 .. MaxTime /\ now' \in 0 .. MaxTime /\ ties' \in Nat /\ setbacks' \in Nat
      BY <1>4, ClockTyped DEF StoreWriteNote
    <2>2. new \in MemoryRecord
      BY <2>1, NewRecord DEF Kind
    <2>3. FreshId \in Id /\ torn' = torn /\ UNCHANGED <<orphaned, restarted>>
      BY <1>4 DEF StoreWriteNote
    <2>4. records' \in [Id -> MemoryRecord \cup {None}] /\ note_index' \in [Name -> Id \cup {None}]
      <3>1. CASE memory_read_note(n) # None
        <4>1. m \in Id /\ Live(records[m]) /\ records[m] \in MemoryRecord
          BY <3>1 DEF TypeOK, memory_read_note, Live
        <4> DEFINE r == [records[m] EXCEPT !["content"] = c, !.updated_at = t]
        <4>2. records' = [records EXCEPT ![m].content = c, ![m].updated_at = t]
          BY <1>4, <3>1 DEF StoreWriteNote
        <4>3. note_index' = note_index
          BY <1>4, <3>1 DEF StoreWriteNote
        <4>4. records' = [records EXCEPT ![m] = r]
          BY <4>1, <4>2 DEF TypeOK
        <4>5. r \in MemoryRecord
          BY <2>1, <4>1, ContentUpdated
        <4> HIDE DEF r
        <4> QED BY <4>1, <4>3, <4>4, <4>5 DEF TypeOK
      <3>2. CASE memory_read_note(n) = None
        <4>1. MemoryWrite(FreshId, new)
          BY <1>4, <3>2 DEF StoreWriteNote
        <4> QED BY <2>2, <2>3, <4>1, IndexTyped DEF MemoryWrite, TypeOK
      <3> QED BY <3>1, <3>2
    <2>5. FileInv'
      <3>1. CASE torn
        BY <1>4, <3>1 DEF StoreWriteNote, FileInv, LinesKnown, LoadReturnsAcknowledged
      <3>2. CASE ~torn /\ f = None
        <4>1. FileAppend(FreshId, new)
          BY <1>4, <3>2 DEF StoreWriteNote
        <4>2. expected' = [expected EXCEPT ![FreshId] = {} \cup {new}]
          BY <4>1 DEF FileAppend
        <4>3. lines' = Append(lines, <<FreshId, new>>) /\ (torn => torn')
          BY <2>3, <4>1 DEF FileAppend
        <4>4. {} \in SUBSET {None} /\ expected[FreshId] = {None}
          BY <2>3, FreshIdFresh
        <4> HIDE DEF new
        <4> QED BY <2>2, <2>3, <4>2, <4>3, <4>4, AppendKeepsFile
      <3>3. CASE ~torn /\ f # None
        <4>1. FileRewrite(f, [old EXCEPT !.content = c, !.updated_at = t])
          BY <1>4, <3>3 DEF StoreWriteNote
        <4>2. f \in Id /\ IsNote(old, n)
          BY <3>3, LatestNote
        <4>3. old \in MemoryRecord
          <5>1. load_latest_records(lines) \in [Id -> MemoryRecord \cup {None}]
            BY LatestOfOne DEF FileInv
          <5> QED BY <4>2, <5>1 DEF IsNote, Live
        <4> HIDE DEF old, f
        <4>4. [old EXCEPT !.content = c, !.updated_at = t] \in MemoryRecord
          BY <2>1, <4>3, ContentUpdated
        <4> QED BY <2>3, <4>1, <4>2, <4>4, RewriteKeepsFile
      <3> QED BY <3>1, <3>2, <3>3
    <2> QED BY <2>1, <2>3, <2>4, <2>5 DEF TypeOK, FileInv
  <1>5. ASSUME NEW id \in Id, NEW r \in MemoryRecord, NEW t \in Time, Live(records[id]),
               ReadClock(t), records' = [records EXCEPT ![id] = r],
               note_index' \in [Name -> Id \cup {None}],
               FileRewrite(id, r), orphaned' \in BOOLEAN, UNCHANGED <<torn, restarted>>
        PROVE  AcknowledgedInv'
    <2>1. FileInv'
      BY <1>5, RewriteKeepsFile
    <2> QED BY <1>5, <2>1, ClockTyped DEF TypeOK, FileInv
  <1>6. ASSUME NEW id \in Id, NEW t \in Time, NEW field, NEW value,
               StoreUpdate(id, field, value, t),
               [records[id] EXCEPT ![field] = value, !.updated_at = t] \in MemoryRecord
        PROVE  AcknowledgedInv'
    <2> DEFINE r == [records[id] EXCEPT ![field] = value, !.updated_at = t]
    <2>1. records[id] \in MemoryRecord /\ records[id].name \in Name \cup {None}
      BY <1>6 DEF StoreUpdate, TypeOK, Live, MemoryRecord
    <2>2. note_index' =
             sync_note_index(remove_stale_note_index(note_index, records[id].name, id), id, r)
      BY <1>6 DEF StoreUpdate
    <2>3. r \in MemoryRecord
      BY <1>6
    <2>4. /\ Live(records[id]) /\ ReadClock(t) /\ records' = [records EXCEPT ![id] = r]
          /\ FileRewrite(id, r) /\ orphaned' \in BOOLEAN /\ UNCHANGED <<torn, restarted>>
      BY <1>6 DEF StoreUpdate, TypeOK
    <2> HIDE DEF r
    <2>5. note_index' \in [Name -> Id \cup {None}]
      BY <2>1, <2>2, <2>3, IndexTyped DEF TypeOK
    <2> QED BY <1>5, <2>3, <2>4, <2>5
  <1>7. ASSUME NEW id \in Id, NEW c \in Content, NEW t \in Time, StoreUpdate(id, "content", c, t)
        PROVE  AcknowledgedInv'
    <2>1. records[id] \in MemoryRecord /\ t \in 0 .. MaxTime
      BY <1>7, ClockTyped DEF StoreUpdate, TypeOK, Live
    <2> QED BY <1>6, <1>7, <2>1, ContentUpdated
  <1>8. ASSUME NEW id \in Id, NEW n \in Name, NEW t \in Time, StoreUpdate(id, "name", n, t)
        PROVE  AcknowledgedInv'
    <2>1. records[id] \in MemoryRecord /\ t \in 0 .. MaxTime
      BY <1>8, ClockTyped DEF StoreUpdate, TypeOK, Live
    <2> QED BY <1>6, <1>8, <2>1, NameUpdated
  <1>9. ASSUME NEW id \in Id, NEW t \in Time, StoreDelete(id, t) PROVE AcknowledgedInv'
    <2> DEFINE r == [records[id] EXCEPT !.deleted = TRUE, !.updated_at = t]
    <2>1. /\ records[id] \in MemoryRecord /\ records[id].name \in Name \cup {None}
          /\ t \in 0 .. MaxTime
      BY <1>9, ClockTyped DEF StoreDelete, TypeOK, Live, MemoryRecord
    <2>2. r \in MemoryRecord
      BY <2>1, MarkedDeleted
    <2>3. note_index' \in [Name -> Id \cup {None}]
      BY <1>9, <2>1, IndexTyped DEF StoreDelete, TypeOK
    <2>4. /\ Live(records[id]) /\ ReadClock(t) /\ records' = [records EXCEPT ![id] = r]
          /\ FileRewrite(id, r) /\ orphaned' \in BOOLEAN /\ UNCHANGED <<torn, restarted>>
      BY <1>9 DEF StoreDelete, TypeOK
    <2> HIDE DEF r
    <2> QED BY <1>5, <2>2, <2>3, <2>4
  <1>10. ASSUME NEW n \in Name, NEW c \in Content, NEW scope \in Scope,
                NEW outcome \in {"missing", "whole", "torn"}, DieInWrite(n, c, scope, outcome)
         PROVE  AcknowledgedInv'
    <2> DEFINE r == new_record("note", n, c, scope, now)
    <2>1. r \in MemoryRecord
      BY NewRecord DEF Kind, TypeOK
    <2>2. /\ FreshId \in Id /\ MemoryLost /\ UNCHANGED <<now, ties, setbacks, orphaned>>
          /\ torn' = (torn \/ outcome = "torn")
          /\ expected' = [expected EXCEPT ![FreshId] = {None} \cup {r}]
      BY <1>10 DEF DieInWrite
    <2>3. lines' = IF outcome = "whole" THEN Append(lines, <<FreshId, r>>) ELSE lines
      BY <1>10 DEF DieInWrite
    <2> HIDE DEF r
    <2>4. FileInv'
      <3>1. CASE outcome = "whole"
        BY <2>1, <2>2, <2>3, <3>1, FreshIdFresh, AppendKeepsFile DEF TypeOK
      <3>2. CASE outcome # "whole"
        <4>1. r # None /\ expected[FreshId] = {None}
          BY <2>1, <2>2, NoneAssumption, FreshIdFresh
        <4>2. \A i \in DOMAIN lines : lines[i][1] \in Id
          BY LatestOfOne DEF FileInv
        <4> QED BY <2>1, <2>2, <2>3, <3>2, <4>1, <4>2
                DEF FileInv, LinesKnown, LoadReturnsAcknowledged
      <3> QED BY <3>1, <3>2
    <2> QED BY <2>2, <2>4 DEF MemoryLost, TypeOK, FileInv
  <1>11. ASSUME NEW id \in Id, NEW replaced \in BOOLEAN, DieInDelete(id, replaced)
         PROVE  AcknowledgedInv'
    <2> DEFINE r == [records[id] EXCEPT !.deleted = TRUE, !.updated_at = now]
    <2>1. r \in MemoryRecord
      <3>1. records[id] \in MemoryRecord /\ now \in 0 .. MaxTime
        BY <1>11 DEF DieInDelete, Live, TypeOK
      <3> QED BY <3>1, MarkedDeleted
    <2>2. MemoryLost /\ UNCHANGED <<torn, now, ties, setbacks, orphaned>>
      BY <1>11 DEF DieInDelete
    <2>3. CASE replaced
      <3>1. FileRewrite(id, r)
        BY <1>11, <2>3 DEF DieInDelete
      <3> HIDE DEF r
      <3> QED BY <2>1, <2>2, <3>1, RewriteKeepsFile DEF MemoryLost, TypeOK, FileInv
    <2>4. CASE ~replaced
      <3>1. lines' = lines /\ expected' = [expected EXCEPT ![id] = expected[id] \cup {r}]
        BY <1>11, <2>4 DEF DieInDelete
      <3>2. \A i \in DOMAIN lines : lines[i][1] \in Id
        BY LatestOfOne DEF FileInv
      <3>3. r # None
        BY <2>1, NoneAssumption
      <3> HIDE DEF r
      <3>4. FileInv'
        BY <2>1, <2>2, <3>1, <3>2, <3>3 DEF FileInv, LinesKnown, LoadReturnsAcknowledged
      <3> QED BY <2>2, <3>4 DEF MemoryLost, TypeOK, FileInv
    <2> QED BY <2>3, <2>4
  <1> QED BY <1>1, <1>2, <1>3, <1>4, <1>7, <1>8, <1>9, <1>10, <1>11 DEF Next

(* A load returns for every record the version last acknowledged, or the   *)
(* one that was being written when the process died, or it raises: however *)
(* often FileMemoryStore's process dies and however the clock is set.      *)
THEOREM StoresLoadAcknowledged == Spec => []LoadReturnsAcknowledged
  <1>1. AcknowledgedInv => LoadReturnsAcknowledged
    BY DEF AcknowledgedInv, FileInv
  <1> QED BY <1>1, AcknowledgedInit, AcknowledgedNext, PTL DEF Spec

-----------------------------------------------------------------------------
(* The index and the time stamps                                           *)

Older(recs, id, n) ==
    \A j \in Id \ {id} : IsNote(recs[j], n) => recs[j].updated_at < recs[id].updated_at

(* The index names the one newest live note of each name.                  *)
Indexed(recs, index) ==
    \A n \in Name :
        \/ index[n] = None /\ \A j \in Id : ~IsNote(recs[j], n)
        \/ index[n] \in Id /\ IsNote(recs[index[n]], n) /\ Older(recs, index[n], n)

Dated(recs, t) == \A j \in Id : recs[j] # None => recs[j].updated_at <= t

Recs == [Id -> MemoryRecord \cup {None}]
Indices == [Name -> Id \cup {None}]

LEMMA IntTimes ==
    ASSUME NEW r \in MemoryRecord
    PROVE  /\ r.updated_at \in Int
           /\ r # None
           /\ r.kind \in Kind /\ r.name \in Name \cup {None} /\ r.deleted \in BOOLEAN
  BY BoundAssumption, NoneAssumption DEF MemoryRecord

LEMMA PutDated ==
    ASSUME NEW recs \in Recs, NEW t0 \in Int, NEW t \in Int, t0 < t, Dated(recs, t0),
           NEW id \in Id, NEW r \in MemoryRecord, r.updated_at = t
    PROVE  /\ Dated([recs EXCEPT ![id] = r], t)
           /\ \A j \in Id \ {id} : recs[j] # None =>
                 recs[j].updated_at < r.updated_at
  <1>1. \A j \in Id : recs[j] # None => recs[j].updated_at \in Int /\ recs[j].updated_at <= t0
    BY IntTimes DEF Recs, Dated
  <1>2. \A j \in Id : recs[j] # None => recs[j].updated_at < t
    BY <1>1
  <1>3. \A j \in Id : recs[j] # None => recs[j].updated_at <= t
    BY <1>1
  <1>4. t <= t
    OBVIOUS
  <1> QED BY <1>2, <1>3, <1>4 DEF Recs, Dated

LEMMA PutNote ==
    ASSUME NEW recs \in Recs, NEW index \in Indices, Indexed(recs, index),
           NEW id \in Id, NEW r \in MemoryRecord, NEW n \in Name, IsNote(r, n),
           \A j \in Id \ {id} : recs[j] # None => recs[j].updated_at < r.updated_at,
           \A o \in Name \ {n} : ~IsNote(recs[id], o)
    PROVE  Indexed([recs EXCEPT ![id] = r], [index EXCEPT ![n] = id])
  <1> DEFINE R == [recs EXCEPT ![id] = r]
             X == [index EXCEPT ![n] = id]
  <1>1. R[id] = r /\ \A j \in Id \ {id} : R[j] = recs[j]
    BY DEF Recs
  <1>2. X[n] = id /\ \A o \in Name \ {n} : X[o] = index[o]
    BY DEF Indices
  <1> HIDE DEF R, X
  <1>3. IsNote(R[id], n) /\ Older(R, id, n)
    BY <1>1 DEF Older, IsNote, Live
  <1>4. ASSUME NEW o \in Name, o # n
        PROVE  \/ X[o] = None /\ \A j \in Id : ~IsNote(R[j], o)
               \/ X[o] \in Id /\ IsNote(R[X[o]], o) /\ Older(R, X[o], o)
    <2>1. ~IsNote(recs[id], o) /\ ~IsNote(R[id], o)
      BY <1>1, <1>4 DEF IsNote, Live
    <2> QED BY <1>1, <1>2, <1>4, <2>1 DEF Indexed, Older
  <1>5. Indexed(R, X)
    BY <1>2, <1>3, <1>4 DEF Indexed
  <1> QED BY <1>5 DEF R, X

LEMMA PutOther ==
    ASSUME NEW recs \in Recs, NEW index \in Indices, Indexed(recs, index),
           NEW id \in Id, NEW r \in MemoryRecord,
           \A n \in Name : ~IsNote(r, n) /\ ~IsNote(recs[id], n)
    PROVE  Indexed([recs EXCEPT ![id] = r], index)
  <1> DEFINE R == [recs EXCEPT ![id] = r]
  <1>1. R[id] = r /\ \A j \in Id \ {id} : R[j] = recs[j]
    BY DEF Recs
  <1> HIDE DEF R
  <1>2. \A n \in Name : index[n] \in Id => index[n] # id
    BY NoneAssumption DEF Indexed
  <1>3. Indexed(R, index)
    BY <1>1, <1>2 DEF Indexed, Older
  <1> QED BY <1>3 DEF R

(* A name whose only note goes away leaves the index.                      *)
LEMMA DropNote ==
    ASSUME NEW recs \in Recs, NEW index \in Indices, Indexed(recs, index),
           NEW id \in Id, NEW r \in MemoryRecord, NEW o \in Name, IsNote(recs[id], o),
           \A n \in Name : ~IsNote(r, n),
           ~ \E j \in Id \ {id} : IsNote(recs[j], o)
    PROVE  Indexed([recs EXCEPT ![id] = r], remove_stale_note_index(index, o, id))
  <1> DEFINE R == [recs EXCEPT ![id] = r]
             X == remove_stale_note_index(index, o, id)
  <1>1. R[id] = r /\ \A j \in Id \ {id} : R[j] = recs[j]
    BY DEF Recs
  <1>2. index[o] = id
    BY DEF Indexed
  <1>3. X[o] = None /\ \A n \in Name \ {o} : X[n] = index[n]
    BY <1>2, NoneAssumption DEF Indices, remove_stale_note_index
  <1> HIDE DEF R, X
  <1>4. \A n \in Name \ {o} : ~IsNote(recs[id], n)
    BY DEF IsNote
  <1>5. ASSUME NEW n \in Name, n # o
        PROVE  \/ X[n] = None /\ \A j \in Id : ~IsNote(R[j], n)
               \/ X[n] \in Id /\ IsNote(R[X[n]], n) /\ Older(R, X[n], n)
    BY <1>1, <1>3, <1>4, <1>5 DEF Indexed, Older
  <1>6. \A j \in Id : ~IsNote(R[j], o)
    BY <1>1
  <1>7. Indexed(R, X)
    BY <1>3, <1>5, <1>6 DEF Indexed
  <1> QED BY <1>7 DEF R, X

(* What the index names is what the time stamps choose.                    *)
LEMMA IndexReads ==
    ASSUME TypeOK, load_latest_records(lines) = records, Indexed(records, note_index),
           NEW n \in Name
    PROVE  /\ latest_note_by_name(n) = note_index[n]
           /\ memory_read_note(n) = file_read_note(n)
           /\ memory_read_note(n) = None <=> note_index[n] = None
  <1> DEFINE L == load_latest_records(lines)
             C == {id \in Id : IsNote(L[id], n)}
             Best(id) == \A other \in C :
                            \/ L[id].updated_at > L[other].updated_at
                            \/ L[id].updated_at = L[other].updated_at /\ id <= other
  <1>1. latest_note_by_name(n) = IF C = {} THEN None ELSE CHOOSE id \in C : Best(id)
    BY DEF latest_note_by_name
  <1>2. CASE note_index[n] = None
    <2>1. C = {}
      BY <1>2, NoneAssumption DEF Indexed
    <2> QED BY <1>1, <1>2, <2>1 DEF memory_read_note, file_read_note
  <1>3. CASE note_index[n] # None
    <2> DEFINE x == note_index[n]
    <2>1. x \in Id /\ IsNote(records[x], n) /\ Older(records, x, n)
      BY <1>3 DEF Indexed
    <2>2. x \in C /\ \A y \in C \ {x} : L[y].updated_at < L[x].updated_at
      BY <2>1 DEF Older
    <2>3. \A y \in C : y \in Int /\ L[y].updated_at \in Int
      BY IntTimes DEF TypeOK, IsNote, Live, Id
    <2> HIDE DEF L, C, x
    <2>4. Best(x)
      BY <2>2, <2>3
    <2>5. \A y \in C : Best(y) => y = x
      BY <2>2, <2>3
    <2>6. (CHOOSE id \in C : Best(id)) = x
      BY <2>2, <2>4, <2>5
    <2>7. latest_note_by_name(n) = x
      BY <1>1, <2>2, <2>6
    <2>8. memory_read_note(n) = records[x].content /\ records[x].content # None
      BY <1>3, <2>1, NoneAssumption DEF memory_read_note, IsNote, Live, x, TypeOK, MemoryRecord
    <2>9. file_read_note(n) = records[x].content
      BY <1>3, <2>7 DEF file_read_note, x
    <2> QED BY <1>3, <2>7, <2>8, <2>9 DEF x
  <1> QED BY <1>2, <1>3

NotesNamed ==
    \A id \in Id : records[id] # None =>
        IF records[id].kind = "note" THEN records[id].name \in Name ELSE records[id].name = None

Smooth == ~restarted /\ ties + setbacks = 0 /\ ~orphaned

Agreement ==
    /\ load_latest_records(lines) = records
    /\ Dated(records, now)
    /\ Indexed(records, note_index)

AgreeInv == AcknowledgedInv /\ NotesNamed /\ (~restarted => ~torn) /\ (Smooth => Agreement)

(* The clock moved forward, so that a new time stamp is the newest.        *)
LEMMA SmoothClock ==
    ASSUME TypeOK, NEW t \in Time, ReadClock(t), Smooth', restarted' = restarted,
           orphaned => orphaned'
    PROVE  Smooth /\ now < t /\ now' = t /\ now \in Int /\ t \in Int
  BY DEF TypeOK, Time, ReadClock, Smooth

(* A record of its own, written to both stores.                            *)
LEMMA FreshAgrees ==
    ASSUME AgreeInv, NEW t \in Time, ReadClock(t), FreshId \in Id, NEW r \in MemoryRecord,
           WriteRecord(FreshId, r), UNCHANGED <<orphaned, restarted>>,
           ~r.deleted, r.updated_at = t,
           IF r.kind = "note" THEN r.name \in Name ELSE r.name = None
    PROVE  NotesNamed' /\ (Smooth' => Agreement')
  <1>1. records[FreshId] = None /\ expected[FreshId] = {None}
    BY FreshIdFresh DEF AgreeInv, AcknowledgedInv
  <1>2. records' = [records EXCEPT ![FreshId] = r] /\ records \in Recs /\ note_index \in Indices
    BY DEF WriteRecord, MemoryWrite, AgreeInv, AcknowledgedInv, TypeOK, Recs, Indices
  <1>3. NotesNamed'
    BY <1>2 DEF AgreeInv, NotesNamed, Recs
  <1>4. ASSUME Smooth' PROVE Agreement'
    <2>1. Smooth /\ now < t /\ now' = t /\ now \in Int /\ t \in Int
      BY <1>4, SmoothClock DEF AgreeInv, AcknowledgedInv
    <2>2. Agreement
      BY <2>1 DEF AgreeInv
    <2>3. load_latest_records(lines)' = [load_latest_records(lines) EXCEPT ![FreshId] = r]
      <3>1. lines' = Append(lines, <<FreshId, r>>) /\ (torn => torn')
            /\ expected' = [expected EXCEPT ![FreshId] = {} \cup {r}]
        BY DEF WriteRecord, FileAppend
      <3>2. {} \in SUBSET {None}
        OBVIOUS
      <3> QED BY <1>1, <3>1, <3>2, AppendKeepsFile DEF AgreeInv, AcknowledgedInv
    <2>4. load_latest_records(lines)' = records'
      BY <1>2, <2>2, <2>3 DEF Agreement
    <2>5. /\ Dated(records', now')
          /\ \A j \in Id \ {FreshId} : records[j] # None => records[j].updated_at < r.updated_at
      BY <1>2, <2>1, <2>2, PutDated DEF Agreement
    <2>6. Indexed(records', note_index')
      <3>1. CASE r.kind = "note"
        <4>1. IsNote(r, r.name) /\ note_index' = [note_index EXCEPT ![r.name] = FreshId]
          BY <3>1, NoneAssumption, IntTimes
             DEF IsNote, Live, WriteRecord, MemoryWrite, sync_note_index
        <4>2. \A o \in Name \ {r.name} : ~IsNote(records[FreshId], o)
          BY <1>1 DEF IsNote, Live
        <4> QED BY <1>2, <2>2, <2>5, <3>1, <4>1, <4>2, PutNote DEF Agreement
      <3>2. CASE r.kind # "note"
        <4>1. /\ note_index' = note_index
              /\ \A n \in Name : ~IsNote(r, n) /\ ~IsNote(records[FreshId], n)
          BY <1>1, <3>2 DEF IsNote, Live, WriteRecord, MemoryWrite, sync_note_index
        <4> QED BY <1>2, <2>2, <4>1, PutOther DEF Agreement
      <3> QED BY <3>1, <3>2
    <2> QED BY <2>4, <2>5, <2>6 DEF Agreement
  <1> QED BY <1>3, <1>4

(* A new version of a live record, in both stores.                         *)
LEMMA RewriteAgrees ==
    ASSUME AgreeInv, Smooth, NEW t \in Int, now < t, now \in Int, now' = t,
           NEW id \in Id, NEW r \in MemoryRecord, r.updated_at = t, Live(records[id]),
           records' = [records EXCEPT ![id] = r], FileRewrite(id, r), torn' = torn
    PROVE  /\ load_latest_records(lines)' = records'
           /\ Dated(records', now')
           /\ \A j \in Id \ {id} : records[j] # None => records[j].updated_at < r.updated_at
           /\ records \in Recs /\ note_index \in Indices /\ Indexed(records, note_index)
  <1>1. Agreement /\ ~torn
    BY DEF AgreeInv, Smooth
  <1>2. load_latest_records(lines)' = [load_latest_records(lines) EXCEPT ![id] = r]
    BY <1>1, RewriteKeepsFile DEF AgreeInv, AcknowledgedInv, Agreement
  <1>3. records \in Recs /\ note_index \in Indices
    BY DEF AgreeInv, AcknowledgedInv, TypeOK, Recs, Indices
  <1>4. /\ Dated(records', now')
        /\ \A j \in Id \ {id} : records[j] # None => records[j].updated_at < r.updated_at
    BY <1>1, <1>3, PutDated DEF Agreement
  <1> QED BY <1>1, <1>2, <1>3, <1>4 DEF Agreement

LEMMA AgreeInit == Init => AgreeInv
  <1> SUFFICES ASSUME Init PROVE AgreeInv
    OBVIOUS
  <1>1. AcknowledgedInv
    BY AcknowledgedInit
  <1>2. \A id \in Id : load_latest_records(lines)[id] = None
    BY <1>1 DEF Init, AcknowledgedInv, FileInv, LoadReturnsAcknowledged
  <1>3. load_latest_records(lines) \in [Id -> MemoryRecord \cup {None}]
    BY <1>1, LatestOfOne DEF AcknowledgedInv, FileInv
  <1>4. load_latest_records(lines) = records
    BY <1>2, <1>3 DEF Init
  <1>5. NotesNamed /\ ~torn /\ Dated(records, now) /\ Indexed(records, note_index)
    BY DEF Init, NotesNamed, Dated, Indexed, IsNote, Live
  <1> QED BY <1>1, <1>4, <1>5 DEF AgreeInv, Agreement

LEMMA WriteNoteAgrees ==
    ASSUME AgreeInv, NEW n \in Name, NEW c \in Content, NEW t \in Time, StoreWriteNote(n, c, t)
    PROVE  NotesNamed' /\ (Smooth' => Agreement')
  <1> DEFINE m == note_index[n]
             f == latest_note_by_name(n)
             new == new_record("note", n, c, None, t)
  <1>1. ReadClock(t) /\ t \in 0 .. MaxTime /\ TypeOK
    BY ClockTyped DEF AgreeInv, AcknowledgedInv, StoreWriteNote
  <1>2. /\ new \in MemoryRecord /\ new.kind = "note" /\ new.name = n
        /\ ~new.deleted /\ new.updated_at = t
    BY <1>1, NewRecord DEF Kind
  <1>3. FreshId \in Id /\ UNCHANGED <<torn, orphaned, restarted>>
    BY DEF StoreWriteNote
  <1>4. CASE memory_read_note(n) # None
    <2> DEFINE r == [records[m] EXCEPT !["content"] = c, !.updated_at = t]
    <2>1. m \in Id /\ Live(records[m]) /\ records[m] \in MemoryRecord
      BY <1>1, <1>4 DEF TypeOK, memory_read_note, Live
    <2>2. records' = [records EXCEPT ![m] = r] /\ note_index' = note_index
      <3>1. records' = [records EXCEPT ![m].content = c, ![m].updated_at = t]
            /\ note_index' = note_index
        BY <1>4 DEF StoreWriteNote
      <3> QED BY <1>1, <2>1, <3>1 DEF TypeOK
    <2>3. /\ r \in MemoryRecord /\ r.kind = records[m].kind /\ r.name = records[m].name
          /\ r.deleted = records[m].deleted /\ r.updated_at = t
      <3> DEFINE old == records[m]
      <3>1. old \in MemoryRecord
        BY <2>1
      <3> HIDE DEF old
      <3>2. LET q == [old EXCEPT !["content"] = c, !.updated_at = t] IN
            /\ q \in MemoryRecord /\ q.kind = old.kind /\ q.name = old.name
            /\ q.deleted = old.deleted /\ q.updated_at = t
        BY <1>1, <3>1 DEF MemoryRecord
      <3> QED BY <3>2 DEF old
    <2>4. NotesNamed'
      <3> HIDE DEF r
      <3> QED BY <1>1, <2>1, <2>2, <2>3, NoneAssumption DEF AgreeInv, NotesNamed, TypeOK, Live
    <2>5. ASSUME Smooth' PROVE Agreement'
      <3>1. Smooth /\ now < t /\ now' = t /\ now \in Int /\ t \in Int
        BY <1>1, <1>3, <2>5, SmoothClock
      <3>2. Agreement /\ ~torn
        BY <3>1 DEF AgreeInv, Smooth
      <3>3. f = m
        BY <1>1, <3>2, IndexReads DEF Agreement
      <3>4. FileRewrite(m, r)
        <4>1. f # None
          BY <2>1, <3>3, NoneAssumption
        <4>2. FileRewrite(f, [load_latest_records(lines)[f] EXCEPT !.content = c, !.updated_at = t])
          BY <3>2, <4>1 DEF StoreWriteNote
        <4> QED BY <3>2, <3>3, <4>2 DEF Agreement
      <3> HIDE DEF r
      <3>5. /\ load_latest_records(lines)' = records'
            /\ Dated(records', now')
            /\ \A j \in Id \ {m} : records[j] # None => records[j].updated_at < r.updated_at
            /\ records \in Recs /\ note_index \in Indices /\ Indexed(records, note_index)
        BY <1>3, <2>1, <2>2, <2>3, <3>1, <3>4, RewriteAgrees
      <3>6. IsNote(records[m], n)
        BY <2>1, <3>5, NoneAssumption DEF Indexed
      <3>7. IsNote(r, n) /\ \A o \in Name \ {n} : ~IsNote(records[m], o)
        BY <2>3, <3>6, NoneAssumption DEF IsNote, Live
      <3>8. [note_index EXCEPT ![n] = m] = note_index
        BY <3>5 DEF Indices
      <3>9. Indexed(records', note_index')
        <4>1. Indexed([records EXCEPT ![m] = r], [note_index EXCEPT ![n] = m])
          <5> HIDE DEF m
          <5> QED BY <2>1, <2>3, <3>5, <3>7, PutNote
        <4> QED BY <2>2, <3>8, <4>1
      <3> QED BY <3>5, <3>9 DEF Agreement
    <2> QED BY <2>4, <2>5
  <1>5. CASE memory_read_note(n) = None
    <2>1. MemoryWrite(FreshId, new)
      BY <1>5 DEF StoreWriteNote
    <2>2. NotesNamed'
      <3> HIDE DEF new
      <3> QED BY <1>1, <1>2, <1>3, <2>1 DEF AgreeInv, NotesNamed, TypeOK, MemoryWrite
    <2>3. ASSUME Smooth' PROVE Agreement'
      <3>1. Smooth
        BY <1>1, <1>3, <2>3, SmoothClock
      <3>2. Agreement /\ ~torn
        BY <3>1 DEF AgreeInv, Smooth
      <3>3. f = None
        BY <1>1, <1>5, <3>2, IndexReads DEF Agreement
      <3>4. WriteRecord(FreshId, new)
        BY <1>3, <2>1, <3>2, <3>3 DEF StoreWriteNote, WriteRecord
      <3> HIDE DEF new
      <3> QED BY <1>1, <1>2, <1>3, <2>3, <3>4, FreshAgrees
    <2> QED BY <2>2, <2>3
  <1> QED BY <1>4, <1>5

LEMMA UpdateAgrees ==
    ASSUME AgreeInv, NEW id \in Id, NEW t \in Time, NEW r \in MemoryRecord,
           Live(records[id]), ReadClock(t), records' = [records EXCEPT ![id] = r],
           note_index' =
              sync_note_index(remove_stale_note_index(note_index, records[id].name, id), id, r),
           FileRewrite(id, r), UNCHANGED <<torn, restarted>>,
           orphaned' = (orphaned \/ (r.name # records[id].name /\ Orphans(id, records[id].name))),
           r.kind = records[id].kind, ~r.deleted, r.updated_at = t,
           r.name = records[id].name \/ (r.kind = "note" /\ r.name \in Name)
    PROVE  NotesNamed' /\ (Smooth' => Agreement')
  <1> DEFINE o == records[id].name
  <1>1. records[id] \in MemoryRecord /\ TypeOK
    BY DEF AgreeInv, AcknowledgedInv, TypeOK, Live
  <1>2. IF records[id].kind = "note" THEN o \in Name ELSE o = None
    BY DEF AgreeInv, NotesNamed, Live
  <1>3. NotesNamed'
    BY <1>1, <1>2 DEF AgreeInv, NotesNamed, TypeOK
  <1>4. ASSUME Smooth' PROVE Agreement'
    <2>1. Smooth /\ now < t /\ now' = t /\ now \in Int /\ t \in Int
      BY <1>1, <1>4, SmoothClock
    <2>2. /\ load_latest_records(lines)' = records'
          /\ Dated(records', now')
          /\ \A j \in Id \ {id} : records[j] # None => records[j].updated_at < r.updated_at
          /\ records \in Recs /\ note_index \in Indices /\ Indexed(records, note_index)
      BY <2>1, RewriteAgrees
    <2>3. CASE r.kind # "note"
      <3>1. note_index' = note_index
        BY <1>2, <2>3 DEF sync_note_index, remove_stale_note_index
      <3>2. \A n \in Name : ~IsNote(r, n) /\ ~IsNote(records[id], n)
        BY <2>3 DEF IsNote
      <3>3. Indexed(records', note_index')
        <4>1. Indexed([records EXCEPT ![id] = r], note_index)
          BY <2>2, <3>2, PutOther
        <4> QED BY <3>1, <4>1
      <3> QED BY <2>2, <3>3 DEF Agreement
    <2>4. CASE r.kind = "note" /\ r.name = o
      <3>1. o \in Name /\ o # None
        BY <1>2, <2>4, NoneAssumption
      <3>2. note_index' = [note_index EXCEPT ![o] = id]
        <4>1. note_index' = [remove_stale_note_index(note_index, o, id) EXCEPT ![o] = id]
          BY <2>4, <3>1 DEF sync_note_index
        <4> QED BY <2>2, <3>1, <4>1 DEF remove_stale_note_index, Indices
      <3>3. IsNote(r, o) /\ \A n \in Name \ {o} : ~IsNote(records[id], n)
        BY <2>4, IntTimes DEF IsNote, Live
      <3>4. Indexed(records', note_index')
        <4>1. Indexed([records EXCEPT ![id] = r], [note_index EXCEPT ![o] = id])
          <5> HIDE DEF o
          <5> QED BY <2>2, <3>1, <3>3, PutNote
        <4> QED BY <3>2, <4>1
      <3> QED BY <2>2, <3>4 DEF Agreement
    <2>5. CASE r.kind = "note" /\ r.name # o
      <3> DEFINE gone == [records[id] EXCEPT !.deleted = TRUE, !.updated_at = t]
                 R == [records EXCEPT ![id] = gone]
                 X == remove_stale_note_index(note_index, o, id)
      <3>1. o \in Name /\ o # None /\ IsNote(records[id], o) /\ r.name \in Name /\ r.name # None
        BY <1>2, <2>5, NoneAssumption DEF IsNote
      <3>2. ~ \E j \in Id \ {id} : IsNote(records[j], o)
        BY <1>4, <2>5 DEF Smooth, Orphans
      <3>3. gone \in MemoryRecord /\ gone.deleted
        BY <1>1, ClockTyped, MarkedDeleted
      <3> HIDE DEF gone
      <3>4. Indexed(R, X)
        BY <2>2, <3>1, <3>2, <3>3, DropNote DEF IsNote, Live
      <3>5. R \in Recs /\ X \in Indices
        BY <2>2, <3>3 DEF Recs, Indices, remove_stale_note_index
      <3>6. /\ R[id] = gone /\ \A j \in Id \ {id} : R[j] = records[j]
            /\ records' = [R EXCEPT ![id] = r]
        BY <2>2 DEF Recs
      <3>7. note_index' = [X EXCEPT ![r.name] = id]
        BY <2>5, <3>1 DEF sync_note_index
      <3>8. /\ IsNote(r, r.name)
            /\ \A n \in Name \ {r.name} : ~IsNote(R[id], n)
            /\ \A j \in Id \ {id} : R[j] # None => R[j].updated_at < r.updated_at
        BY <2>2, <2>5, <3>3, <3>6, IntTimes DEF IsNote, Live
      <3> HIDE DEF R, X
      <3>9. Indexed(records', note_index')
        <4>1. Indexed([R EXCEPT ![id] = r], [X EXCEPT ![r.name] = id])
          BY <3>1, <3>4, <3>5, <3>8, PutNote
        <4> QED BY <3>6, <3>7, <4>1
      <3> QED BY <2>2, <3>9 DEF Agreement
    <2> QED BY <2>3, <2>4, <2>5
  <1> QED BY <1>3, <1>4

LEMMA DeleteAgrees ==
    ASSUME AgreeInv, NEW id \in Id, NEW t \in Time, StoreDelete(id, t)
    PROVE  NotesNamed' /\ (Smooth' => Agreement')
  <1> DEFINE o == records[id].name
             r == [records[id] EXCEPT !.deleted = TRUE, !.updated_at = t]
  <1>1. /\ records[id] \in MemoryRecord /\ TypeOK /\ ReadClock(t) /\ Live(records[id])
        /\ t \in 0 .. MaxTime
    BY ClockTyped DEF AgreeInv, AcknowledgedInv, TypeOK, Live, StoreDelete
  <1>2. IF records[id].kind = "note" THEN o \in Name ELSE o = None
    BY <1>1 DEF AgreeInv, NotesNamed, Live
  <1>3. /\ r \in MemoryRecord /\ r.kind = records[id].kind /\ r.name = o
        /\ r.deleted /\ r.updated_at = t
    BY <1>1, MarkedDeleted
  <1>4. /\ records' = [records EXCEPT ![id] = r] /\ FileRewrite(id, r)
        /\ note_index' = remove_stale_note_index(note_index, o, id)
        /\ orphaned' = (orphaned \/ (records[id].kind = "note" /\ Orphans(id, o)))
        /\ UNCHANGED <<torn, restarted>>
    BY DEF StoreDelete
  <1> HIDE DEF r
  <1>5. NotesNamed'
    BY <1>1, <1>2, <1>3, <1>4 DEF AgreeInv, NotesNamed, TypeOK
  <1>6. ASSUME Smooth' PROVE Agreement'
    <2>1. Smooth /\ now < t /\ now' = t /\ now \in Int /\ t \in Int
      BY <1>1, <1>4, <1>6, SmoothClock
    <2>2. /\ load_latest_records(lines)' = records'
          /\ Dated(records', now')
          /\ records \in Recs /\ note_index \in Indices /\ Indexed(records, note_index)
      BY <1>1, <1>3, <1>4, <2>1, RewriteAgrees
    <2>3. \A n \in Name : ~IsNote(r, n)
      BY <1>3 DEF IsNote, Live
    <2>4. CASE records[id].kind = "note"
      <3>1. o \in Name /\ IsNote(records[id], o)
        BY <1>1, <1>2, <2>4 DEF IsNote
      <3>2. ~ \E j \in Id \ {id} : IsNote(records[j], o)
        BY <1>4, <1>6, <2>4 DEF Smooth, Orphans
      <3>3. Indexed(records', note_index')
        BY <1>3, <1>4, <2>2, <2>3, <3>1, <3>2, DropNote, ZenonT(60)
      <3> QED BY <2>2, <3>3 DEF Agreement
    <2>5. CASE records[id].kind # "note"
      <3>1. note_index' = note_index /\ \A n \in Name : ~IsNote(records[id], n)
        BY <1>2, <1>4, <2>5 DEF IsNote, remove_stale_note_index
      <3>2. Indexed(records', note_index')
        <4>1. Indexed([records EXCEPT ![id] = r], note_index)
          BY <1>3, <2>2, <2>3, <3>1, PutOther
        <4> QED BY <1>4, <3>1, <4>1
      <3> QED BY <2>2, <3>2 DEF Agreement
    <2> QED BY <2>4, <2>5
  <1> QED BY <1>5, <1>6

LEMMA AgreeNext == AgreeInv /\ [Next]_vars => AgreeInv'
  <1> SUFFICES ASSUME AgreeInv, [Next]_vars PROVE AgreeInv'
    OBVIOUS
  <1>1. AcknowledgedInv' /\ TypeOK
    BY AcknowledgedNext DEF AgreeInv, AcknowledgedInv
  <1> DEFINE Kept == NotesNamed' /\ (Smooth' => Agreement') /\ (~restarted' => ~torn')
  <1>2. ASSUME UNCHANGED vars PROVE Kept
    BY <1>2 DEF vars, AgreeInv, NotesNamed, Smooth, Agreement, Dated, Indexed, Older
  <1>3. ASSUME NEW n \in Name, NEW c \in Content, NEW scope \in Scope, NEW t \in Time,
               ToolWriteNote(n, c, scope, t)
        PROVE  Kept
    <2> DEFINE r == new_record("note", n, c, scope, t)
    <2>1. t \in 0 .. MaxTime
      BY <1>1, <1>3, ClockTyped DEF ToolWriteNote
    <2>2. r \in MemoryRecord /\ r.kind = "note" /\ r.name = n /\ ~r.deleted /\ r.updated_at = t
      BY <2>1, NewRecord DEF Kind
    <2>3. /\ FreshId \in Id /\ ReadClock(t) /\ WriteRecord(FreshId, r)
          /\ UNCHANGED <<orphaned, restarted>>
      BY <1>3 DEF ToolWriteNote
    <2> HIDE DEF r
    <2>4. NotesNamed' /\ (Smooth' => Agreement')
      BY <2>2, <2>3, FreshAgrees
    <2> QED BY <2>3, <2>4 DEF AgreeInv, WriteRecord
  <1>4. ASSUME NEW kind \in SavedKind, NEW c \in Content \cup {Blank}, NEW scope \in Scope,
               NEW t \in Time, ToolSaveMemory(kind, c, scope, t)
        PROVE  Kept
    <2> DEFINE r == new_record(kind, None, c, scope, t)
    <2>1. t \in 0 .. MaxTime
      BY <1>1, <1>4, ClockTyped DEF ToolSaveMemory
    <2>2. r \in MemoryRecord /\ r.kind # "note" /\ r.name = None /\ ~r.deleted /\ r.updated_at = t
      BY <1>4, <2>1, NewRecord, BoundAssumption DEF ToolSaveMemory
    <2>3. /\ FreshId \in Id /\ ReadClock(t) /\ WriteRecord(FreshId, r)
          /\ UNCHANGED <<orphaned, restarted>>
      BY <1>4 DEF ToolSaveMemory
    <2> HIDE DEF r
    <2>4. NotesNamed' /\ (Smooth' => Agreement')
      BY <2>2, <2>3, FreshAgrees
    <2> QED BY <2>3, <2>4 DEF AgreeInv, WriteRecord
  <1>5. ASSUME NEW n \in Name, NEW c \in Content, NEW t \in Time, StoreWriteNote(n, c, t)
        PROVE  Kept
    BY <1>5, WriteNoteAgrees DEF AgreeInv, StoreWriteNote
  <1>6. ASSUME NEW id \in Id, NEW c \in Content, NEW t \in Time, StoreUpdate(id, "content", c, t)
        PROVE  Kept
    <2> DEFINE r == [records[id] EXCEPT !["content"] = c, !.updated_at = t]
    <2>1. records[id] \in MemoryRecord /\ ~records[id].deleted /\ t \in 0 .. MaxTime
      BY <1>1, <1>6, ClockTyped DEF StoreUpdate, TypeOK, Live
    <2>2. /\ r \in MemoryRecord /\ r.kind = records[id].kind /\ r.name = records[id].name
          /\ ~r.deleted /\ r.updated_at = t
      <3> DEFINE old == records[id]
      <3>1. old \in MemoryRecord /\ ~old.deleted
        BY <2>1
      <3> HIDE DEF old
      <3>2. LET q == [old EXCEPT !["content"] = c, !.updated_at = t] IN
            /\ q \in MemoryRecord /\ q.kind = old.kind /\ q.name = old.name
            /\ q.deleted = old.deleted /\ q.updated_at = t
        BY <2>1, <3>1 DEF MemoryRecord
      <3> QED BY <3>1, <3>2 DEF old
    <2>3. /\ Live(records[id]) /\ ReadClock(t) /\ records' = [records EXCEPT ![id] = r]
          /\ note_index' =
               sync_note_index(remove_stale_note_index(note_index, records[id].name, id), id, r)
          /\ FileRewrite(id, r) /\ UNCHANGED <<torn, restarted>>
          /\ orphaned' = (orphaned \/ (r.name # records[id].name /\ Orphans(id, records[id].name)))
      BY <1>6 DEF StoreUpdate
    <2> HIDE DEF r
    <2>4. NotesNamed' /\ (Smooth' => Agreement')
      BY <2>2, <2>3, UpdateAgrees
    <2> QED BY <2>3, <2>4 DEF AgreeInv
  <1>7. ASSUME NEW id \in Id, NEW n \in Name, NEW t \in Time, StoreUpdate(id, "name", n, t)
        PROVE  Kept
    <2> DEFINE r == [records[id] EXCEPT !["name"] = n, !.updated_at = t]
    <2>1. /\ records[id] \in MemoryRecord /\ ~records[id].deleted /\ t \in 0 .. MaxTime
          /\ records[id].kind = "note"
      BY <1>1, <1>7, ClockTyped DEF StoreUpdate, TypeOK, Live
    <2>2. /\ r \in MemoryRecord /\ r.kind = records[id].kind /\ r.name = n
          /\ ~r.deleted /\ r.updated_at = t
      <3> DEFINE old == records[id]
      <3>1. old \in MemoryRecord /\ ~old.deleted
        BY <2>1
      <3> HIDE DEF old
      <3>2. LET q == [old EXCEPT !["name"] = n, !.updated_at = t] IN
            /\ q \in MemoryRecord /\ q.kind = old.kind /\ q.name = n
            /\ q.deleted = old.deleted /\ q.updated_at = t
        BY <2>1, <3>1 DEF MemoryRecord
      <3> QED BY <3>1, <3>2 DEF old
    <2>3. /\ Live(records[id]) /\ ReadClock(t) /\ records' = [records EXCEPT ![id] = r]
          /\ note_index' =
               sync_note_index(remove_stale_note_index(note_index, records[id].name, id), id, r)
          /\ FileRewrite(id, r) /\ UNCHANGED <<torn, restarted>>
          /\ orphaned' = (orphaned \/ (r.name # records[id].name /\ Orphans(id, records[id].name)))
      BY <1>7 DEF StoreUpdate
    <2> HIDE DEF r
    <2>4. NotesNamed' /\ (Smooth' => Agreement')
      BY <2>1, <2>2, <2>3, UpdateAgrees
    <2> QED BY <2>3, <2>4 DEF AgreeInv
  <1>8. ASSUME NEW id \in Id, NEW t \in Time, StoreDelete(id, t) PROVE Kept
    BY <1>8, DeleteAgrees DEF AgreeInv, StoreDelete
  <1>9. ASSUME MemoryLost PROVE Kept
    BY <1>9 DEF MemoryLost, NotesNamed, Smooth
  <1> HIDE DEF Kept
  <1>10. Kept
    <2>1. CASE Next
      BY <1>3, <1>4, <1>5, <1>6, <1>7, <1>8, <1>9, <2>1 DEF Next, DieInWrite, DieInDelete
    <2> QED BY <1>2, <2>1
  <1> QED BY <1>1, <1>10 DEF Kept, AgreeInv

(* A caller cannot tell InMemoryStore from FileMemoryStore, as long as the *)
(* process lives, the clock moves forward and no name is given up while an *)
(* older note still carries it.                                            *)
THEOREM StoresCannotBeToldApart == Spec => []StoresAgree
  <1>1. AgreeInv => StoresAgree
    BY IndexReads DEF AgreeInv, AcknowledgedInv, Smooth, Agreement, StoresAgree
  <1> QED BY <1>1, AgreeInit, AgreeNext, PTL DEF Spec

-----------------------------------------------------------------------------
(* Induction and folds                                                     *)

(* Induction over the naturals, for a set instead of a predicate: a number *)
(* that is missing would have a smallest companion.                        *)
LEMMA Induction ==
    ASSUME NEW T \in SUBSET Nat, 0 \in T, \A n \in T : n + 1 \in T
    PROVE  T = Nat
  <1> SUFFICES ASSUME NEW m \in Nat, m \notin T PROVE FALSE
    OBVIOUS
  <1> DEFINE S == {n \in 0 .. m : n \notin T}
  <1>1. S \in SUBSET Int /\ m \in S
    OBVIOUS
  <1>2. IsFiniteSet(0 .. m)
    BY FS_Interval
  <1>3. IsFiniteSet(S)
    <2>1. S \in SUBSET (0 .. m)
      OBVIOUS
    <2> HIDE DEF S
    <2> QED BY <1>2, <2>1, FS_Subset
  <1> HIDE DEF S
  <1>4. PICK x \in S : \A y \in S : x <= y
    BY <1>1, <1>3, LeastExists
  <1>5. x \in 0 .. m /\ x \notin T
    BY <1>4 DEF S
  <1>6. x # 0 /\ x - 1 \in 0 .. m
    BY <1>5
  <1>7. x - 1 \in T
    <2>1. CASE x - 1 \in S
      BY <1>4, <1>5, <2>1
    <2>2. CASE x - 1 \notin S
      BY <1>6, <2>2 DEF S
    <2> QED BY <2>1, <2>2
  <1>8. (x - 1) + 1 = x
    BY <1>5
  <1> QED BY <1>5, <1>7, <1>8

LEMMA MaxOfInterval ==
    ASSUME NEW n \in Nat \ {0}
    PROVE  Max(1 .. n) = n /\ (1 .. n) \ {Max(1 .. n)} = 1 .. (n - 1) /\ 1 .. n # {}
  <1>1. n \in 1 .. n
    OBVIOUS
  <1>2. 1 .. n \in SUBSET Int
    OBVIOUS
  <1>3. IsFiniteSet(1 .. n)
    BY FS_Interval
  <1>4. Max(1 .. n) \in 1 .. n /\ \A y \in 1 .. n : Max(1 .. n) >= y
    BY <1>1, <1>2, <1>3, GreatestFacts
  <1>5. Max(1 .. n) = n
    BY <1>1, <1>4
  <1>6. (1 .. n) \ {n} = 1 .. (n - 1)
    OBVIOUS
  <1> QED BY <1>1, <1>5, <1>6

(* The recursion behind FoldLeft has a solution: a function on the sets of *)
(* positions that takes the last position of a set away at each step.      *)
FoldsTo(iter, n, base, F) ==
    iter = [s \in SUBSET (1 .. n) |->
              IF s = {} THEN base ELSE F[<<iter[s \ {Max(s)}], Max(s)>>]]

LEMMA FoldExists ==
    ASSUME NEW N \in Nat, NEW D, NEW base \in D, NEW F \in [D \X (1 .. N) -> D]
    PROVE  \E iter \in [SUBSET (1 .. N) -> D] : FoldsTo(iter, N, base, F)
  <1> DEFINE P(n) == n <= N => \E iter \in [SUBSET (1 .. n) -> D] : FoldsTo(iter, n, base, F)
             T == {n \in Nat : P(n)}
  <1>1. P(0)
    <2> DEFINE g == [s \in SUBSET (1 .. 0) |-> base]
    <2>1. g \in [SUBSET (1 .. 0) -> D]
      OBVIOUS
    <2>2. \A s \in SUBSET (1 .. 0) : s = {}
      OBVIOUS
    <2>3. FoldsTo(g, 0, base, F)
      BY <2>2 DEF FoldsTo
    <2> QED BY <2>1, <2>3
  <1>2. ASSUME NEW n \in Nat, P(n) PROVE P(n + 1)
    <2> SUFFICES ASSUME n + 1 <= N
                 PROVE \E iter \in [SUBSET (1 .. (n + 1)) -> D] : FoldsTo(iter, n + 1, base, F)
      OBVIOUS
    <2>0. n <= N
      OBVIOUS
    <2>1. PICK f \in [SUBSET (1 .. n) -> D] : FoldsTo(f, n, base, F)
      BY <1>2, <2>0
    <2> DEFINE m == n + 1
               g == [s \in SUBSET (1 .. m) |->
                       IF m \in s THEN F[<<f[s \ {m}], m>>] ELSE f[s]]
    <2>2. m \in 1 .. N /\ m \in Nat
      OBVIOUS
    <2>3. \A s \in SUBSET (1 .. m) : s \ {m} \in SUBSET (1 .. n) /\ (m \notin s => s \in SUBSET (1 .. n))
      OBVIOUS
    <2>4. g \in [SUBSET (1 .. m) -> D]
      <3>1. ASSUME NEW s \in SUBSET (1 .. m)
            PROVE  (IF m \in s THEN F[<<f[s \ {m}], m>>] ELSE f[s]) \in D
        BY <2>2, <2>3
      <3> QED BY <3>1
    <2>5. ASSUME NEW s \in SUBSET (1 .. m)
          PROVE  g[s] = IF s = {} THEN base ELSE F[<<g[s \ {Max(s)}], Max(s)>>]
      <3>1. CASE m \in s
        <4>1. Max(s) = m
          <5>1. s \in SUBSET Int /\ s # {} /\ \A y \in s : y <= m
            BY <3>1
          <5>2. IsFiniteSet(1 .. m)
            BY <2>2, FS_Interval
          <5>3. IsFiniteSet(s)
            BY <5>2, FS_Subset
          <5>4. Max(s) \in s /\ \A y \in s : Max(s) >= y
            BY <5>1, <5>3, GreatestFacts
          <5>5. Max(s) >= m /\ Max(s) <= m /\ Max(s) \in Int
            BY <3>1, <5>1, <5>4
          <5> HIDE DEF m
          <5> QED BY <2>2, <5>5
        <4>2. m \notin s \ {m} /\ s \ {m} \in SUBSET (1 .. m)
          OBVIOUS
        <4>3. g[s \ {m}] = f[s \ {m}]
          BY <4>2
        <4> QED BY <3>1, <4>1, <4>3
      <3>2. CASE m \notin s
        <4>1. s \in SUBSET (1 .. n)
          BY <2>3, <3>2
        <4>2. f[s] = IF s = {} THEN base ELSE F[<<f[s \ {Max(s)}], Max(s)>>]
          BY <2>1, <4>1 DEF FoldsTo
        <4>3. s \ {Max(s)} \in SUBSET (1 .. m) /\ m \notin s \ {Max(s)}
          BY <3>2
        <4>4. g[s] = f[s] /\ g[s \ {Max(s)}] = f[s \ {Max(s)}]
          BY <3>2, <4>3
        <4> HIDE DEF g
        <4> QED BY <4>2, <4>4
      <3> QED BY <3>1, <3>2
    <2>6. FoldsTo(g, m, base, F)
      <3>1. g = [s \in SUBSET (1 .. m) |-> g[s]]
        BY <2>4
      <3> HIDE DEF g, m
      <3> QED BY <2>5, <3>1 DEF FoldsTo
    <2> HIDE DEF g
    <2> QED BY <2>4, <2>6
  <1>3. 0 \in T /\ T \in SUBSET Nat
    BY <1>1
  <1>4. \A n \in T : n + 1 \in T
    <2> HIDE DEF P
    <2> QED BY <1>2
  <1>5. T = Nat
    <2> HIDE DEF T
    <2> QED BY <1>3, <1>4, Induction
  <1>6. P(N)
    <2> HIDE DEF P
    <2> QED BY <1>5
  <1>7. N <= N
    OBVIOUS
  <1> QED BY <1>6, <1>7

-----------------------------------------------------------------------------
(* Sums over sets of ids                                                   *)

(* t adds up the weights w over the subsets of 1 .. n, in whatever order   *)
(* the members are taken away.                                             *)
SumsUp(t, n, w) ==
    /\ t \in [SUBSET (1 .. n) -> Nat]
    /\ t[{}] = 0
    /\ \A s \in SUBSET (1 .. n) : \A x \in s : t[s] = t[s \ {x}] + w[x]

LEMMA SumExists ==
    ASSUME NEW N \in Nat, NEW w \in [1 .. N -> Nat]
    PROVE  \E t : SumsUp(t, N, w)
  <1> DEFINE P(n) == n <= N => \E t : SumsUp(t, n, w)
             T == {n \in Nat : P(n)}
  <1>1. P(0)
    <2> DEFINE g == [s \in SUBSET (1 .. 0) |-> 0]
    <2>1. \A s \in SUBSET (1 .. 0) : s = {}
      OBVIOUS
    <2>2. SumsUp(g, 0, w)
      BY <2>1 DEF SumsUp
    <2> QED BY <2>2
  <1>2. ASSUME NEW n \in Nat, P(n) PROVE P(n + 1)
    <2> SUFFICES ASSUME n + 1 <= N PROVE \E t : SumsUp(t, n + 1, w)
      OBVIOUS
    <2>1. n <= N
      OBVIOUS
    <2>2. PICK f : SumsUp(f, n, w)
      BY <1>2, <2>1
    <2> DEFINE m == n + 1
               g == [s \in SUBSET (1 .. m) |->
                       IF m \in s THEN f[s \ {m}] + w[m] ELSE f[s]]
    <2>3. w[m] \in Nat /\ \A x \in 1 .. m : w[x] \in Nat
      BY <2>1
    <2>4. \A s \in SUBSET (1 .. m) : /\ s \ {m} \in SUBSET (1 .. n) /\ f[s \ {m}] \in Nat
                                     /\ m \notin s => s \in SUBSET (1 .. n) /\ f[s] \in Nat
      <3>1. \A s \in SUBSET (1 .. m) : /\ s \ {m} \in SUBSET (1 .. n)
                                       /\ m \notin s => s \in SUBSET (1 .. n)
        OBVIOUS
      <3>2. \A s \in SUBSET (1 .. n) : f[s] \in Nat
        BY <2>2 DEF SumsUp
      <3> QED BY <3>1, <3>2
    <2>5. g \in [SUBSET (1 .. m) -> Nat]
      <3>1. ASSUME NEW s \in SUBSET (1 .. m)
            PROVE  (IF m \in s THEN f[s \ {m}] + w[m] ELSE f[s]) \in Nat
        <4>1. CASE m \in s
          <5>1. f[s \ {m}] \in Nat
            BY <2>4
          <5>2. \A a, b \in Nat : a + b \in Nat
            OBVIOUS
          <5> HIDE DEF m
          <5> QED BY <2>3, <4>1, <5>1, <5>2
        <4>2. CASE m \notin s
          BY <2>4, <4>2
        <4> QED BY <4>1, <4>2
      <3> QED BY <3>1
    <2>6. g[{}] = 0
      BY <2>2 DEF SumsUp
    <2>7. ASSUME NEW s \in SUBSET (1 .. m), NEW x \in s
          PROVE  g[s] = g[s \ {x}] + w[x]
      <3>1. s \ {x} \in SUBSET (1 .. m) /\ w[x] \in Nat
        BY <2>3
      <3>2. CASE x = m
        BY <3>1, <3>2
      <3>3. CASE x # m /\ m \in s
        <4>1. g[s] = f[s \ {m}] + w[m] /\ g[s \ {x}] = f[(s \ {x}) \ {m}] + w[m]
          BY <3>1, <3>3
        <4>2. f[s \ {m}] = f[(s \ {m}) \ {x}] + w[x]
          <5>1. s \ {m} \in SUBSET (1 .. n) /\ x \in s \ {m}
            BY <2>4, <3>3
          <5> QED BY <2>2, <5>1 DEF SumsUp
        <4>3. (s \ {m}) \ {x} = (s \ {x}) \ {m}
          OBVIOUS
        <4>4. f[(s \ {x}) \ {m}] \in Nat
          BY <2>4, <3>1
        <4>5. \A a, b, c \in Nat : (a + b) + c = (a + c) + b
          OBVIOUS
        <4> DEFINE a == f[(s \ {x}) \ {m}]
        <4>6. g[s] = (a + w[x]) + w[m] /\ g[s \ {x}] = a + w[m] /\ a \in Nat
          BY <4>1, <4>2, <4>3, <4>4
        <4> HIDE DEF g, m, a
        <4> QED BY <2>3, <3>1, <4>5, <4>6
      <3>4. CASE m \notin s
        <4>1. s \in SUBSET (1 .. n) /\ m \notin s \ {x}
          BY <2>4, <3>4
        <4>2. g[s] = f[s] /\ g[s \ {x}] = f[s \ {x}]
          BY <3>1, <3>4, <4>1
        <4>3. f[s] = f[s \ {x}] + w[x]
          BY <2>2, <4>1 DEF SumsUp
        <4> QED BY <4>2, <4>3
      <3> QED BY <3>2, <3>3, <3>4
    <2>8. SumsUp(g, m, w)
      <3> HIDE DEF g, m
      <3> QED BY <2>5, <2>6, <2>7 DEF SumsUp
    <2> HIDE DEF g
    <2> QED BY <2>8
  <1>3. 0 \in T /\ T \in SUBSET Nat
    BY <1>1
  <1>4. \A n \in T : n + 1 \in T
    <2> HIDE DEF P
    <2> QED BY <1>2
  <1>5. T = Nat
    <2> HIDE DEF T
    <2> QED BY <1>3, <1>4, Induction
  <1>6. P(N)
    <2> HIDE DEF P
    <2> QED BY <1>5
  <1>7. N <= N
    OBVIOUS
  <1> QED BY <1>6, <1>7

(* The first k members of a list.                                          *)
Prefix(q, k) == {q[i] : i \in 1 .. k}

LEMMA PrefixEmpty ==
    ASSUME NEW q PROVE Prefix(q, 0) = {}
  BY DEF Prefix

(* A list without repetition that is as long as its set lists all of it.   *)
LEMMA ListsAll ==
    ASSUME NEW S, IsFiniteSet(S), NEW q \in [1 .. Cardinality(S) -> S],
           \A i, j \in 1 .. Cardinality(S) : q[i] = q[j] => i = j
    PROVE  Prefix(q, Cardinality(S)) = S
  <1> DEFINE N == Cardinality(S)
  <1>1. N \in Nat
    BY FS_CardinalityType
  <1>2. IsFiniteSet(1 .. N) /\ Cardinality(1 .. N) = N
    <2>1. IsFiniteSet(1 .. N) /\ Cardinality(1 .. N) = IF 1 > N THEN 0 ELSE N - 1 + 1
      BY <1>1, FS_Interval
    <2> HIDE DEF N
    <2> QED BY <1>1, <2>1
  <1> SUFFICES ASSUME NEW x \in S, x \notin Prefix(q, N) PROVE FALSE
    BY DEF Prefix
  <1>3. q \in [1 .. N -> S \ {x}]
    BY DEF Prefix
  <1>4. IsFiniteSet(S \ {x}) /\ Cardinality(S \ {x}) = N - 1
    BY FS_RemoveElement
  <1> HIDE DEF N
  <1>5. Cardinality(S \ {x}) < Cardinality(1 .. N)
    BY <1>1, <1>2, <1>4
  <1>6. \E i, j \in 1 .. N : i # j /\ q[i] = q[j]
    BY <1>2, <1>3, <1>4, <1>5, FS_PigeonHole, ZenonT(60)
  <1> QED BY <1>6 DEF N

-----------------------------------------------------------------------------
(* The ranking of a search                                                 *)

Weight == [i \in Id |-> IF records[i] = None THEN 0 ELSE Tokens[records[i].content]]

LEMMA MatchingFacts ==
    ASSUME TypeOK, NEW scope
    PROVE  /\ Matching(scope) \in SUBSET Id
           /\ Matching(scope) \in SUBSET Int
           /\ IsFiniteSet(Matching(scope))
           /\ Weight \in [1 .. MaxRecords -> Nat]
           /\ \A i \in Matching(scope) : /\ records[i] \in MemoryRecord
                                         /\ Weight[i] = Tokens[records[i].content]
  <1>1. Matching(scope) \in SUBSET Id
    BY DEF Matching
  <1>2. Id = 1 .. MaxRecords /\ Id \in SUBSET Int /\ IsFiniteSet(Id)
    BY BoundAssumption, FS_Interval DEF Id
  <1>3. \A i \in Matching(scope) : records[i] # None /\ records[i] \in MemoryRecord
    BY DEF Matching, Live, TypeOK
  <1>4. ASSUME NEW i \in Id
        PROVE  (IF records[i] = None THEN 0 ELSE Tokens[records[i].content]) \in Nat
    <2>1. CASE records[i] = None
      BY <2>1
    <2>2. CASE records[i] # None
      <3>1. records[i].content \in Content
        BY <2>2 DEF TypeOK, MemoryRecord
      <3> QED BY <2>2, <3>1, PackAssumption
    <2> QED BY <2>1, <2>2
  <1>5. Weight \in [1 .. MaxRecords -> Nat]
    BY <1>2, <1>4 DEF Weight
  <1>6. \A i \in Matching(scope) : Weight[i] = Tokens[records[i].content]
    BY <1>1, <1>3 DEF Weight
  <1> QED BY <1>1, <1>2, <1>3, <1>5, <1>6, FS_Subset

LEMMA RanksIsAnOrder ==
    ASSUME TypeOK, NEW scope
    PROVE  \A a, b, c \in Matching(scope) :
              /\ ~Ranks(a, a)
              /\ Ranks(a, b) /\ Ranks(b, c) => Ranks(a, c)
              /\ a # b => Ranks(a, b) \/ Ranks(b, a)
  <1>1. \A k \in Kind : Importance[k] \in Int
    BY DEF Kind, Importance
  <1>2. ASSUME NEW a \in Matching(scope)
        PROVE  a \in Int /\ Importance[records[a].kind] \in Int /\ records[a].updated_at \in Int
    <2>1. records[a] \in MemoryRecord /\ a \in Int
      BY MatchingFacts
    <2>2. records[a].kind \in Kind /\ records[a].updated_at \in 0 .. MaxTime
      BY <2>1 DEF MemoryRecord
    <2> QED BY <1>1, <2>1, <2>2, BoundAssumption
  <1> SUFFICES ASSUME NEW a \in Matching(scope), NEW b \in Matching(scope),
                      NEW c \in Matching(scope)
               PROVE  /\ ~Ranks(a, a)
                      /\ Ranks(a, b) /\ Ranks(b, c) => Ranks(a, c)
                      /\ a # b => Ranks(a, b) \/ Ranks(b, a)
    OBVIOUS
  <1> QED BY <1>2 DEF Ranks

LEMMA BeforeFacts ==
    ASSUME TypeOK, NEW scope, NEW i \in Matching(scope)
    PROVE  /\ Before(scope, i) \in 0 .. Cardinality(Matching(scope)) - 1
           /\ \A j \in Matching(scope) : Ranks(i, j) => Before(scope, i) < Before(scope, j)
  <1> DEFINE M == Matching(scope)
             B(n) == {j \in M : Ranks(j, n)}
  <1>1. IsFiniteSet(M) /\ Cardinality(M) \in Nat
    BY MatchingFacts, FS_CardinalityType
  <1>2. ASSUME NEW n \in M PROVE IsFiniteSet(B(n)) /\ Cardinality(B(n)) \in Nat
    <2>1. B(n) \in SUBSET M
      OBVIOUS
    <2> HIDE DEF B, M
    <2> QED BY <1>1, <2>1, FS_Subset, FS_CardinalityType
  <1>3. Cardinality(B(i)) <= Cardinality(M) - 1
    <2>1. B(i) \in SUBSET (M \ {i})
      BY RanksIsAnOrder
    <2> HIDE DEF B
    <2>2. IsFiniteSet(M \ {i}) /\ Cardinality(M \ {i}) = Cardinality(M) - 1
      BY <1>1, FS_RemoveElement
    <2> QED BY <2>1, <2>2, FS_Subset
  <1>4. ASSUME NEW j \in M, Ranks(i, j) PROVE Cardinality(B(i)) < Cardinality(B(j))
    <2>1. B(i) \in SUBSET B(j) /\ i \in B(j) /\ i \notin B(i)
      BY <1>4, RanksIsAnOrder
    <2> HIDE DEF B
    <2>2. Cardinality(B(i)) <= Cardinality(B(j)) /\ Cardinality(B(i)) # Cardinality(B(j))
      BY <1>2, <1>4, <2>1, FS_Subset
    <2> QED BY <1>2, <1>4, <2>2
  <1>5. Before(scope, i) = Cardinality(B(i)) /\ \A j \in M : Before(scope, j) = Cardinality(B(j))
    BY DEF Before
  <1>6. Cardinality(B(i)) \in 0 .. Cardinality(M) - 1
    <2> HIDE DEF B
    <2> QED BY <1>1, <1>2, <1>3
  <1> HIDE DEF B
  <1> QED BY <1>4, <1>5, <1>6

LEMMA BeforeHit ==
    ASSUME TypeOK, NEW scope, NEW k \in 0 .. Cardinality(Matching(scope)) - 1
    PROVE  \E i \in Matching(scope) : Before(scope, i) = k
  <1> DEFINE M == Matching(scope)
             N == Cardinality(M)
             T == (0 .. N - 1) \ {k}
             f == [i \in M |-> Before(scope, i)]
  <1> SUFFICES ASSUME \A i \in M : Before(scope, i) # k PROVE FALSE
    OBVIOUS
  <1>1. N \in Nat /\ IsFiniteSet(M)
    BY MatchingFacts, FS_CardinalityType
  <1>2. IsFiniteSet(0 .. N - 1) /\ Cardinality(0 .. N - 1) = N
    <2>1. N - 1 \in Int /\ 0 \in Int
      BY <1>1
    <2> HIDE DEF N
    <2>2. IsFiniteSet(0 .. N - 1)
          /\ Cardinality(0 .. N - 1) = IF 0 > N - 1 THEN 0 ELSE (N - 1) - 0 + 1
      BY <2>1, FS_Interval
    <2> QED BY <1>1, <2>2
  <1>3. IsFiniteSet(T) /\ Cardinality(T) < N
    <2>1. k \in 0 .. N - 1
      OBVIOUS
    <2> HIDE DEF N
    <2>2. IsFiniteSet(T) /\ Cardinality(T) = N - 1
      BY <1>2, <2>1, FS_RemoveElement
    <2> QED BY <1>1, <2>2
  <1>4. f \in [M -> T]
    BY BeforeFacts
  <1> HIDE DEF T, f
  <1>5. \E x, y \in M : x # y /\ f[x] = f[y]
    BY <1>1, <1>3, <1>4, FS_PigeonHole
  <1>6. \A x, y \in M : Ranks(x, y) => f[x] # f[y]
    BY BeforeFacts DEF f
  <1> QED BY <1>5, <1>6, RanksIsAnOrder

(* A search lists every record of the scope once, the higher ranked first. *)
LEMMA RankedFacts ==
    ASSUME TypeOK, NEW scope
    PROVE  LET q == ranked(scope)
               M == Matching(scope)
           IN /\ Cardinality(M) \in Nat
              /\ q \in [1 .. Cardinality(M) -> M]
              /\ Len(q) = Cardinality(M)
              /\ \A i, j \in 1 .. Cardinality(M) : q[i] = q[j] => i = j
              /\ \A i, j \in 1 .. Cardinality(M) : i < j => Ranks(q[i], q[j])
              /\ Prefix(q, Cardinality(M)) = M
  <1> DEFINE q == ranked(scope)
             M == Matching(scope)
             N == Cardinality(M)
  <1>1. N \in Nat /\ IsFiniteSet(M)
    BY MatchingFacts, FS_CardinalityType
  <1>2. ASSUME NEW k \in 1 .. N PROVE q[k] \in M /\ Before(scope, q[k]) = k - 1
    <2>1. k - 1 \in 0 .. N - 1
      BY <1>1
    <2>2. \E i \in M : Before(scope, i) = k - 1
      BY <2>1, BeforeHit
    <2> QED BY <2>2 DEF ranked
  <1>3. q = [k \in 1 .. N |-> q[k]]
    BY DEF ranked
  <1>4. q \in [1 .. N -> M]
    <2> HIDE DEF q, N, M
    <2> QED BY <1>2, <1>3
  <1>5. Len(q) = N
    <2> HIDE DEF q, N, M
    <2> QED BY <1>1, <1>4
  <1>6. \A i, j \in 1 .. N : q[i] = q[j] => i = j
    <2> HIDE DEF q, N, M
    <2>1. \A i \in 1 .. N : i \in Int
      BY <1>1
    <2>2. \A i, j \in 1 .. N : i - 1 = j - 1 => i = j
      BY <2>1
    <2> QED BY <1>2, <2>2
  <1>7. ASSUME NEW i \in 1 .. N, NEW j \in 1 .. N, i < j PROVE Ranks(q[i], q[j])
    <2>1. q[i] \in M /\ q[j] \in M /\ q[i] # q[j]
      BY <1>2, <1>6, <1>7
    <2>2. CASE Ranks(q[j], q[i])
      <3>1. Before(scope, q[j]) < Before(scope, q[i])
        BY <2>1, <2>2, BeforeFacts
      <3>2. j - 1 < i - 1 /\ i \in Int /\ j \in Int
        BY <1>1, <1>2, <3>1
      <3> QED BY <1>7, <3>2
    <2> HIDE DEF q, M
    <2> QED BY <2>1, <2>2, RanksIsAnOrder DEF M
  <1>8. Prefix(q, N) = M
    <2> HIDE DEF q, M
    <2> QED BY <1>1, <1>4, <1>6, ListsAll
  <1> QED BY <1>1, <1>4, <1>5, <1>6, <1>7, <1>8

-----------------------------------------------------------------------------
(* What the folds compute                                                  *)

LEMMA SetInSequence ==
    ASSUME NEW S \in SUBSET Int, IsFiniteSet(S)
    PROVE  /\ SetToSeq(S) \in [1 .. Cardinality(S) -> S]
           /\ \A i, j \in 1 .. Cardinality(S) : SetToSeq(S)[i] = SetToSeq(S)[j] => i = j
  <1> DEFINE N == Cardinality(S)
             f == InOrder(S)
  <1>1. N \in Nat /\ f \in Seq(S) /\ Len(f) = N /\ DOMAIN f = 1 .. N
        /\ \A j, k \in 1 .. N : j < k => f[j] < f[k]
    BY InOrderFacts
  <1> HIDE DEF f, N
  <1>2. f \in [1 .. N -> S]
    BY <1>1
  <1>3. \A i, j \in 1 .. N : f[i] = f[j] => i = j
    <2>1. \A i, j \in 1 .. N : i < j \/ j < i \/ i = j
      BY <1>1
    <2>2. \A i \in 1 .. N : f[i] \in Int /\ ~(f[i] < f[i])
      <3>1. \A x \in S : x \in Int /\ ~(x < x)
        OBVIOUS
      <3> QED BY <1>2, <3>1
    <2> QED BY <1>1, <2>1, <2>2
  <1>4. \E g \in [1 .. N -> S] : IsInjective(g)
    BY <1>2, <1>3 DEF IsInjective
  <1>5. SetToSeq(S) \in [1 .. N -> S] /\ IsInjective(SetToSeq(S))
    BY <1>4 DEF SetToSeq, N
  <1> QED BY <1>5 DEF IsInjective, N

LEMMA CostIsSum ==
    ASSUME TypeOK, NEW scope, NEW S \in SUBSET Matching(scope),
           NEW t, SumsUp(t, MaxRecords, Weight)
    PROVE  FoldLeft(LAMBDA sum, id : sum + Tokens[records[id].content], 0, SetToSeq(S)) = t[S]
  <1> DEFINE n == Cardinality(S)
             q == SetToSeq(S)
             Eq(it) == it = [s \in SUBSET DOMAIN q |->
                              IF s = {} THEN 0
                              ELSE it[s \ {Max(s)}] + Tokens[records[q[Max(s)]].content]]
             iter == CHOOSE it : Eq(it)
             F == [p \in Nat \X (1 .. n) |-> p[1] + Weight[q[p[2]]]]
  <1>1. S \in SUBSET Int /\ IsFiniteSet(S) /\ n \in Nat
    BY MatchingFacts, FS_Subset, FS_CardinalityType
  <1>2. /\ q \in [1 .. n -> S] /\ DOMAIN q = 1 .. n
        /\ \A i, j \in 1 .. n : q[i] = q[j] => i = j
        /\ Prefix(q, n) = S
    BY <1>1, SetInSequence, ListsAll
  <1>3. \A i \in 1 .. n : /\ q[i] \in 1 .. MaxRecords
                          /\ Weight[q[i]] = Tokens[records[q[i]].content]
                          /\ Weight[q[i]] \in Nat
    BY <1>2, MatchingFacts DEF Id
  <1>4. FoldLeft(LAMBDA sum, id : sum + Tokens[records[id].content], 0, q) = iter[DOMAIN q]
    BY DEF FoldLeft, MapThenFoldSet
  <1> HIDE DEF n, q
  <1>5. F \in [Nat \X (1 .. n) -> Nat]
    <2>1. ASSUME NEW p \in Nat \X (1 .. n) PROVE p[1] + Weight[q[p[2]]] \in Nat
      <3>1. p[1] \in Nat /\ Weight[q[p[2]]] \in Nat
        BY <1>3
      <3> QED BY <3>1
    <2> QED BY <2>1
  <1>6. PICK it \in [SUBSET (1 .. n) -> Nat] : FoldsTo(it, n, 0, F)
    <2> HIDE DEF F
    <2> QED BY <1>1, <1>5, FoldExists
  <1>7. Eq(it)
    <2>1. ASSUME NEW s \in SUBSET (1 .. n), s # {}
          PROVE  F[<<it[s \ {Max(s)}], Max(s)>>]
                   = it[s \ {Max(s)}] + Tokens[records[q[Max(s)]].content]
      <3>1. Max(s) \in 1 .. n
        <4>1. IsFiniteSet(1 .. n) /\ 1 .. n \in SUBSET Int
          BY <1>1, FS_Interval
        <4> QED BY <2>1, <4>1, FS_Subset, GreatestFacts
      <3>2. it[s \ {Max(s)}] \in Nat
        OBVIOUS
      <3> QED BY <1>3, <3>1, <3>2
    <2> HIDE DEF F
    <2> QED BY <1>2, <1>6, <2>1 DEF FoldsTo
  <1>8. Eq(iter)
    <2> HIDE DEF Eq
    <2> QED BY <1>7
  <1> DEFINE P(k) == k <= n => iter[1 .. k] = t[Prefix(q, k)]
             T == {k \in Nat : P(k)}
  <1> HIDE DEF iter, F
  <1>9. P(0)
    <2>1. 1 .. 0 = {}
      OBVIOUS
    <2> QED BY <1>2, <1>8, <2>1, PrefixEmpty DEF SumsUp
  <1>10. ASSUME NEW k \in Nat, P(k) PROVE P(k + 1)
    <2> SUFFICES ASSUME k + 1 <= n PROVE iter[1 .. (k + 1)] = t[Prefix(q, k + 1)]
      OBVIOUS
    <2> DEFINE m == k + 1
    <2>1. m \in 1 .. n /\ m \in Nat \ {0} /\ m - 1 = k /\ k <= n
      BY <1>1
    <2>2. Max(1 .. m) = m /\ (1 .. m) \ {Max(1 .. m)} = 1 .. k /\ 1 .. m # {}
      BY <2>1, MaxOfInterval
    <2>3. iter[1 .. m] = iter[1 .. k] + Tokens[records[q[m]].content]
      <3>1. 1 .. m \in SUBSET (1 .. n)
        BY <1>1, <2>1
      <3> HIDE DEF m
      <3> QED BY <1>2, <1>8, <2>2, <3>1
    <2>4. iter[1 .. k] = t[Prefix(q, k)]
      BY <1>10, <2>1
    <2>5. t[Prefix(q, m)] = t[Prefix(q, k)] + Weight[q[m]]
      <3>1. /\ q[m] \in Prefix(q, m) /\ Prefix(q, m) \ {q[m]} = Prefix(q, k)
            /\ Prefix(q, m) \in SUBSET S
        <4> HIDE DEF m
        <4>1. \A i \in 1 .. n : /\ q[i] \in Prefix(q, i)
                                /\ Prefix(q, i) \ {q[i]} = Prefix(q, i - 1)
                                /\ Prefix(q, i) \in SUBSET S
          <5> TAKE i \in 1 .. n
          <5>1. i \in 1 .. i /\ 1 .. i \subseteq 1 .. n /\ 1 .. (i - 1) = (1 .. i) \ {i}
            BY <1>1
          <5> QED BY <1>2, <5>1 DEF Prefix
        <4> QED BY <2>1, <4>1
      <3>2. S \in SUBSET (1 .. MaxRecords)
        BY MatchingFacts DEF Id
      <3> HIDE DEF m
      <3>3. Prefix(q, m) \in SUBSET (1 .. MaxRecords)
        BY <3>1, <3>2
      <3>4. t[Prefix(q, m)] = t[Prefix(q, m) \ {q[m]}] + Weight[q[m]]
        BY <3>1, <3>3 DEF SumsUp
      <3> QED BY <3>1, <3>4
    <2> HIDE DEF m
    <2>6. Weight[q[m]] = Tokens[records[q[m]].content]
      BY <1>3, <2>1
    <2>7. iter[1 .. m] = t[Prefix(q, m)]
      BY <2>3, <2>4, <2>5, <2>6
    <2> QED BY <2>7 DEF m
  <1>11. 0 \in T /\ T \in SUBSET Nat
    BY <1>9
  <1>12. \A k \in T : k + 1 \in T
    <2> HIDE DEF P
    <2> QED BY <1>10
  <1>13. T = Nat
    <2> HIDE DEF T
    <2> QED BY <1>11, <1>12, Induction
  <1>14. P(n)
    <2> HIDE DEF P
    <2> QED BY <1>1, <1>13
  <1>15. iter[DOMAIN q] = t[S]
    BY <1>1, <1>2, <1>14
  <1> QED BY <1>4, <1>15 DEF q

(* One turn of the loop of retrieve_context_pack.                          *)
PackStep(pack, id) ==
    LET cost == Tokens[records[id].content] IN
    IF pack.truncated THEN pack
    ELSE IF pack.tokens_used + cost > TokenBudget THEN [pack EXCEPT !.truncated = TRUE]
    ELSE [pack EXCEPT !.items = Append(@, id), !.tokens_used = @ + cost]

PackState == [items : Seq(Id), tokens_used : Nat, truncated : BOOLEAN]

(* After k turns over the list r the pack holds the first records of r; it *)
(* is full when it holds fewer than k, and then the next does not fit.     *)
Packed(pack, r, k, t) ==
    /\ pack \in PackState
    /\ pack.tokens_used <= TokenBudget
    /\ \E m \in 0 .. k :
          /\ Len(pack.items) = m
          /\ \A i \in 1 .. m : pack.items[i] = r[i]
          /\ pack.tokens_used = t[Prefix(r, m)]
          /\ IF pack.truncated THEN m < k /\ t[Prefix(r, m)] + Weight[r[m + 1]] > TokenBudget
             ELSE m = k

LEMMA StepTyped ==
    ASSUME NEW pack \in PackState, NEW id \in Id, Tokens[records[id].content] \in Nat
    PROVE  PackStep(pack, id) \in PackState
  <1> DEFINE cost == Tokens[records[id].content]
  <1>1. pack.tokens_used + cost \in Nat /\ Append(pack.items, id) \in Seq(Id)
    BY DEF PackState
  <1> QED BY <1>1 DEF PackStep, PackState

LEMMA StepPacks ==
    ASSUME NEW n \in Nat, NEW r \in [1 .. n -> Id],
           \A i, j \in 1 .. n : r[i] = r[j] => i = j,
           \A i \in 1 .. n : Weight[r[i]] = Tokens[records[r[i]].content] /\ Weight[r[i]] \in Nat,
           NEW t, SumsUp(t, MaxRecords, Weight),
           NEW k \in Nat, k + 1 <= n, NEW pack, Packed(pack, r, k, t)
    PROVE  Packed(PackStep(pack, r[k + 1]), r, k + 1, t)
  <1> DEFINE id == r[k + 1]
             cost == Tokens[records[id].content]
             new == PackStep(pack, id)
             l == k + 1
  <1>1. k + 1 \in 1 .. n /\ id \in Id /\ cost \in Nat /\ cost = Weight[id]
    OBVIOUS
  <1>2. pack \in PackState /\ pack.items \in Seq(Id) /\ pack.tokens_used \in Nat
        /\ pack.tokens_used <= TokenBudget
    BY DEF Packed, PackState
  <1>3. new \in PackState
    BY <1>1, <1>2, StepTyped
  <1>4. PICK m \in 0 .. k :
          /\ Len(pack.items) = m
          /\ \A i \in 1 .. m : pack.items[i] = r[i]
          /\ pack.tokens_used = t[Prefix(r, m)]
          /\ IF pack.truncated THEN m < k /\ t[Prefix(r, m)] + Weight[r[m + 1]] > TokenBudget
             ELSE m = k
    BY DEF Packed
  <1>5. CASE pack.truncated
    <2>1. new = pack
      BY <1>5 DEF PackStep
    <2>2. m \in 0 .. l /\ m < l
      OBVIOUS
    <2>3. Packed(new, r, l, t)
      <3> HIDE DEF new, l, cost, id
      <3> QED BY <1>2, <1>4, <1>5, <2>1, <2>2 DEF Packed
    <2> QED BY <2>3
  <1>6. CASE ~pack.truncated /\ pack.tokens_used + cost > TokenBudget
    <2>1. new = [pack EXCEPT !.truncated = TRUE]
      BY <1>6 DEF PackStep
    <2>2. /\ new.items = pack.items /\ new.tokens_used = pack.tokens_used /\ new.truncated = TRUE
      BY <1>2, <2>1 DEF PackState
    <2>3. m = k /\ m \in 0 .. l /\ m < l
      BY <1>4, <1>6
    <2>4. t[Prefix(r, m)] + Weight[r[m + 1]] > TokenBudget
      BY <1>1, <1>4, <1>6, <2>3
    <2>5. Packed(new, r, l, t)
      <3> HIDE DEF new, l, cost, id
      <3> QED BY <1>2, <1>3, <1>4, <2>2, <2>3, <2>4 DEF Packed
    <2> QED BY <2>5
  <1>7. CASE ~pack.truncated /\ ~(pack.tokens_used + cost > TokenBudget)
    <2>1. new = [pack EXCEPT !.items = Append(@, id), !.tokens_used = @ + cost]
      BY <1>7 DEF PackStep
    <2>2. /\ new.items = Append(pack.items, id) /\ new.tokens_used = pack.tokens_used + cost
          /\ ~new.truncated
      BY <1>2, <1>7, <2>1 DEF PackState
    <2>3. m = k
      BY <1>4, <1>7
    <2>4. Len(new.items) = l /\ \A i \in 1 .. l : new.items[i] = r[i]
      BY <1>1, <1>2, <1>4, <2>2, <2>3
    <2>5. t[Prefix(r, l)] = t[Prefix(r, k)] + Weight[id]
      <3>1. l \in 1 .. l /\ 1 .. l \subseteq 1 .. n /\ 1 .. k = (1 .. l) \ {l}
        OBVIOUS
      <3>2. id = r[l]
        OBVIOUS
      <3>3. Id = 1 .. MaxRecords
        BY DEF Id
      <3> HIDE DEF l, id
      <3>4. id \in Prefix(r, l) /\ Prefix(r, l) \ {id} = Prefix(r, k) /\ Prefix(r, l) \in SUBSET Id
        BY <3>1, <3>2 DEF Prefix
      <3>5. Prefix(r, l) \in SUBSET (1 .. MaxRecords)
        BY <3>3, <3>4
      <3>6. t[Prefix(r, l)] = t[Prefix(r, l) \ {id}] + Weight[id]
        BY <3>4, <3>5 DEF SumsUp
      <3> QED BY <3>4, <3>6
    <2>6. new.tokens_used = t[Prefix(r, l)] /\ new.tokens_used <= TokenBudget
      BY <1>1, <1>2, <1>4, <1>7, <2>2, <2>3, <2>5, PackAssumption
    <2>7. l \in 0 .. l
      OBVIOUS
    <2>8. Packed(new, r, l, t)
      <3> HIDE DEF new, l, cost, id
      <3> QED BY <1>3, <2>2, <2>4, <2>6, <2>7 DEF Packed
    <2> QED BY <2>8
  <1> QED BY <1>5, <1>6, <1>7

LEMMA SearchFacts ==
    ASSUME TypeOK, NEW scope
    PROVE  LET M == Matching(scope)
               N == Cardinality(M)
               n == IF MaxItems < N THEN MaxItems ELSE N
               q == ranked(scope)
               r == search(scope, MaxItems)
           IN /\ n \in Nat /\ N \in Nat /\ n <= N
              /\ r \in [1 .. n -> M]
              /\ \A i \in 1 .. n : r[i] = q[i]
  <1> DEFINE M == Matching(scope)
             N == Cardinality(M)
             n == IF MaxItems < N THEN MaxItems ELSE N
             q == ranked(scope)
             r == search(scope, MaxItems)
  <1>1. N \in Nat /\ q \in [1 .. N -> M] /\ Len(q) = N
    BY RankedFacts
  <1>2. n \in Nat /\ n <= N
    BY <1>1, PackAssumption
  <1>3. r = SubSeq(q, 1, n)
    BY <1>1 DEF search
  <1> HIDE DEF n, q, r, N, M
  <1>4. SubSeq(q, 1, n) = [i \in 1 .. n |-> q[i]]
    BY <1>1, <1>2
  <1>5. \A i \in 1 .. n : i \in 1 .. N
    BY <1>1, <1>2
  <1>6. r \in [1 .. n -> M] /\ \A i \in 1 .. n : r[i] = q[i]
    BY <1>1, <1>3, <1>4, <1>5
  <1> QED BY <1>1, <1>2, <1>6 DEF n, q, r, N, M

LEMMA PackIsPacked ==
    ASSUME TypeOK, NEW scope, NEW t, SumsUp(t, MaxRecords, Weight)
    PROVE  LET r == search(scope, MaxItems)
           IN Packed(retrieve_context_pack(scope), r, Len(r), t)
  <1> DEFINE r == search(scope, MaxItems)
             n == Len(r)
             base == [items |-> <<>>, tokens_used |-> 0, truncated |-> FALSE]
             Eq(it) == it = [s \in SUBSET DOMAIN r |->
                              IF s = {} THEN base ELSE PackStep(it[s \ {Max(s)}], r[Max(s)])]
             iter == CHOOSE it : Eq(it)
             F == [p \in PackState \X (1 .. n) |-> PackStep(p[1], r[p[2]])]
  <1>1. /\ n \in Nat /\ DOMAIN r = 1 .. n /\ r \in [1 .. n -> Matching(scope)]
        /\ \A i, j \in 1 .. n : r[i] = r[j] => i = j
    <2> DEFINE M == Matching(scope)
               N == Cardinality(M)
               l == IF MaxItems < N THEN MaxItems ELSE N
               q == ranked(scope)
    <2>1. l \in Nat /\ N \in Nat /\ l <= N /\ r \in [1 .. l -> M] /\ \A i \in 1 .. l : r[i] = q[i]
      BY SearchFacts
    <2>2. \A i, j \in 1 .. N : q[i] = q[j] => i = j
      BY RankedFacts
    <2> HIDE DEF r, l, q, N, M
    <2>3. n = l /\ DOMAIN r = 1 .. l
      BY <2>1
    <2>4. \A i \in 1 .. l : i \in 1 .. N
      BY <2>1
    <2> QED BY <2>1, <2>2, <2>3, <2>4 DEF M
  <1>2. r \in [1 .. n -> Id]
    BY <1>1, MatchingFacts
  <1>3. \A i \in 1 .. n : /\ Weight[r[i]] = Tokens[records[r[i]].content]
                          /\ Weight[r[i]] \in Nat
    <2>1. \A i \in 1 .. n : r[i] \in Matching(scope) /\ r[i] \in 1 .. MaxRecords
      BY <1>1, <1>2 DEF Id
    <2>2. Weight \in [1 .. MaxRecords -> Nat]
      BY MatchingFacts
    <2>3. \A x \in Matching(scope) : Weight[x] = Tokens[records[x].content]
      BY MatchingFacts
    <2> QED BY <2>1, <2>2, <2>3
  <1>4. retrieve_context_pack(scope) = iter[DOMAIN r]
    BY DEF retrieve_context_pack, FoldLeft, MapThenFoldSet, PackStep
  <1> HIDE DEF r, n
  <1>5. base \in PackState
    BY DEF PackState
  <1>6. F \in [PackState \X (1 .. n) -> PackState]
    <2>1. ASSUME NEW p \in PackState \X (1 .. n) PROVE PackStep(p[1], r[p[2]]) \in PackState
      <3>1. p[1] \in PackState /\ p[2] \in 1 .. n
        OBVIOUS
      <3>2. r[p[2]] \in Id /\ Tokens[records[r[p[2]]].content] \in Nat
        BY <1>2, <1>3, <3>1
      <3> QED BY <3>1, <3>2, StepTyped
    <2> QED BY <2>1
  <1>7. PICK it \in [SUBSET (1 .. n) -> PackState] : FoldsTo(it, n, base, F)
    <2> HIDE DEF F, base
    <2> QED BY <1>1, <1>5, <1>6, FoldExists
  <1>8. Eq(it)
    <2>1. ASSUME NEW s \in SUBSET (1 .. n), s # {}
          PROVE  F[<<it[s \ {Max(s)}], Max(s)>>] = PackStep(it[s \ {Max(s)}], r[Max(s)])
      <3>1. Max(s) \in 1 .. n
        <4>1. IsFiniteSet(1 .. n) /\ 1 .. n \in SUBSET Int
          BY <1>1, FS_Interval
        <4> QED BY <2>1, <4>1, FS_Subset, GreatestFacts
      <3>2. it[s \ {Max(s)}] \in PackState
        OBVIOUS
      <3>3. <<it[s \ {Max(s)}], Max(s)>> \in PackState \X (1 .. n)
        BY <3>1, <3>2
      <3> QED BY <3>3
    <2> HIDE DEF F, base
    <2> QED BY <1>1, <1>7, <2>1 DEF FoldsTo
  <1>9. Eq(iter)
    <2> HIDE DEF Eq
    <2> QED BY <1>8
  <1> DEFINE P(k) == k <= n => Packed(iter[1 .. k], r, k, t)
             T == {k \in Nat : P(k)}
  <1> HIDE DEF iter, F
  <1>10. P(0)
    <2>1. 1 .. 0 = {} /\ 0 \in 0 .. 0
      OBVIOUS
    <2>2. iter[1 .. 0] = base
      BY <1>1, <1>9, <2>1
    <2>3. Prefix(r, 0) = {} /\ t[{}] = 0
      BY PrefixEmpty DEF SumsUp
    <2>4. base.items = <<>> /\ base.tokens_used = 0 /\ base.truncated = FALSE
      OBVIOUS
    <2>5. 0 <= TokenBudget /\ Len(base.items) = 0
      BY PackAssumption
    <2>6. Packed(base, r, 0, t)
      <3> HIDE DEF base
      <3> QED BY <1>5, <2>1, <2>3, <2>4, <2>5 DEF Packed
    <2> QED BY <2>2, <2>6
  <1>11. ASSUME NEW k \in Nat, P(k) PROVE P(k + 1)
    <2> SUFFICES ASSUME k + 1 <= n PROVE Packed(iter[1 .. (k + 1)], r, k + 1, t)
      OBVIOUS
    <2> DEFINE m == k + 1
    <2>1. m \in 1 .. n /\ m \in Nat \ {0} /\ m - 1 = k /\ k <= n
      BY <1>1
    <2>2. Max(1 .. m) = m /\ (1 .. m) \ {Max(1 .. m)} = 1 .. k /\ 1 .. m # {}
      BY <2>1, MaxOfInterval
    <2>3. iter[1 .. m] = PackStep(iter[1 .. k], r[m])
      <3>1. 1 .. m \in SUBSET (1 .. n)
        BY <1>1, <2>1
      <3> HIDE DEF m
      <3> QED BY <1>1, <1>9, <2>2, <3>1
    <2>4. Packed(iter[1 .. k], r, k, t)
      BY <1>11, <2>1
    <2>5. Packed(PackStep(iter[1 .. k], r[k + 1]), r, k + 1, t)
      BY <1>1, <1>2, <1>3, <2>4, StepPacks
    <2> QED BY <2>3, <2>5
  <1>12. 0 \in T /\ T \in SUBSET Nat
    BY <1>10
  <1>13. \A k \in T : k + 1 \in T
    <2> HIDE DEF P
    <2> QED BY <1>11
  <1>14. T = Nat
    <2> HIDE DEF T
    <2> QED BY <1>12, <1>13, Induction
  <1>15. P(n)
    <2> HIDE DEF P
    <2> QED BY <1>1, <1>14
  <1>16. n <= n
    BY <1>1
  <1> QED BY <1>1, <1>4, <1>15, <1>16 DEF n, r

LEMMA TypedPackIsBest == TypeOK => ContextPackIsBestPrefix
  <1> SUFFICES ASSUME TypeOK, NEW scope \in Scope
        PROVE LET pack == retrieve_context_pack(scope)
                  chosen == {pack.items[i] : i \in DOMAIN pack.items}
                  left_out == Matching(scope) \ chosen
                  cost(S) == FoldLeft(LAMBDA sum, id : sum + Tokens[records[id].content], 0,
                                      SetToSeq(S))
              IN /\ chosen \subseteq Matching(scope)
                 /\ cost(chosen) <= TokenBudget
                 /\ \A a \in chosen, b \in left_out : Ranks(a, b)
                 /\ left_out # {} =>
                       \/ Cardinality(chosen) = MaxItems
                       \/ /\ pack.truncated
                          /\ \E b \in left_out : cost(chosen \cup {b}) > TokenBudget
    BY DEF ContextPackIsBestPrefix
  <1> DEFINE pack == retrieve_context_pack(scope)
             chosen == {pack.items[i] : i \in DOMAIN pack.items}
             M == Matching(scope)
             left_out == M \ chosen
             cost(S) == FoldLeft(LAMBDA sum, id : sum + Tokens[records[id].content], 0,
                                 SetToSeq(S))
             N == Cardinality(M)
             n == IF MaxItems < N THEN MaxItems ELSE N
             q == ranked(scope)
             r == search(scope, MaxItems)
  <1>1. PICK t : SumsUp(t, MaxRecords, Weight)
    BY BoundAssumption, MatchingFacts, SumExists
  <1>2. \A S \in SUBSET M : cost(S) = t[S]
    BY <1>1, CostIsSum
  <1>3. /\ q \in [1 .. N -> M]
        /\ \A i, j \in 1 .. N : q[i] = q[j] => i = j
        /\ \A i, j \in 1 .. N : i < j => Ranks(q[i], q[j])
        /\ Prefix(q, N) = M
    BY RankedFacts
  <1>4. /\ n \in Nat /\ N \in Nat /\ n <= N
        /\ r \in [1 .. n -> M]
        /\ \A i \in 1 .. n : r[i] = q[i]
    BY SearchFacts
  <1>5. Packed(pack, r, Len(r), t)
    BY <1>1, PackIsPacked
  <1>6. n = N \/ n = MaxItems
    OBVIOUS
  <1> HIDE DEF pack, r, q, n, N, cost
  <1>7. Len(r) = n
    BY <1>4
  <1>8. pack \in PackState /\ pack.items \in Seq(Id) /\ pack.tokens_used <= TokenBudget
    BY <1>5 DEF Packed, PackState
  <1>9. PICK m \in 0 .. n :
          /\ Len(pack.items) = m
          /\ \A i \in 1 .. m : pack.items[i] = r[i]
          /\ pack.tokens_used = t[Prefix(r, m)]
          /\ IF pack.truncated THEN m < n /\ t[Prefix(r, m)] + Weight[r[m + 1]] > TokenBudget
             ELSE m = n
    BY <1>5, <1>7 DEF Packed
  <1>10. m \in Nat /\ 1 .. m \subseteq 1 .. n /\ 1 .. n \subseteq 1 .. N
    BY <1>4
  <1>11. DOMAIN pack.items = 1 .. m
    BY <1>8, <1>9
  <1>12. chosen = Prefix(r, m) /\ chosen = Prefix(q, m)
    BY <1>4, <1>9, <1>10, <1>11 DEF Prefix
  <1>13. chosen \in SUBSET M
    BY <1>3, <1>10, <1>12 DEF Prefix
  <1>14. cost(chosen) <= TokenBudget
    BY <1>2, <1>8, <1>9, <1>12, <1>13
  <1>15. \A b \in left_out : \E j \in 1 .. N : b = q[j] /\ m < j
    <2> SUFFICES ASSUME NEW b \in left_out PROVE \E j \in 1 .. N : b = q[j] /\ m < j
      OBVIOUS
    <2>1. PICK j \in 1 .. N : b = q[j]
      BY <1>3 DEF Prefix
    <2>2. j \notin 1 .. m
      BY <1>12, <2>1 DEF Prefix
    <2>3. m < j
      BY <1>4, <1>10, <2>2
    <2> QED BY <2>1, <2>3
  <1>16. ASSUME NEW a \in chosen, NEW b \in left_out PROVE Ranks(a, b)
    <2>1. PICK i \in 1 .. m : a = q[i]
      BY <1>12 DEF Prefix
    <2>2. PICK j \in 1 .. N : b = q[j] /\ m < j
      BY <1>15
    <2>3. i \in 1 .. N /\ i < j
      BY <1>4, <1>10, <2>1, <2>2
    <2> QED BY <1>3, <2>1, <2>2, <2>3
  <1>17. CASE pack.truncated
    <2> DEFINE b == r[m + 1]
    <2>1. m + 1 \in 1 .. n /\ m + 1 \notin 1 .. m /\ m + 1 \in 1 .. N
      BY <1>4, <1>9, <1>10, <1>17
    <2>2. b \in M /\ b = q[m + 1]
      BY <1>4, <2>1
    <2>3. b \notin chosen
      <3>1. ASSUME NEW i \in 1 .. m, b = q[i] PROVE FALSE
        <4>1. i \in 1 .. N /\ q[i] = q[m + 1]
          BY <1>10, <2>2, <3>1
        <4>2. i = m + 1
          BY <1>3, <2>1, <4>1
        <4> QED BY <2>1, <4>2
      <3> HIDE DEF b, chosen
      <3> QED BY <1>12, <3>1 DEF Prefix
    <2>4. chosen \cup {b} \in SUBSET M /\ (chosen \cup {b}) \ {b} = chosen /\ b \in chosen \cup {b}
      BY <1>13, <2>2, <2>3
    <2>5. M \in SUBSET (1 .. MaxRecords)
      BY MatchingFacts DEF Id
    <2> HIDE DEF M, chosen
    <2>6. chosen \cup {b} \in SUBSET (1 .. MaxRecords)
      BY <2>4, <2>5
    <2>7. t[chosen \cup {b}] = t[chosen] + Weight[b]
      <3> DEFINE s == chosen \cup {b}
      <3>1. s \in SUBSET (1 .. MaxRecords) /\ b \in s /\ s \ {b} = chosen
        BY <2>4, <2>6
      <3> HIDE DEF s, b
      <3>2. t[s] = t[s \ {b}] + Weight[b]
        BY <1>1, <3>1 DEF SumsUp
      <3> QED BY <3>1, <3>2 DEF s
    <2>8. cost(chosen \cup {b}) > TokenBudget
      BY <1>2, <1>9, <1>12, <1>17, <2>4, <2>7
    <2> QED BY <1>13, <1>14, <1>16, <1>17, <2>2, <2>3, <2>8 DEF pack, cost, M, chosen
  <1>18. CASE ~pack.truncated
    <2>1. m = n
      BY <1>9, <1>18
    <2>2. ASSUME left_out # {} PROVE n = MaxItems
      <3>1. PICK j \in 1 .. N : m < j
        BY <1>15, <2>2
      <3>2. n # N
        BY <1>4, <2>1, <3>1
      <3> QED BY <1>6, <3>2
    <2>3. Cardinality(chosen) = n
      <3> DEFINE f == [i \in 1 .. n |-> q[i]]
      <3>1. f \in [1 .. n -> chosen] /\ \A x \in chosen : \E i \in 1 .. n : f[i] = x
        BY <1>3, <1>10, <1>12, <2>1 DEF Prefix
      <3>2. \A i, j \in 1 .. n : f[i] = f[j] => i = j
        BY <1>3, <1>10
      <3> HIDE DEF f, chosen
      <3>3. f \in Bijection(1 .. n, chosen)
        BY <3>1, <3>2 DEF Bijection, Injection, Surjection, IsInjective
      <3>4. ExistsBijection(1 .. n, chosen)
        BY <3>3 DEF ExistsBijection
      <3> QED BY <1>4, <3>4, FS_CountingElements
    <2> QED BY <1>13, <1>14, <1>16, <2>2, <2>3 DEF pack, cost
  <1> QED BY <1>17, <1>18

(* The context pack is the best that fits the budget, whatever the records,*)
(* their sizes and the limits: LocalMemoryClient.retrieve_context_pack     *)
(* stops at the first record over the budget and passes none by.           *)
THEOREM StoresPackIsBest == Spec => []ContextPackIsBestPrefix
  <1>1. AcknowledgedInv => ContextPackIsBestPrefix
    BY TypedPackIsBest DEF AcknowledgedInv
  <1> QED BY <1>1, AcknowledgedInit, AcknowledgedNext, PTL DEF Spec

-----------------------------------------------------------------------------
(* The profile: searches, deletions and what is left of the records        *)

RecordSeq == Seq(ProfileRecord)

(* A record of that relation and value is live.                            *)
Has(fs, r, v) == \E i \in DOMAIN fs : fs[i].relation = r /\ fs[i].value = v

(* ... and it is the newest of that relation.                              *)
Latest(fs, r, v) ==
    \E i \in DOMAIN fs : /\ fs[i].relation = r /\ fs[i].value = v
                         /\ \A j \in DOMAIN fs : fs[j].relation = r => j <= i

Favorite == {"favorite_food", "favorite_general"}

KeepsFavorites(gs, fs) == \A r \in Favorite : \A v : Latest(fs, r, v) => Latest(gs, r, v)

(* ... or one that names a person under a label.                           *)
Names(fs, label, p) ==
    \E i \in DOMAIN fs : /\ fs[i].relation = "relation_name"
                         /\ fs[i].label = label /\ fs[i].value = p

(* At most one person is named under a label.                              *)
Single(fs, label) ==
    \A i, j \in DOMAIN fs :
        /\ fs[i].relation = "relation_name" /\ fs[i].label = label
        /\ fs[j].relation = "relation_name" /\ fs[j].label = label
        => i = j

(* All records fit the searches of snapshot and conflict resolution.       *)
Fits(fs) ==
    /\ fs \in RecordSeq
    /\ Cardinality(OfType(fs, "FACT")) <= ScanLimit
    /\ Cardinality(OfType(fs, "PREFERENCE")) <= ScanLimit

LEMMA OfTypeFinite ==
    ASSUME NEW fs \in RecordSeq, NEW type
    PROVE  /\ DOMAIN fs \in SUBSET Int /\ IsFiniteSet(DOMAIN fs)
           /\ OfType(fs, type) \in SUBSET Int /\ IsFiniteSet(OfType(fs, type))
           /\ Cardinality(OfType(fs, type)) \in Nat
  <1>1. DOMAIN fs = 1 .. Len(fs) /\ Len(fs) \in Nat
    BY DEF RecordSeq
  <1>2. IsFiniteSet(1 .. Len(fs)) /\ \A i \in 1 .. Len(fs) : i \in Int
    BY <1>1, FS_Interval
  <1>3. OfType(fs, type) \in SUBSET DOMAIN fs
    BY DEF OfType
  <1>4. DOMAIN fs \in SUBSET Int /\ IsFiniteSet(DOMAIN fs)
    BY <1>1, <1>2
  <1>5. IsFiniteSet(OfType(fs, type))
    BY <1>3, <1>4, FS_Subset
  <1> QED BY <1>3, <1>4, <1>5, FS_CardinalityType

(* A search whose limit is not reached finds every record of its type.     *)
LEMMA SearchAll ==
    ASSUME NEW fs \in RecordSeq, NEW type, NEW lim \in Nat,
           Cardinality(OfType(fs, type)) <= lim
    PROVE  search_profile(fs, type, lim) = OfType(fs, type)
  <1> DEFINE T == OfType(fs, type)
             before(j, i) == \/ importance(fs[j]) > importance(fs[i])
                             \/ importance(fs[j]) = importance(fs[i]) /\ j > i
             B(i) == {j \in T : before(j, i)}
  <1>1. IsFiniteSet(T) /\ T \in SUBSET Int /\ Cardinality(T) \in Nat
    BY OfTypeFinite
  <1>2. ASSUME NEW i \in T PROVE Cardinality(B(i)) < lim
    <2>1. importance(fs[i]) \in Int /\ i \in Int
      BY <1>1 DEF importance
    <2>2. ~before(i, i)
      BY <2>1
    <2>3. B(i) \in SUBSET (T \ {i})
      BY <2>2
    <2> HIDE DEF B, T
    <2>4. IsFiniteSet(T \ {i}) /\ Cardinality(T \ {i}) = Cardinality(T) - 1
      BY <1>1, <1>2, FS_RemoveElement
    <2>5. IsFiniteSet(B(i)) /\ Cardinality(B(i)) <= Cardinality(T) - 1
      BY <2>3, <2>4, FS_Subset
    <2>6. Cardinality(B(i)) \in Nat
      BY <2>5, FS_CardinalityType
    <2> QED BY <1>1, <2>5, <2>6 DEF T
  <1> QED BY <1>2 DEF search_profile

LEMMA WithoutFacts ==
    ASSUME NEW fs \in RecordSeq, NEW gone
    PROVE  LET gs == Without(fs, gone) IN
           /\ gs \in RecordSeq
           /\ \E f \in [DOMAIN gs -> DOMAIN fs \ gone] :
                 /\ \A k \in DOMAIN gs : gs[k] = fs[f[k]]
                 /\ \A i \in DOMAIN fs \ gone : \E k \in DOMAIN gs : f[k] = i
                 /\ \A j, k \in DOMAIN gs : f[j] = f[k] => j = k
                 /\ \A j, k \in DOMAIN gs : f[j] <= f[k] => j <= k
  <1> DEFINE D == DOMAIN fs \ gone
             f == InOrder(D)
             gs == Without(fs, gone)
             N == Cardinality(D)
  <1>1. D \in SUBSET Int /\ IsFiniteSet(D)
    <2>1. DOMAIN fs \in SUBSET Int /\ IsFiniteSet(DOMAIN fs) /\ D \in SUBSET DOMAIN fs
      BY OfTypeFinite
    <2> HIDE DEF D
    <2> QED BY <2>1, FS_Subset
  <1>2. /\ f \in Seq(D) /\ N \in Nat /\ DOMAIN f = 1 .. N /\ Len(f) = N
        /\ \A i \in D : \E k \in DOMAIN f : f[k] = i
        /\ \A j, k \in DOMAIN f : j < k => f[j] < f[k]
    <2> HIDE DEF D
    <2> QED BY <1>1, InOrderFacts
  <1>3. gs = [k \in DOMAIN f |-> fs[f[k]]]
    BY DEF Without
  <1>4. D \subseteq DOMAIN fs /\ \A i \in DOMAIN fs : fs[i] \in ProfileRecord
    BY DEF RecordSeq
  <1> HIDE DEF D, f, N, gs
  <1>5. f \in [1 .. N -> D] /\ \A k \in 1 .. N : f[k] \in D /\ f[k] \in Int /\ k \in Int
    <2>1. f \in [1 .. N -> D] /\ \A k \in 1 .. N : f[k] \in D /\ k \in Int
      BY <1>2
    <2>2. \A i \in D : i \in Int
      BY <1>1
    <2> QED BY <2>1, <2>2
  <1>6. DOMAIN gs = 1 .. N /\ \A k \in 1 .. N : gs[k] = fs[f[k]] /\ gs[k] \in ProfileRecord
    BY <1>2, <1>3, <1>4, <1>5
  <1>7. gs \in RecordSeq
    <2>1. gs \in [1 .. N -> ProfileRecord]
      BY <1>2, <1>3, <1>6
    <2> QED BY <1>2, <2>1 DEF RecordSeq
  <1>8. \A j, k \in DOMAIN gs : f[j] = f[k] => j = k
    <2>1. ASSUME NEW j \in 1 .. N, NEW k \in 1 .. N, f[j] = f[k] PROVE j = k
      <3>1. ~(j < k) /\ ~(k < j)
        BY <1>2, <1>5, <2>1
      <3> QED BY <1>5, <3>1
    <2> QED BY <1>6, <2>1
  <1>11. \A j, k \in DOMAIN gs : f[j] <= f[k] => j <= k
    <2>1. ASSUME NEW j \in 1 .. N, NEW k \in 1 .. N, f[j] <= f[k] PROVE j <= k
      <3>1. ~(k < j)
        BY <1>2, <1>5, <2>1
      <3> QED BY <1>5, <3>1
    <2> QED BY <1>6, <2>1
  <1>9. f \in [DOMAIN gs -> DOMAIN fs \ gone]
    BY <1>5, <1>6 DEF D
  <1>10. \A i \in DOMAIN fs \ gone : \E k \in DOMAIN gs : f[k] = i
    BY <1>2, <1>6 DEF D
  <1> QED BY <1>6, <1>7, <1>8, <1>9, <1>10, <1>11 DEF gs

(* A deletion leaves the other records, and no more of any type.           *)
LEMMA WithoutLeaves ==
    ASSUME NEW fs \in RecordSeq, NEW gone
    PROVE  /\ Without(fs, gone) \in RecordSeq
           /\ \A r, v : Has(Without(fs, gone), r, v) <=>
                 \E i \in DOMAIN fs \ gone : fs[i].relation = r /\ fs[i].value = v
           /\ \A label, p : Names(Without(fs, gone), label, p) <=>
                 \E i \in DOMAIN fs \ gone : /\ fs[i].relation = "relation_name"
                                             /\ fs[i].label = label /\ fs[i].value = p
           /\ \A label : Single(fs, label) => Single(Without(fs, gone), label)
           /\ \A type : Cardinality(OfType(Without(fs, gone), type))
                           <= Cardinality(OfType(fs, type))
           /\ \A r, v : /\ \A i \in DOMAIN fs : i \in gone => fs[i].relation # r
                        /\ Latest(fs, r, v)
                        => Latest(Without(fs, gone), r, v)
  <1> DEFINE gs == Without(fs, gone)
  <1>1. gs \in RecordSeq
    BY WithoutFacts
  <1>2. PICK f \in [DOMAIN gs -> DOMAIN fs \ gone] :
            /\ \A k \in DOMAIN gs : gs[k] = fs[f[k]]
            /\ \A i \in DOMAIN fs \ gone : \E k \in DOMAIN gs : f[k] = i
            /\ \A j, k \in DOMAIN gs : f[j] = f[k] => j = k
            /\ \A j, k \in DOMAIN gs : f[j] <= f[k] => j <= k
    BY WithoutFacts
  <1> HIDE DEF gs
  <1>3. ASSUME NEW r, NEW v
        PROVE  Has(gs, r, v) <=>
                  \E i \in DOMAIN fs \ gone : fs[i].relation = r /\ fs[i].value = v
    BY <1>2 DEF Has
  <1>4. ASSUME NEW label, NEW p
        PROVE  Names(gs, label, p) <=>
                 \E i \in DOMAIN fs \ gone : /\ fs[i].relation = "relation_name"
                                             /\ fs[i].label = label /\ fs[i].value = p
    BY <1>2 DEF Names
  <1>5. ASSUME NEW label, Single(fs, label) PROVE Single(gs, label)
    BY <1>2, <1>5 DEF Single
  <1>6. ASSUME NEW type
        PROVE  Cardinality(OfType(gs, type)) <= Cardinality(OfType(fs, type))
    <2> DEFINE G == OfType(gs, type)
               F == OfType(fs, type)
               g == [k \in G |-> f[k]]
    <2>1. g \in [G -> F] /\ \A j, k \in G : g[j] = g[k] => j = k
      BY <1>2 DEF OfType
    <2>2. IsFiniteSet(F)
      BY OfTypeFinite
    <2> HIDE DEF G, F, g
    <2>3. g \in Injection(G, F)
      BY <2>1 DEF Injection, IsInjective
    <2> QED BY <2>2, <2>3, FS_Injection DEF G, F
  <1>7. ASSUME NEW r, NEW v, \A i \in DOMAIN fs : i \in gone => fs[i].relation # r,
               Latest(fs, r, v)
        PROVE  Latest(gs, r, v)
    <2>1. PICK i \in DOMAIN fs : /\ fs[i].relation = r /\ fs[i].value = v
                                 /\ \A j \in DOMAIN fs : fs[j].relation = r => j <= i
      BY <1>7 DEF Latest
    <2>2. PICK k \in DOMAIN gs : f[k] = i
      BY <1>2, <1>7, <2>1
    <2>3. ASSUME NEW j \in DOMAIN gs, gs[j].relation = r PROVE j <= k
      <3>1. f[j] \in DOMAIN fs /\ fs[f[j]].relation = r
        BY <1>2, <2>3
      <3>2. f[j] <= f[k]
        BY <2>1, <2>2, <3>1
      <3> QED BY <1>2, <3>2
    <2>4. gs[k].relation = r /\ gs[k].value = v
      BY <1>2, <2>1, <2>2
    <2> QED BY <2>3, <2>4 DEF Latest
  <1> QED BY <1>1, <1>3, <1>4, <1>5, <1>6, <1>7 DEF gs

LEMMA WithoutFits ==
    ASSUME NEW fs \in RecordSeq, NEW gone
    PROVE  /\ Fits(fs) => Fits(Without(fs, gone))
           /\ ~Crowded(fs) => ~Crowded(Without(fs, gone))
  <1> DEFINE gs == Without(fs, gone)
  <1>1. gs \in RecordSeq
    BY WithoutLeaves
  <1>2. \A type : Cardinality(OfType(gs, type)) <= Cardinality(OfType(fs, type))
    BY WithoutLeaves
  <1>3. /\ Cardinality(OfType(gs, "FACT")) \in Nat
        /\ Cardinality(OfType(gs, "PREFERENCE")) \in Nat
        /\ Cardinality(OfType(fs, "FACT")) \in Nat
        /\ Cardinality(OfType(fs, "PREFERENCE")) \in Nat
    <2> HIDE DEF gs
    <2> QED BY <1>1, OfTypeFinite
  <1>4. /\ Cardinality(OfType(gs, "FACT")) <= Cardinality(OfType(fs, "FACT"))
        /\ Cardinality(OfType(gs, "PREFERENCE")) <= Cardinality(OfType(fs, "PREFERENCE"))
    BY <1>2
  <1> HIDE DEF gs
  <1>5. Fits(fs) => Fits(gs)
    BY <1>1, <1>3, <1>4, LimitAssumption DEF Fits
  <1>6. ~Crowded(fs) => ~Crowded(gs)
    BY <1>3, <1>4, LimitAssumption DEF Crowded
  <1> QED BY <1>5, <1>6 DEF gs

LEMMA UncrowdedFits ==
    ASSUME NEW fs \in RecordSeq, ~Crowded(fs)
    PROVE  Fits(fs)
  <1>1. Cardinality(OfType(fs, "FACT")) \in Nat /\ Cardinality(OfType(fs, "PREFERENCE")) \in Nat
    BY OfTypeFinite
  <1> QED BY <1>1, LimitAssumption DEF Crowded, Fits

(* The searches of a profile that fits find everything.                    *)
LEMMA FitsSearch ==
    ASSUME NEW fs, Fits(fs)
    PROVE  /\ search_profile(fs, "FACT", ScanLimit) = OfType(fs, "FACT")
           /\ search_profile(fs, "PREFERENCE", ScanLimit) = OfType(fs, "PREFERENCE")
           /\ search_profile(fs, "FACT", ScanLimit)
                 \cup search_profile(fs, "PREFERENCE", ScanLimit) = DOMAIN fs
  <1>1. search_profile(fs, "FACT", ScanLimit) = OfType(fs, "FACT")
    BY SearchAll, LimitAssumption DEF Fits
  <1>2. search_profile(fs, "PREFERENCE", ScanLimit) = OfType(fs, "PREFERENCE")
    BY SearchAll, LimitAssumption DEF Fits
  <1>3. OfType(fs, "FACT") \cup OfType(fs, "PREFERENCE") = DOMAIN fs
    BY DEF OfType, MemoryType
  <1> QED BY <1>1, <1>2, <1>3

(* A kind of write: what is live afterwards, of facts and of names.        *)
Deletes(gs, fs, relations, values) ==
    /\ Fits(gs)
    /\ ~Crowded(fs) => ~Crowded(gs)
    /\ \A r, v : Has(gs, r, v) <=> Has(fs, r, v) /\ ~(r \in relations /\ v \in values)
    /\ \A label, p : Names(gs, label, p) => Names(fs, label, p)
    /\ \A label : Single(fs, label) => Single(gs, label)
    /\ KeepsFavorites(gs, fs)

LEMMA DeletedRecords ==
    ASSUME NEW fs, Fits(fs), NEW relations, NEW values, "preference" \notin relations,
           "favorite_food" \notin relations, "favorite_general" \notin relations
    PROVE  Deletes(delete_profile_records(fs, relations, values), fs, relations, values)
  <1> DEFINE gone == {i \in search_profile(fs, "FACT", ScanLimit) :
                         fs[i].relation \in relations /\ fs[i].value \in values}
             gs == Without(fs, gone)
  <1>1. delete_profile_records(fs, relations, values) = gs
    BY DEF delete_profile_records
  <1>2. \A i \in DOMAIN fs : i \in gone <=> fs[i].relation \in relations /\ fs[i].value \in values
    BY FitsSearch DEF OfType, MemoryType
  <1>3. fs \in RecordSeq
    BY DEF Fits
  <1> HIDE DEF gone
  <1>4. Fits(gs) /\ (~Crowded(fs) => ~Crowded(gs))
    BY <1>3, WithoutFits
  <1>5. \A r, v : Has(gs, r, v) <=> Has(fs, r, v) /\ ~(r \in relations /\ v \in values)
    <2>1. \A r, v : Has(gs, r, v) <=>
                 \E i \in DOMAIN fs \ gone : fs[i].relation = r /\ fs[i].value = v
      BY <1>3, WithoutLeaves
    <2> HIDE DEF gs
    <2> QED BY <1>2, <2>1 DEF Has
  <1>6. \A label, p : Names(gs, label, p) => Names(fs, label, p)
    <2>1. \A label, p : Names(gs, label, p) <=>
                 \E i \in DOMAIN fs \ gone : /\ fs[i].relation = "relation_name"
                                             /\ fs[i].label = label /\ fs[i].value = p
      BY <1>3, WithoutLeaves
    <2> HIDE DEF gs
    <2> QED BY <2>1 DEF Names
  <1>7. \A label : Single(fs, label) => Single(gs, label)
    BY <1>3, WithoutLeaves
  <1>8. KeepsFavorites(gs, fs)
    <2>1. \A r, v : /\ \A i \in DOMAIN fs : i \in gone => fs[i].relation # r
                   /\ Latest(fs, r, v)
                   => Latest(gs, r, v)
      BY <1>3, WithoutLeaves
    <2> HIDE DEF gs
    <2>2. \A r \in Favorite : \A i \in DOMAIN fs : i \in gone => fs[i].relation # r
      BY <1>2 DEF Favorite
    <2> QED BY <2>1, <2>2 DEF KeepsFavorites
  <1> HIDE DEF gs
  <1> QED BY <1>1, <1>4, <1>5, <1>6, <1>7, <1>8 DEF Deletes

LEMMA ResolvedPreference ==
    ASSUME NEW fs, Fits(fs), NEW value, NEW relation
    PROVE  Deletes(resolve_preference_conflicts(fs, value, relation), fs,
                   {IF relation = "preference" THEN "negative_preference" ELSE "preference"},
                   {value})
  <1> DEFINE opposite == IF relation = "preference" THEN "negative_preference" ELSE "preference"
             gone == {i \in search_profile(fs, "FACT", ScanLimit)
                              \cup search_profile(fs, "PREFERENCE", ScanLimit) :
                         fs[i].relation = opposite /\ fs[i].value = value}
             gs == Without(fs, gone)
  <1>1. resolve_preference_conflicts(fs, value, relation) = gs
    BY DEF resolve_preference_conflicts
  <1>2. gone = {i \in DOMAIN fs : fs[i].relation = opposite /\ fs[i].value = value}
    BY FitsSearch
  <1>3. fs \in RecordSeq /\ opposite \notin Favorite
    BY DEF Fits, Favorite
  <1> HIDE DEF gone, opposite
  <1>4. Fits(gs) /\ (~Crowded(fs) => ~Crowded(gs))
    BY <1>3, WithoutFits
  <1>5. \A r, v : Has(gs, r, v) <=> Has(fs, r, v) /\ ~(r \in {opposite} /\ v \in {value})
    <2>1. \A r, v : Has(gs, r, v) <=>
                 \E i \in DOMAIN fs \ gone : fs[i].relation = r /\ fs[i].value = v
      BY <1>3, WithoutLeaves
    <2> HIDE DEF gs
    <2> QED BY <1>2, <2>1 DEF Has
  <1>6. \A label, p : Names(gs, label, p) => Names(fs, label, p)
    <2>1. \A label, p : Names(gs, label, p) <=>
                 \E i \in DOMAIN fs \ gone : /\ fs[i].relation = "relation_name"
                                             /\ fs[i].label = label /\ fs[i].value = p
      BY <1>3, WithoutLeaves
    <2> HIDE DEF gs
    <2> QED BY <2>1 DEF Names
  <1>7. \A label : Single(fs, label) => Single(gs, label)
    BY <1>3, WithoutLeaves
  <1>9. KeepsFavorites(gs, fs)
    <2>1. \A r, v : /\ \A i \in DOMAIN fs : i \in gone => fs[i].relation # r
                   /\ Latest(fs, r, v)
                   => Latest(gs, r, v)
      BY <1>3, WithoutLeaves
    <2> HIDE DEF gs
    <2>2. \A r \in Favorite : \A i \in DOMAIN fs : i \in gone => fs[i].relation # r
      BY <1>2, <1>3
    <2> QED BY <2>1, <2>2 DEF KeepsFavorites
  <1> HIDE DEF gs
  <1>8. Deletes(gs, fs, {opposite}, {value})
    BY <1>4, <1>5, <1>6, <1>7, <1>9 DEF Deletes
  <1> QED BY <1>1, <1>8 DEF opposite

(* What an appended record adds.                                           *)
LEMMA AppendedRecord ==
    ASSUME NEW fs \in RecordSeq, NEW m \in ProfileRecord
    PROVE  /\ Append(fs, m) \in RecordSeq
           /\ \A r, v : Has(Append(fs, m), r, v) <=>
                 Has(fs, r, v) \/ (m.relation = r /\ m.value = v)
           /\ \A label, p : Names(Append(fs, m), label, p) <=>
                 \/ Names(fs, label, p)
                 \/ m.relation = "relation_name" /\ m.label = label /\ m.value = p
           /\ \A label : Single(fs, label)
                 /\ (m.relation = "relation_name" /\ m.label = label
                        => \A p : ~Names(fs, label, p))
                 => Single(Append(fs, m), label)
           /\ MemoryType(m) = "FACT" /\ ~Crowded(fs) => Fits(Append(fs, m))
           /\ Latest(Append(fs, m), m.relation, m.value)
           /\ \A r, v : r # m.relation /\ Latest(fs, r, v) => Latest(Append(fs, m), r, v)
  <1> DEFINE gs == Append(fs, m)
             N == Len(fs) + 1
  <1>1. /\ gs \in RecordSeq /\ Len(fs) \in Nat /\ DOMAIN fs = 1 .. Len(fs)
        /\ DOMAIN gs = 1 .. N /\ gs[N] = m /\ \A i \in DOMAIN fs : gs[i] = fs[i]
    BY DEF RecordSeq
  <1>2. DOMAIN gs = DOMAIN fs \cup {N} /\ N \notin DOMAIN fs
    BY <1>1
  <1>9. N \in DOMAIN gs /\ \A j \in DOMAIN gs : j <= N
    BY <1>1
  <1> HIDE DEF gs, N
  <1>3. ASSUME NEW r, NEW v
        PROVE  Has(gs, r, v) <=> Has(fs, r, v) \/ (m.relation = r /\ m.value = v)
    BY <1>1, <1>2 DEF Has
  <1>4. ASSUME NEW label, NEW p
        PROVE  Names(gs, label, p) <=>
                 \/ Names(fs, label, p)
                 \/ m.relation = "relation_name" /\ m.label = label /\ m.value = p
    BY <1>1, <1>2 DEF Names
  <1>5. ASSUME NEW label, Single(fs, label),
               m.relation = "relation_name" /\ m.label = label => \A p : ~Names(fs, label, p)
        PROVE  Single(gs, label)
    BY <1>1, <1>2, <1>5 DEF Single, Names
  <1>6. ASSUME MemoryType(m) = "FACT", ~Crowded(fs) PROVE Fits(gs)
    <2>1. OfType(gs, "FACT") = OfType(fs, "FACT") \cup {N}
      BY <1>1, <1>2, <1>6 DEF OfType
    <2>2. OfType(gs, "PREFERENCE") = OfType(fs, "PREFERENCE")
      BY <1>1, <1>2, <1>6 DEF OfType
    <2>3. IsFiniteSet(OfType(fs, "FACT")) /\ Cardinality(OfType(fs, "FACT")) \in Nat
      BY OfTypeFinite
    <2>4. Cardinality(OfType(gs, "FACT")) <= Cardinality(OfType(fs, "FACT")) + 1
      <3> DEFINE F == OfType(fs, "FACT")
      <3> HIDE DEF F
      <3>1. Cardinality(F \cup {N}) = IF N \in F THEN Cardinality(F) ELSE Cardinality(F) + 1
        BY <2>3, FS_AddElement DEF F
      <3>2. Cardinality(F) \in Nat
        BY <2>3 DEF F
      <3>3. Cardinality(F \cup {N}) <= Cardinality(F) + 1
        BY <3>1, <3>2
      <3> QED BY <2>1, <3>3 DEF F
    <2>5. /\ Cardinality(OfType(gs, "FACT")) \in Nat
          /\ Cardinality(OfType(fs, "PREFERENCE")) \in Nat
      BY <1>1, OfTypeFinite
    <2> QED BY <1>1, <1>6, <2>2, <2>3, <2>4, <2>5, LimitAssumption DEF Crowded, Fits
  <1>7. Latest(gs, m.relation, m.value)
    BY <1>1, <1>9 DEF Latest
  <1>8. ASSUME NEW r, NEW v, r # m.relation, Latest(fs, r, v) PROVE Latest(gs, r, v)
    BY <1>1, <1>2, <1>8 DEF Latest
  <1> QED BY <1>1, <1>3, <1>4, <1>5, <1>6, <1>7, <1>8 DEF gs

(* save_fact: one more record, under no label.                             *)
Saves(gs, fs, relation, value) ==
    /\ gs \in RecordSeq
    /\ relation # "preference" /\ ~Crowded(fs) => Fits(gs)
    /\ \A r, v : Has(gs, r, v) <=> Has(fs, r, v) \/ (r = relation /\ v = value)
    /\ \A label, p : Names(gs, label, p) => Names(fs, label, p)
    /\ \A label : Single(fs, label) => Single(gs, label)
    /\ Latest(gs, relation, value)
    /\ \A r \in Favorite : \A v : r # relation /\ Latest(fs, r, v) => Latest(gs, r, v)

LEMMA SavedFact ==
    ASSUME NEW fs \in RecordSeq, NEW relation \in Relation \ {"relation_name"}, NEW value \in Value
    PROVE  Saves(save_fact(fs, relation, value), fs, relation, value)
  <1> DEFINE m == record(relation, Nobody, value)
             gs == Append(fs, m)
  <1>1. m \in ProfileRecord /\ m.relation = relation /\ m.value = value
    BY DEF record, ProfileRecord
  <1>2. relation # "preference" => MemoryType(m) = "FACT"
    BY <1>1 DEF MemoryType
  <1> HIDE DEF m
  <1>3. gs \in RecordSeq /\ (MemoryType(m) = "FACT" /\ ~Crowded(fs) => Fits(gs))
    BY <1>1, AppendedRecord
  <1>4. \A r, v : Has(gs, r, v) <=> Has(fs, r, v) \/ (m.relation = r /\ m.value = v)
    BY <1>1, AppendedRecord
  <1>5. \A label, p : Names(gs, label, p) <=>
                 \/ Names(fs, label, p)
                 \/ m.relation = "relation_name" /\ m.label = label /\ m.value = p
    BY <1>1, AppendedRecord
  <1>6. \A label : Single(fs, label)
                 /\ (m.relation = "relation_name" /\ m.label = label
                        => \A p : ~Names(fs, label, p))
                 => Single(gs, label)
    BY <1>1, AppendedRecord
  <1>7. \A r, v : Has(gs, r, v) <=> Has(fs, r, v) \/ (r = relation /\ v = value)
    BY <1>1, <1>4
  <1>8. save_fact(fs, relation, value) = gs
    BY DEF save_fact, m
  <1>9. /\ Latest(gs, m.relation, m.value)
        /\ \A r, v : r # m.relation /\ Latest(fs, r, v) => Latest(gs, r, v)
    BY <1>1, AppendedRecord
  <1> HIDE DEF gs
  <1>10. /\ Latest(gs, relation, value)
         /\ \A r \in Favorite : \A v : r # relation /\ Latest(fs, r, v) => Latest(gs, r, v)
    BY <1>1, <1>9
  <1> QED BY <1>1, <1>2, <1>3, <1>5, <1>6, <1>7, <1>8, <1>10 DEF Saves

(* The snapshot of a profile that fits is what is live.                    *)
LEMMA SnapshotIsLive ==
    ASSUME NEW fs, Fits(fs), NEW r \in Relation, NEW v
    PROVE  v \in collect_profile_snapshot(fs)[r] <=> Has(fs, r, v)
  <1> DEFINE F == search_profile(fs, "FACT", ScanLimit)
                    \cup search_profile(fs, "PREFERENCE", ScanLimit)
  <1>1. F = DOMAIN fs
    BY FitsSearch
  <1>2. collect_profile_snapshot(fs)[r] = {fs[i].value : i \in {i \in F : fs[i].relation = r}}
    BY DEF collect_profile_snapshot
  <1> HIDE DEF F
  <1> QED BY <1>1, <1>2 DEF Has

LEMMA NewestChosen ==
    ASSUME NEW fs \in RecordSeq, NEW indices \in SUBSET DOMAIN fs, indices # {}
    PROVE  LET i == CHOOSE i \in indices : \A j \in indices : j <= i IN
           i \in indices /\ \A j \in indices : j <= i
  <1>1. indices \in SUBSET Int /\ IsFiniteSet(indices) /\ \A i \in indices : i \in Int
    BY OfTypeFinite, FS_Subset
  <1>2. Max(indices) \in indices /\ \A j \in indices : Max(indices) >= j
    BY <1>1, GreatestFacts
  <1>3. \A j \in indices : j <= Max(indices)
    BY <1>1, <1>2
  <1> QED BY <1>2, <1>3

LEMMA NewestIsLive ==
    ASSUME NEW fs, Fits(fs), NEW relation
    PROVE  newest_fact(fs, relation) = Nobody \/ Has(fs, relation, newest_fact(fs, relation))
  <1> DEFINE I == {i \in search_profile(fs, "FACT", ScanLimit) : fs[i].relation = relation}
  <1>1. I \in SUBSET DOMAIN fs /\ fs \in RecordSeq
    BY FitsSearch DEF Fits, OfType
  <1>2. newest_fact(fs, relation) = Newest(fs, I)
    BY DEF newest_fact
  <1>3. \A i \in I : fs[i].relation = relation
    OBVIOUS
  <1> HIDE DEF I
  <1>4. CASE I # {}
    <2> DEFINE i == CHOOSE i \in I : \A j \in I : j <= i
    <2>1. i \in I
      BY <1>1, <1>4, NewestChosen
    <2>2. newest_fact(fs, relation) = fs[i].value
      BY <1>2, <1>4 DEF Newest
    <2> HIDE DEF i
    <2> QED BY <1>1, <1>3, <2>1, <2>2 DEF Has
  <1> QED BY <1>2, <1>4 DEF Newest

LEMMA LatestIsNewest ==
    ASSUME NEW fs, Fits(fs), NEW relation \in Favorite, NEW v, Latest(fs, relation, v)
    PROVE  newest_fact(fs, relation) = v
  <1> DEFINE I == {i \in search_profile(fs, "FACT", ScanLimit) : fs[i].relation = relation}
             c == CHOOSE i \in I : \A j \in I : j <= i
  <1>1. I = {i \in DOMAIN fs : fs[i].relation = relation} /\ fs \in RecordSeq
    BY FitsSearch DEF Fits, OfType, MemoryType, Favorite
  <1>2. newest_fact(fs, relation) = Newest(fs, I)
    BY DEF newest_fact
  <1>3. PICK k \in DOMAIN fs : /\ fs[k].relation = relation /\ fs[k].value = v
                               /\ \A j \in DOMAIN fs : fs[j].relation = relation => j <= k
    BY DEF Latest
  <1> HIDE DEF I
  <1>4. I \in SUBSET DOMAIN fs /\ k \in I /\ \A j \in I : j <= k
    BY <1>1, <1>3
  <1>5. c \in I /\ \A j \in I : j <= c
    BY <1>1, <1>4, NewestChosen
  <1>6. newest_fact(fs, relation) = fs[c].value
    BY <1>2, <1>4 DEF Newest
  <1> HIDE DEF c
  <1>7. \A i \in I : i \in Int
    BY <1>1, <1>4, OfTypeFinite
  <1>8. c = k
    BY <1>4, <1>5, <1>7
  <1> QED BY <1>3, <1>6, <1>8

-----------------------------------------------------------------------------
(* The profile: what is live follows what was said                         *)

Spoken == PositiveRelation \cup Superlative

SaidType == [Spoken -> [Value -> {"yes", "no", "nothing"}]]

(* What the user said last of a thing is live and its opposite is not.     *)
Tastes(fs, sd) ==
    \A v \in Thing :
        /\ sd["preference"][v] = "yes" =>
              Has(fs, "preference", v) /\ ~Has(fs, "negative_preference", v)
        /\ sd["preference"][v] = "no" => Has(fs, "negative_preference", v)
        /\ sd["preference"][v] = "nothing" => ~Has(fs, "negative_preference", v)

(* The winners of comparisons are live, and the favorites are the newest.  *)
Favored(fs, sd) ==
    \A v \in Thing :
        /\ sd["comparative"][v] = "yes" => Has(fs, "comparative", v)
        /\ \A r \in Favorite : sd[r][v] = "yes" => Latest(fs, r, v)

Skills(fs, sd) ==
    \A v \in Thing :
        /\ sd["skill"][v] = "yes" => Has(fs, "skill", v)
        /\ sd["skill"][v] = "no" => ~Has(fs, "skill", v) /\ Has(fs, "negative_skill", v)

Wants(fs, v) == Has(fs, "goal", v) \/ Has(fs, "goal_focus", v)

Goals(fs, sd) ==
    \A v \in Thing : /\ sd["goal"][v] = "yes" => Wants(fs, v)
                     /\ sd["goal"][v] = "no" => ~Wants(fs, v)

Affections(fs, sd) ==
    \A p \in Person :
        /\ sd["affection"][p] = "yes" => Has(fs, "affection", p)
        /\ sd["affection"][p] = "no" => ~Has(fs, "affection", p)
        /\ ~(Has(fs, "affection", p) /\ Has(fs, "negative_affection", p))

Returned(fs, sd) ==
    \A p \in Person :
        /\ sd["affection_to_user"][p] = "yes" => Has(fs, "affection_to_user", p)
        /\ sd["affection_to_user"][p] = "no" =>
              /\ ~Has(fs, "affection_to_user", p)
              /\ Has(fs, "affection_to_user_negative", p)

(* Things are liked and persons are loved.                                 *)
Liking == {"preference", "comparative", "favorite_food", "favorite_general"}
Loving == {"affection", "negative_affection"}

Sorted(fs) ==
    /\ \A r \in Liking : \A v : Has(fs, r, v) => v \in Thing
    /\ \A r \in Loving : \A v : Has(fs, r, v) => v \in Person

(* A label for one person without synonyms.                                *)
Plain(label) == get_lookup_labels(label) = {label} /\ label # "ban"

Unnamed(fs, gone) ==
    \A label \in Label : Plain(label) =>
        /\ Single(fs, label)
        /\ \A p \in Person : <<label, p>> \in gone => ~Names(fs, label, p)

AsSaid(fs, sd, gone) ==
    /\ fs \in RecordSeq /\ sd \in SaidType /\ ~Crowded(fs)
    /\ Tastes(fs, sd) /\ Favored(fs, sd) /\ Skills(fs, sd) /\ Goals(fs, sd)
    /\ Affections(fs, sd) /\ Returned(fs, sd) /\ Sorted(fs) /\ Unnamed(fs, gone)

ProfileInv == crowded \in BOOLEAN /\ (~crowded => AsSaid(facts, said, removed))

(* Records come and go, but no person is named and no favorite displaced.  *)
LeavesRest(gs, fs) ==
    /\ \A label, p : Names(gs, label, p) => Names(fs, label, p)
    /\ \A label : Single(fs, label) => Single(gs, label)
    /\ KeepsFavorites(gs, fs)

LEMMA StillUnnamed ==
    ASSUME NEW fs, NEW gs, NEW gone, Unnamed(fs, gone), LeavesRest(gs, fs)
    PROVE  Unnamed(gs, gone)
  BY DEF Unnamed, LeavesRest

(* A message that kept the searches complete found them complete.          *)
LEMMA KeptFits ==
    ASSUME NEW fs, crowded \in BOOLEAN, Keep(fs), ~crowded'
    PROVE  facts' = fs /\ ~crowded /\ ~Crowded(fs)
  BY DEF Keep

LEMMA SaysFacts ==
    ASSUME said \in SaidType, NEW r \in PositiveRelation, NEW values,
           NEW what \in {"yes", "no", "nothing"}, Says(r, values, what)
    PROVE  /\ said' \in SaidType
           /\ \A q \in Spoken : q # r => said'[q] = said[q]
           /\ \A v \in Value : said'[r][v] = IF v \in values THEN what ELSE said[r][v]
  <1> DEFINE new == [v \in Value |-> IF v \in values THEN what ELSE said[r][v]]
  <1>1. said' = [said EXCEPT ![r] = new]
    BY DEF Says
  <1>2. new \in [Value -> {"yes", "no", "nothing"}]
    BY DEF SaidType, Spoken
  <1>3. \A v \in Value : new[v] = IF v \in values THEN what ELSE said[r][v]
    OBVIOUS
  <1> HIDE DEF new
  <1> QED BY <1>1, <1>2, <1>3 DEF SaidType, Spoken

(* What contradicts a record is deleted, then the record is saved.         *)
Replaces(gs, fs, relations, values, r, v) ==
    /\ gs \in RecordSeq /\ LeavesRest(gs, fs)
    /\ \A s, w : Has(gs, s, w) <=>
          \/ Has(fs, s, w) /\ ~(s \in relations /\ w \in values)
          \/ s = r /\ w = v

LEMMA DeleteThenSave ==
    ASSUME NEW fs, NEW hs, NEW relations, NEW values, Deletes(hs, fs, relations, values),
           NEW r \in Relation \ {"relation_name"}, r \notin Favorite, NEW v \in Value
    PROVE  Replaces(save_fact(hs, r, v), fs, relations, values, r, v)
  <1> DEFINE gs == save_fact(hs, r, v)
  <1>1. hs \in RecordSeq
    BY DEF Deletes, Fits
  <1>2. Saves(gs, hs, r, v)
    BY <1>1, SavedFact
  <1> HIDE DEF gs
  <1>3. gs \in RecordSeq /\ LeavesRest(gs, fs)
    BY <1>2 DEF Deletes, Saves, LeavesRest, KeepsFavorites
  <1>4. \A s, w : Has(gs, s, w) <=>
          \/ Has(fs, s, w) /\ ~(s \in relations /\ w \in values)
          \/ s = r /\ w = v
    BY <1>2 DEF Deletes, Saves
  <1> QED BY <1>3, <1>4 DEF gs, Replaces

LEMMA Relations ==
    /\ \A r \in {"preference", "negative_preference", "skill", "negative_skill", "affection",
                 "negative_affection", "affection_to_user", "affection_to_user_negative",
                 "goal", "goal_focus", "negative_goal", "occupation", "wants_to_eat",
                 "temporal_today", "name", "comparative"} :
          r \in Relation \ {"relation_name"} /\ r \notin Favorite
    /\ \A r \in Superlative : r \in Relation \ {"relation_name"} /\ r \in Spoken
    /\ \A r \in {"preference", "skill", "affection", "affection_to_user", "goal"} :
          r \in PositiveRelation /\ r \in Spoken
    /\ \A v \in Thing : v \in Value /\ v \notin Person
    /\ \A p \in Person : p \in Value /\ p \notin Thing
  BY ValueAssumption DEF Relation, PositiveRelation, Opposite, PlainRelation, Superlative, Value,
                         Favorite, Spoken

(* The relations a message about a subject writes.                         *)
Subject(q) == {q, Opposite[q]} \cup (IF q = "goal" THEN {"goal_focus"} ELSE {})

LEMMA Subjects ==
    /\ Subject("preference") = {"preference", "negative_preference"}
    /\ Subject("skill") = {"skill", "negative_skill"}
    /\ Subject("affection") = {"affection", "negative_affection"}
    /\ Subject("affection_to_user") = {"affection_to_user", "affection_to_user_negative"}
    /\ Subject("goal") = {"goal", "goal_focus", "negative_goal"}
  BY DEF Subject, Opposite

(* Winners and favorites stay as long as no newer favorite is saved.       *)
LEMMA StillFavored ==
    ASSUME NEW fs, NEW gs, NEW sd, NEW td, Favored(fs, sd), KeepsFavorites(gs, fs),
           \A v : Has(fs, "comparative", v) => Has(gs, "comparative", v),
           \A r \in Superlative : td[r] = sd[r]
    PROVE  Favored(gs, td)
  BY DEF Favored, KeepsFavorites, Superlative, Favorite

(* A message about one subject leaves what is known of the others.         *)
LEMMA OtherSubjects ==
    ASSUME NEW gs, NEW sd \in SaidType, NEW q \in PositiveRelation,
           AsSaid(facts, said, removed), gs \in RecordSeq, ~Crowded(gs), LeavesRest(gs, facts),
           \A r \in Spoken : r # q => sd[r] = said[r],
           \A r, v : r \notin Subject(q) => (Has(gs, r, v) <=> Has(facts, r, v))
    PROVE  /\ q # "preference" => Tastes(gs, sd)
           /\ q # "skill" => Skills(gs, sd)
           /\ q # "affection" => Affections(gs, sd)
           /\ q # "affection_to_user" => Returned(gs, sd)
           /\ q # "goal" => Goals(gs, sd)
           /\ q \notin {"preference", "affection"} => Sorted(gs)
           /\ Favored(gs, sd) /\ Unnamed(gs, removed)
  <1>1. q # "preference" => Tastes(gs, sd)
    BY Relations, Subjects DEF AsSaid, Tastes, PositiveRelation
  <1>2. q # "skill" => Skills(gs, sd)
    BY Relations, Subjects DEF AsSaid, Skills, PositiveRelation
  <1>3. q # "affection" => Affections(gs, sd)
    BY Relations, Subjects DEF AsSaid, Affections, PositiveRelation
  <1>4. q # "affection_to_user" => Returned(gs, sd)
    BY Relations, Subjects DEF AsSaid, Returned, PositiveRelation
  <1>5. q # "goal" => Goals(gs, sd)
    BY Relations, Subjects DEF AsSaid, Goals, Wants, PositiveRelation
  <1>6. q \notin {"preference", "affection"} => Sorted(gs)
    BY Subjects DEF AsSaid, Sorted, Liking, Loving, PositiveRelation
  <1>7. Unnamed(gs, removed)
    BY StillUnnamed DEF AsSaid
  <1>8. Favored(gs, sd)
    <2>1. \A r \in Superlative : sd[r] = said[r] /\ r \notin Subject(q)
      BY Relations, Subjects DEF PositiveRelation, Superlative
    <2> QED BY <2>1, StillFavored DEF AsSaid, Superlative, LeavesRest
  <1> QED BY <1>1, <1>2, <1>3, <1>4, <1>5, <1>6, <1>7, <1>8

(* "I like X", "I do not like X": the opposite taste gives way.            *)
LEMMA TasteLive ==
    ASSUME NEW gs, NEW v \in Thing, NEW r, NEW what, NEW opposite,
           \/ r = "preference" /\ opposite = "negative_preference" /\ what = "yes"
           \/ r = "negative_preference" /\ opposite = "preference" /\ what = "no",
           AsSaid(facts, said, removed), ~Crowded(gs),
           Replaces(gs, facts, {opposite}, {v}, r, v), Says("preference", {v}, what)
    PROVE  AsSaid(gs, said', removed)
  <1>1. said \in SaidType /\ gs \in RecordSeq /\ LeavesRest(gs, facts)
    BY DEF AsSaid, Replaces
  <1>2. /\ said' \in SaidType
        /\ \A q \in Spoken : q # "preference" => said'[q] = said[q]
        /\ \A w \in Value : said'["preference"][w] =
              IF w \in {v} THEN what ELSE said["preference"][w]
    BY <1>1, SaysFacts, Relations
  <1>3. \A s, w : s \notin Subject("preference") => (Has(gs, s, w) <=> Has(facts, s, w))
    BY Subjects DEF Replaces
  <1>4. Tastes(gs, said')
    BY <1>2, Relations DEF AsSaid, Replaces, Tastes
  <1>5. Sorted(gs)
    BY Relations DEF AsSaid, Replaces, Sorted, Liking, Loving
  <1> QED BY <1>1, <1>2, <1>3, <1>4, <1>5, OtherSubjects, Relations DEF AsSaid

LEMMA TasteKept ==
    ASSUME NEW v \in Thing, AsSaid(facts, said, removed), Has(facts, "negative_preference", v),
           Says("preference", {v}, "no")
    PROVE  AsSaid(facts, said', removed)
  <1>1. said \in SaidType /\ facts \in RecordSeq /\ LeavesRest(facts, facts) /\ ~Crowded(facts)
    BY DEF AsSaid, LeavesRest, KeepsFavorites
  <1>2. /\ said' \in SaidType
        /\ \A q \in Spoken : q # "preference" => said'[q] = said[q]
        /\ \A w \in Value : said'["preference"][w] =
              IF w \in {v} THEN "no" ELSE said["preference"][w]
    BY <1>1, SaysFacts, Relations
  <1>3. Tastes(facts, said') /\ Sorted(facts)
    BY <1>2, Relations DEF AsSaid, Tastes
  <1> QED BY <1>1, <1>2, <1>3, OtherSubjects, Relations DEF AsSaid

LEMMA SkillLive ==
    ASSUME NEW gs, NEW v \in Thing, NEW r, NEW what, NEW opposite,
           \/ r = "skill" /\ opposite = "negative_skill" /\ what = "yes"
           \/ r = "negative_skill" /\ opposite = "skill" /\ what = "no",
           AsSaid(facts, said, removed), ~Crowded(gs),
           Replaces(gs, facts, {opposite}, {v}, r, v), Says("skill", {v}, what)
    PROVE  AsSaid(gs, said', removed)
  <1>1. said \in SaidType /\ gs \in RecordSeq /\ LeavesRest(gs, facts)
    BY DEF AsSaid, Replaces
  <1>2. /\ said' \in SaidType
        /\ \A q \in Spoken : q # "skill" => said'[q] = said[q]
        /\ \A w \in Value : said'["skill"][w] = IF w \in {v} THEN what ELSE said["skill"][w]
    BY <1>1, SaysFacts, Relations
  <1>3. \A s, w : s \notin Subject("skill") => (Has(gs, s, w) <=> Has(facts, s, w))
    BY Subjects DEF Replaces
  <1>4. Skills(gs, said')
    BY <1>2, Relations DEF AsSaid, Replaces, Skills
  <1> QED BY <1>1, <1>2, <1>3, <1>4, OtherSubjects, Relations DEF AsSaid

(* A fact without an opposite, saved or deleted, contradicts nothing.      *)
LEMMA PlainLive ==
    ASSUME NEW gs, NEW r, NEW v, AsSaid(facts, said, removed), ~Crowded(gs),
           gs \in RecordSeq, LeavesRest(gs, facts),
           r \in PlainRelation \cup {"name"}, r \in Liking => v \in Thing,
           \A s, w : s # r \/ w # v => (Has(gs, s, w) <=> Has(facts, s, w))
    PROVE  AsSaid(gs, said, removed)
  <1>1. Tastes(gs, said) /\ Skills(gs, said)
    BY DEF AsSaid, Tastes, Skills, PlainRelation
  <1>2. Goals(gs, said) /\ Affections(gs, said) /\ Returned(gs, said)
    BY DEF AsSaid, Goals, Wants, Affections, Returned, PlainRelation
  <1>3. Sorted(gs)
    BY DEF AsSaid, Sorted, Liking, Loving, PlainRelation
  <1>4. Unnamed(gs, removed)
    BY StillUnnamed DEF AsSaid
  <1>5. Favored(gs, said)
    BY StillFavored DEF AsSaid, LeavesRest, PlainRelation
  <1> QED BY <1>1, <1>2, <1>3, <1>4, <1>5 DEF AsSaid

(* A favorite or a comparison is one more liking, and the newest.          *)
LEMMA SuperlativeLive ==
    ASSUME NEW v \in Thing, NEW r \in Superlative, SaveSuperlative(r, v),
           facts' = save_fact(facts, r, v), AsSaid(facts, said, removed), ~Crowded(facts')
    PROVE  AsSaid(facts', said', removed')
  <1> DEFINE new == [w \in Value |-> IF w = v THEN "yes"
                                     ELSE IF r = "comparative" THEN said[r][w] ELSE "nothing"]
  <1>1. said \in SaidType /\ facts \in RecordSeq /\ v \in Value /\ r \in Spoken
    BY Relations DEF AsSaid
  <1>2. said' = [said EXCEPT ![r] = new] /\ removed' = removed
    BY DEF SaveSuperlative
  <1>3. new \in [Value -> {"yes", "no", "nothing"}]
    BY <1>1 DEF SaidType
  <1>4. \A w \in Value : new[w] = IF w = v THEN "yes"
                                  ELSE IF r = "comparative" THEN said[r][w] ELSE "nothing"
    OBVIOUS
  <1> HIDE DEF new
  <1>5. said' \in SaidType /\ said'[r] = new /\ \A q \in Spoken : q # r => said'[q] = said[q]
    BY <1>1, <1>2, <1>3 DEF SaidType
  <1>6. Saves(facts', facts, r, v)
    BY <1>1, SavedFact, Relations
  <1>7. \A s, w : Has(facts', s, w) <=> Has(facts, s, w) \/ (s = r /\ w = v)
    BY <1>6 DEF Saves
  <1>8. /\ \A q \in {"preference", "skill", "affection", "affection_to_user", "goal"} :
              said'[q] = said[q]
        /\ \A s, w : s \notin Superlative => (Has(facts', s, w) <=> Has(facts, s, w))
    BY <1>5, <1>7, Relations DEF Superlative
  <1>9. Tastes(facts', said') /\ Skills(facts', said') /\ Goals(facts', said')
    BY <1>8 DEF AsSaid, Tastes, Skills, Goals, Wants, Superlative
  <1>10. Affections(facts', said') /\ Returned(facts', said')
    BY <1>8 DEF AsSaid, Affections, Returned, Superlative
  <1>11. Sorted(facts')
    BY <1>7, Relations DEF AsSaid, Sorted, Liking, Loving, Superlative
  <1>12. Unnamed(facts', removed')
    BY <1>2, <1>6 DEF AsSaid, Unnamed, Saves
  <1>13. Favored(facts', said')
    <2> SUFFICES ASSUME NEW w \in Thing
                 PROVE  /\ said'["comparative"][w] = "yes" => Has(facts', "comparative", w)
                        /\ \A f \in Favorite : said'[f][w] = "yes" => Latest(facts', f, w)
      BY DEF Favored
    <2>1. /\ said["comparative"][w] = "yes" => Has(facts, "comparative", w)
          /\ \A f \in Favorite : said[f][w] = "yes" => Latest(facts, f, w)
      BY DEF AsSaid, Favored
    <2>2. w \in Value /\ "comparative" \in Spoken /\ \A f \in Favorite : f \in Spoken
      BY Relations DEF Favorite, Superlative
    <2>3. said'["comparative"][w] = "yes" => Has(facts', "comparative", w)
      BY <1>4, <1>5, <1>7, <2>1, <2>2
    <2>4. ASSUME NEW f \in Favorite, said'[f][w] = "yes" PROVE Latest(facts', f, w)
      <3>1. CASE f = r
        <4>1. w = v
          BY <1>4, <1>5, <2>2, <2>4, <3>1 DEF Favorite
        <4> QED BY <1>6, <3>1, <4>1 DEF Saves
      <3>2. CASE f # r
        BY <1>5, <1>6, <2>1, <2>2, <2>4, <3>2 DEF Saves
      <3> QED BY <3>1, <3>2
    <2> QED BY <2>3, <2>4
  <1>14. facts' \in RecordSeq
    BY <1>6 DEF Saves
  <1> QED BY <1>5, <1>9, <1>10, <1>11, <1>12, <1>13, <1>14 DEF AsSaid

LEMMA AffectionLive ==
    ASSUME NEW gs, NEW p \in Person, NEW r, NEW what, NEW opposite,
           \/ r = "affection" /\ opposite = "negative_affection" /\ what = "yes"
           \/ r = "negative_affection" /\ opposite = "affection" /\ what = "no",
           AsSaid(facts, said, removed), ~Crowded(gs),
           Replaces(gs, facts, {opposite}, {p}, r, p), Says("affection", {p}, what)
    PROVE  AsSaid(gs, said', removed)
  <1>1. said \in SaidType /\ gs \in RecordSeq /\ LeavesRest(gs, facts)
    BY DEF AsSaid, Replaces
  <1>2. /\ said' \in SaidType
        /\ \A q \in Spoken : q # "affection" => said'[q] = said[q]
        /\ \A w \in Value : said'["affection"][w] =
              IF w \in {p} THEN what ELSE said["affection"][w]
    BY <1>1, SaysFacts, Relations
  <1>3. \A s, w : s \notin Subject("affection") => (Has(gs, s, w) <=> Has(facts, s, w))
    BY Subjects DEF Replaces
  <1>4. Affections(gs, said')
    BY <1>2, Relations DEF AsSaid, Replaces, Affections
  <1>5. Sorted(gs)
    BY Relations DEF AsSaid, Replaces, Sorted, Liking, Loving
  <1> QED BY <1>1, <1>2, <1>3, <1>4, <1>5, OtherSubjects, Relations DEF AsSaid

LEMMA AffectionKept ==
    ASSUME NEW p \in Person, AsSaid(facts, said, removed), Has(facts, "affection", p),
           Says("affection", {p}, "yes")
    PROVE  AsSaid(facts, said', removed)
  <1>1. said \in SaidType /\ facts \in RecordSeq /\ LeavesRest(facts, facts) /\ ~Crowded(facts)
    BY DEF AsSaid, LeavesRest, KeepsFavorites
  <1>2. /\ said' \in SaidType
        /\ \A q \in Spoken : q # "affection" => said'[q] = said[q]
        /\ \A w \in Value : said'["affection"][w] =
              IF w \in {p} THEN "yes" ELSE said["affection"][w]
    BY <1>1, SaysFacts, Relations
  <1>3. Affections(facts, said') /\ Sorted(facts)
    BY <1>2, Relations DEF AsSaid, Affections
  <1> QED BY <1>1, <1>2, <1>3, OtherSubjects, Relations DEF AsSaid

LEMMA NoAffectionLive ==
    ASSUME NEW gs, AsSaid(facts, said, removed), ~Crowded(gs),
           Deletes(gs, facts, {"affection"}, Value), Says("affection", Value, "no")
    PROVE  AsSaid(gs, said', removed)
  <1>1. said \in SaidType /\ gs \in RecordSeq /\ LeavesRest(gs, facts)
    BY DEF AsSaid, Deletes, Fits, LeavesRest, KeepsFavorites
  <1>2. /\ said' \in SaidType
        /\ \A q \in Spoken : q # "affection" => said'[q] = said[q]
        /\ \A w \in Value : said'["affection"][w] =
              IF w \in Value THEN "no" ELSE said["affection"][w]
    BY <1>1, SaysFacts, Relations
  <1>3. \A s, w : s \notin Subject("affection") => (Has(gs, s, w) <=> Has(facts, s, w))
    BY Subjects DEF Deletes
  <1>4. Affections(gs, said')
    BY <1>2, Relations DEF AsSaid, Deletes, Affections
  <1>5. Sorted(gs)
    BY Relations DEF AsSaid, Deletes, Sorted, Liking, Loving
  <1> QED BY <1>1, <1>2, <1>3, <1>4, <1>5, OtherSubjects, Relations DEF AsSaid

LEMMA ReturnedLive ==
    ASSUME NEW gs, NEW p \in Person, NEW r, NEW what, NEW opposite,
           \/ r = "affection_to_user" /\ opposite = "affection_to_user_negative" /\ what = "yes"
           \/ r = "affection_to_user_negative" /\ opposite = "affection_to_user" /\ what = "no",
           AsSaid(facts, said, removed), ~Crowded(gs),
           Replaces(gs, facts, {opposite}, {p}, r, p), Says("affection_to_user", {p}, what)
    PROVE  AsSaid(gs, said', removed)
  <1>1. said \in SaidType /\ gs \in RecordSeq /\ LeavesRest(gs, facts)
    BY DEF AsSaid, Replaces
  <1>2. /\ said' \in SaidType
        /\ \A q \in Spoken : q # "affection_to_user" => said'[q] = said[q]
        /\ \A w \in Value : said'["affection_to_user"][w] =
              IF w \in {p} THEN what ELSE said["affection_to_user"][w]
    BY <1>1, SaysFacts, Relations
  <1>3. \A s, w : s \notin Subject("affection_to_user") => (Has(gs, s, w) <=> Has(facts, s, w))
    BY Subjects DEF Replaces
  <1>4. Returned(gs, said')
    BY <1>2, Relations DEF AsSaid, Replaces, Returned
  <1> QED BY <1>1, <1>2, <1>3, <1>4, OtherSubjects, Relations DEF AsSaid

(* "P likes me and I like P": both affections are saved.                   *)
LEMMA MutualLive ==
    ASSUME NEW hs, NEW gs, NEW p \in Person,
           AsSaid(facts, said, removed), ~Crowded(gs),
           Replaces(hs, facts, {"affection_to_user_negative"}, {p}, "affection_to_user", p),
           Replaces(gs, hs, {"negative_affection"}, {p}, "affection", p),
           said' = [said EXCEPT !["affection_to_user"][p] = "yes", !["affection"][p] = "yes"]
    PROVE  AsSaid(gs, said', removed)
  <1>1. said \in SaidType /\ gs \in RecordSeq /\ LeavesRest(gs, facts)
    BY DEF AsSaid, Replaces, LeavesRest, KeepsFavorites
  <1>2. /\ said' \in SaidType
        /\ \A q \in Spoken :
              q \notin {"affection_to_user", "affection"} => said'[q] = said[q]
        /\ \A w \in Value : /\ said'["affection_to_user"][w] =
                                   IF w = p THEN "yes" ELSE said["affection_to_user"][w]
                            /\ said'["affection"][w] =
                                   IF w = p THEN "yes" ELSE said["affection"][w]
    BY <1>1, Relations DEF SaidType
  <1>3. \A s, w : Has(gs, s, w) <=>
           \/ Has(facts, s, w) /\ ~(s = "affection_to_user_negative" /\ w = p)
                               /\ ~(s = "negative_affection" /\ w = p)
           \/ s \in {"affection_to_user", "affection"} /\ w = p
    BY DEF Replaces
  <1>4. /\ \A q \in {"preference", "skill", "goal"} : said'[q] = said[q]
        /\ \A w \in Person : /\ said'["affection_to_user"][w] =
                                    IF w = p THEN "yes" ELSE said["affection_to_user"][w]
                             /\ said'["affection"][w] =
                                    IF w = p THEN "yes" ELSE said["affection"][w]
    BY <1>2, Relations
  <1>5. Tastes(gs, said') /\ Skills(gs, said') /\ Goals(gs, said')
    <2>1. Tastes(gs, said')
      BY <1>3, <1>4 DEF AsSaid, Tastes
    <2>2. Skills(gs, said')
      BY <1>3, <1>4 DEF AsSaid, Skills
    <2>3. Goals(gs, said')
      BY <1>3, <1>4 DEF AsSaid, Goals, Wants
    <2> QED BY <2>1, <2>2, <2>3
  <1>6. Affections(gs, said') /\ Returned(gs, said')
    <2> SUFFICES ASSUME NEW w \in Person
                 PROVE  /\ said'["affection"][w] = "yes" => Has(gs, "affection", w)
                        /\ said'["affection"][w] = "no" => ~Has(gs, "affection", w)
                        /\ ~(Has(gs, "affection", w) /\ Has(gs, "negative_affection", w))
                        /\ said'["affection_to_user"][w] = "yes" =>
                              Has(gs, "affection_to_user", w)
                        /\ said'["affection_to_user"][w] = "no" =>
                              /\ ~Has(gs, "affection_to_user", w)
                              /\ Has(gs, "affection_to_user_negative", w)
      BY DEF Affections, Returned
    <2>1. /\ said["affection"][w] = "yes" => Has(facts, "affection", w)
          /\ said["affection"][w] = "no" => ~Has(facts, "affection", w)
          /\ ~(Has(facts, "affection", w) /\ Has(facts, "negative_affection", w))
          /\ said["affection_to_user"][w] = "yes" => Has(facts, "affection_to_user", w)
          /\ said["affection_to_user"][w] = "no" =>
                /\ ~Has(facts, "affection_to_user", w)
                /\ Has(facts, "affection_to_user_negative", w)
      BY DEF AsSaid, Affections, Returned
    <2>2. CASE w = p
      <3>1. said'["affection"][p] = "yes" /\ said'["affection_to_user"][p] = "yes"
        BY <1>4
      <3>2. Has(gs, "affection", p) /\ Has(gs, "affection_to_user", p)
        BY <1>3
      <3>3. ~Has(gs, "negative_affection", p)
        BY <1>3
      <3> QED BY <2>2, <3>1, <3>2, <3>3
    <2>3. CASE w # p
      BY <1>3, <1>4, <2>1, <2>3
    <2> QED BY <2>2, <2>3
  <1>7. Sorted(gs)
    BY <1>3, Relations DEF AsSaid, Sorted, Liking, Loving
  <1>8. Unnamed(gs, removed)
    BY <1>1, StillUnnamed DEF AsSaid
  <1>9. Favored(gs, said')
    <2>1. \A r \in Superlative : said'[r] = said[r]
      BY <1>2, Relations DEF Superlative
    <2>2. \A v : Has(facts, "comparative", v) => Has(gs, "comparative", v)
      BY <1>3
    <2> QED BY <1>1, <2>1, <2>2, StillFavored DEF AsSaid, LeavesRest
  <1> QED BY <1>1, <1>2, <1>5, <1>6, <1>7, <1>8, <1>9 DEF AsSaid

-----------------------------------------------------------------------------
(* The profile: goals                                                      *)

LEMMA SaidGoals ==
    ASSUME said \in SaidType, NEW new \in [Value -> {"yes", "no", "nothing"}],
           said' = [said EXCEPT !["goal"] = new]
    PROVE  /\ said' \in SaidType
           /\ \A q \in Spoken : q # "goal" => said'[q] = said[q]
           /\ said'["goal"] = new
  BY Relations DEF SaidType

(* A message about goals keeps the rest; its goals are left to show.       *)
LEMMA GoalLive ==
    ASSUME NEW gs, AsSaid(facts, said, removed), ~Crowded(gs), gs \in RecordSeq,
           LeavesRest(gs, facts), said' \in SaidType,
           \A q \in Spoken : q # "goal" => said'[q] = said[q],
           \A s, w : s \notin {"goal", "goal_focus", "negative_goal"} =>
                        (Has(gs, s, w) <=> Has(facts, s, w)),
           Goals(gs, said')
    PROVE  AsSaid(gs, said', removed)
  <1>1. \A s, w : s \notin Subject("goal") => (Has(gs, s, w) <=> Has(facts, s, w))
    BY Subjects
  <1> QED BY <1>1, OtherSubjects, Relations DEF AsSaid

LEMMA ActiveGoals ==
    ASSUME NEW fs, Fits(fs), NEW v
    PROVE  v \in goals(collect_profile_snapshot(fs)) <=> Wants(fs, v)
  <1>1. v \in collect_profile_snapshot(fs)["goal"] <=> Has(fs, "goal", v)
    BY SnapshotIsLive, Relations
  <1>2. v \in collect_profile_snapshot(fs)["goal_focus"] <=> Has(fs, "goal_focus", v)
    BY SnapshotIsLive, Relations
  <1> QED BY <1>1, <1>2 DEF goals, Wants

(* Only goals come, and only that one.                                     *)
Adds(gs, fs, v) ==
    /\ gs \in RecordSeq /\ LeavesRest(gs, fs)
    /\ ~Crowded(fs) => Fits(gs)
    /\ \A s, w : s # "goal" \/ w # v => (Has(gs, s, w) <=> Has(fs, s, w))
    /\ Wants(gs, v)

LEMMA AddedGoal ==
    ASSUME NEW fs, Fits(fs), NEW v \in Thing
    PROVE  Adds(add_goal(fs, v), fs, v)
  <1>1. CASE v \in goals(collect_profile_snapshot(fs))
    <2>1. add_goal(fs, v) = fs
      BY <1>1 DEF add_goal, goal_already_active
    <2>2. Wants(fs, v)
      BY <1>1, ActiveGoals
    <2> QED BY <2>1, <2>2 DEF Adds, LeavesRest, KeepsFavorites, Fits
  <1>2. CASE v \notin goals(collect_profile_snapshot(fs))
    <2> DEFINE gs == save_fact(fs, "goal", v)
    <2>1. add_goal(fs, v) = gs
      BY <1>2 DEF add_goal, goal_already_active
    <2>2. "goal" \in Relation \ {"relation_name"} /\ v \in Value /\ fs \in RecordSeq
      BY Relations DEF Fits
    <2>3. Saves(gs, fs, "goal", v)
      BY <2>2, SavedFact
    <2> HIDE DEF gs
    <2>4. Adds(gs, fs, v)
      BY <2>3, Relations DEF Saves, Adds, LeavesRest, KeepsFavorites, Wants
    <2> QED BY <2>1, <2>4
  <1> QED BY <1>1, <1>2

LEMMA DeletedGoals ==
    ASSUME NEW fs, Fits(fs), NEW values
    PROVE  Deletes(delete_profile_records(fs, GoalRelation, values), fs,
                   {"goal", "goal_focus"}, values)
  <1>1. "preference" \notin GoalRelation /\ GoalRelation = {"goal", "goal_focus"}
    BY DEF GoalRelation
  <1> QED BY <1>1, DeletedRecords

LEMMA GoalAdded ==
    ASSUME NEW v \in Thing, AddGoal(v), ~Crowded(facts'), facts' = add_goal(facts, v),
           AsSaid(facts, said, removed)
    PROVE  AsSaid(facts', said', removed')
  <1>1. said \in SaidType /\ Fits(facts) /\ removed' = removed
    BY UncrowdedFits DEF AsSaid, AddGoal
  <1>2. Adds(facts', facts, v)
    BY <1>1, AddedGoal
  <1>3. /\ said' \in SaidType
        /\ \A q \in Spoken : q # "goal" => said'[q] = said[q]
        /\ \A w \in Value : said'["goal"][w] = IF w \in {v} THEN "yes" ELSE said["goal"][w]
    BY <1>1, SaysFacts, Relations DEF AddGoal
  <1>4. Goals(facts', said')
    BY <1>2, <1>3, Relations DEF AsSaid, Adds, Goals, Wants
  <1>5. /\ facts' \in RecordSeq /\ LeavesRest(facts', facts)
        /\ \A s, w : s \notin {"goal", "goal_focus", "negative_goal"} =>
                        (Has(facts', s, w) <=> Has(facts, s, w))
    BY <1>2 DEF Adds
  <1> QED BY <1>1, <1>3, <1>4, <1>5, GoalLive

LEMMA GoalIntended ==
    ASSUME NEW v \in Thing, IntendGoal(v), ~Crowded(facts'), AsSaid(facts, said, removed),
           facts' = save_fact(delete_profile_records(facts, {"negative_goal"}, {v}), "goal", v)
    PROVE  AsSaid(facts', said', removed')
  <1>1. said \in SaidType /\ Fits(facts) /\ removed' = removed
    BY UncrowdedFits DEF AsSaid, IntendGoal
  <1>2. Replaces(facts', facts, {"negative_goal"}, {v}, "goal", v)
    BY <1>1, DeletedRecords, DeleteThenSave, Relations
  <1>3. /\ said' \in SaidType
        /\ \A q \in Spoken : q # "goal" => said'[q] = said[q]
        /\ \A w \in Value : said'["goal"][w] = IF w \in {v} THEN "yes" ELSE said["goal"][w]
    BY <1>1, SaysFacts, Relations DEF IntendGoal
  <1>4. Goals(facts', said')
    BY <1>2, <1>3, Relations DEF AsSaid, Replaces, Goals, Wants
  <1>5. /\ facts' \in RecordSeq /\ LeavesRest(facts', facts)
        /\ \A s, w : s \notin {"goal", "goal_focus", "negative_goal"} =>
                        (Has(facts', s, w) <=> Has(facts, s, w))
    BY <1>2 DEF Replaces
  <1> QED BY <1>1, <1>3, <1>4, <1>5, GoalLive

LEMMA GoalRetracted ==
    ASSUME NEW v \in Thing, RetractGoal(v), ~Crowded(facts'), AsSaid(facts, said, removed),
           facts' = save_fact(delete_profile_records(
                       delete_profile_records(facts, {"goal"}, {v}), {"goal_focus"}, {v}),
                       "negative_goal", v)
    PROVE  AsSaid(facts', said', removed')
  <1> DEFINE gs == delete_profile_records(facts, {"goal"}, {v})
             hs == delete_profile_records(gs, {"goal_focus"}, {v})
  <1>1. said \in SaidType /\ Fits(facts) /\ removed' = removed
    BY UncrowdedFits DEF AsSaid, RetractGoal
  <1>2. Deletes(gs, facts, {"goal"}, {v})
    BY <1>1, DeletedRecords
  <1> HIDE DEF gs
  <1>3. Deletes(hs, gs, {"goal_focus"}, {v})
    BY <1>2, DeletedRecords DEF Deletes
  <1>4. Replaces(facts', gs, {"goal_focus"}, {v}, "negative_goal", v)
    <2>1. facts' = save_fact(hs, "negative_goal", v)
      BY DEF gs
    <2> HIDE DEF hs
    <2> QED BY <1>3, <2>1, DeleteThenSave, Relations
  <1>5. /\ said' \in SaidType
        /\ \A q \in Spoken : q # "goal" => said'[q] = said[q]
        /\ \A w \in Value : said'["goal"][w] = IF w \in {v} THEN "no" ELSE said["goal"][w]
    BY <1>1, SaysFacts, Relations DEF RetractGoal
  <1>6. Goals(facts', said')
    BY <1>2, <1>4, <1>5, Relations DEF AsSaid, Replaces, Deletes, Goals, Wants
  <1>7. /\ facts' \in RecordSeq /\ LeavesRest(facts', facts)
        /\ \A s, w : s \notin {"goal", "goal_focus", "negative_goal"} =>
                        (Has(facts', s, w) <=> Has(facts, s, w))
    BY <1>2, <1>4 DEF Replaces, Deletes, LeavesRest, KeepsFavorites
  <1> QED BY <1>1, <1>5, <1>6, <1>7, GoalLive

LEMMA GoalOrOccupationRemoved ==
    ASSUME NEW v \in Thing, NEW goalFirst, RemoveGoalOrOccupation(v, goalFirst),
           crowded \in BOOLEAN, ~crowded', ~crowded => AsSaid(facts, said, removed)
    PROVE  AsSaid(facts', said', removed')
  <1> DEFINE withoutGoal == delete_goal_facts(facts, v)
             withoutOccupation == delete_profile_records(facts, {"occupation"}, {v})
             hitGoal == IF goalFirst THEN withoutGoal # facts ELSE withoutOccupation = facts
  <1>1. Keep(IF hitGoal THEN withoutGoal ELSE withoutOccupation)
    BY DEF RemoveGoalOrOccupation
  <1>2. /\ IF hitGoal THEN Says("goal", MatchingGoals(v), "no") ELSE UNCHANGED said
        /\ removed' = removed
    BY DEF RemoveGoalOrOccupation
  <1>3. Deletes(withoutGoal, facts, {"goal", "goal_focus"}, MatchingGoals(v))
     /\ Deletes(withoutOccupation, facts, {"occupation"}, {v})
     /\ facts' = (IF hitGoal THEN withoutGoal ELSE withoutOccupation)
     /\ AsSaid(facts, said, removed) /\ said \in SaidType /\ ~Crowded(facts')
    <2>1. /\ facts' = (IF hitGoal THEN withoutGoal ELSE withoutOccupation)
          /\ AsSaid(facts, said, removed) /\ ~Crowded(facts')
      <3> HIDE DEF hitGoal, withoutGoal, withoutOccupation
      <3> QED BY <1>1, KeptFits
    <2>2. Fits(facts) /\ said \in SaidType
      BY <2>1, UncrowdedFits DEF AsSaid
    <2>3. Deletes(withoutGoal, facts, {"goal", "goal_focus"}, MatchingGoals(v))
      BY <2>2, DeletedGoals DEF delete_goal_facts
    <2>4. Deletes(withoutOccupation, facts, {"occupation"}, {v})
      BY <2>2, DeletedRecords
    <2> HIDE DEF hitGoal, withoutGoal, withoutOccupation
    <2> QED BY <2>1, <2>2, <2>3, <2>4
  <1> HIDE DEF withoutGoal, withoutOccupation, hitGoal
  <1>4. CASE hitGoal
    <2>1. Says("goal", MatchingGoals(v), "no")
      BY <1>2, <1>4
    <2>2. /\ said' \in SaidType
          /\ \A q \in Spoken : q # "goal" => said'[q] = said[q]
          /\ \A w \in Value : said'["goal"][w] =
                IF w \in MatchingGoals(v) THEN "no" ELSE said["goal"][w]
      BY <1>3, <2>1, SaysFacts, Relations
    <2>3. Deletes(facts', facts, {"goal", "goal_focus"}, MatchingGoals(v))
      BY <1>3, <1>4
    <2>4. Goals(facts', said')
      BY <1>3, <2>2, <2>3, Relations DEF AsSaid, Deletes, Goals, Wants
    <2>5. /\ facts' \in RecordSeq /\ LeavesRest(facts', facts)
          /\ \A s, w : s \notin {"goal", "goal_focus", "negative_goal"} =>
                          (Has(facts', s, w) <=> Has(facts, s, w))
      BY <2>3 DEF Deletes, Fits, LeavesRest, KeepsFavorites
    <2>6. AsSaid(facts', said', removed)
      BY <1>3, <2>2, <2>4, <2>5, GoalLive
    <2> QED BY <1>2, <2>6
  <1>5. CASE ~hitGoal
    <2>1. said' = said
      BY <1>2, <1>5
    <2>2. Deletes(facts', facts, {"occupation"}, {v})
      BY <1>3, <1>5
    <2>3. /\ facts' \in RecordSeq /\ LeavesRest(facts', facts)
          /\ \A s, w : s # "occupation" \/ w # v => (Has(facts', s, w) <=> Has(facts, s, w))
      BY <2>2 DEF Deletes, Fits, LeavesRest, KeepsFavorites
    <2>4. "occupation" \in PlainRelation /\ "occupation" \notin Liking
      BY DEF PlainRelation, Liking
    <2>5. AsSaid(facts', said, removed)
      BY <1>3, <2>3, <2>4, PlainLive
    <2> QED BY <1>2, <2>1, <2>5
  <1> QED BY <1>4, <1>5

LEMMA GoalSwitched ==
    ASSUME NEW v \in Thing, NEW old \in Thing, NEW all, SwitchGoal(old, v, all),
           crowded \in BOOLEAN, ~crowded', ~crowded => AsSaid(facts, said, removed)
    PROVE  AsSaid(facts', said', removed')
  <1> DEFINE gone == IF all THEN Value ELSE MatchingGoals(old)
             hs == IF all THEN delete_profile_records(facts, GoalRelation, Value)
                   ELSE delete_goal_facts(facts, old)
             new == [w \in Value |-> IF w = v THEN "yes"
                                     ELSE IF w \in gone THEN "no" ELSE said["goal"][w]]
  <1>1. /\ Keep(add_goal(hs, v)) /\ removed' = removed
        /\ said' = [said EXCEPT !["goal"] = new]
    BY DEF SwitchGoal
  <1>2. /\ facts' = add_goal(hs, v) /\ AsSaid(facts, said, removed) /\ ~Crowded(facts')
    <2> HIDE DEF hs, new
    <2> QED BY <1>1, KeptFits
  <1>3. Fits(facts) /\ said \in SaidType /\ ~Crowded(facts)
    BY <1>2, UncrowdedFits DEF AsSaid
  <1>4. Deletes(hs, facts, {"goal", "goal_focus"}, gone)
    BY <1>3, DeletedGoals DEF delete_goal_facts
  <1>5. new \in [Value -> {"yes", "no", "nothing"}]
    BY <1>3, Relations DEF SaidType
  <1>6. \A w \in Value : new[w] = IF w = v THEN "yes"
                                  ELSE IF w \in gone THEN "no" ELSE said["goal"][w]
    OBVIOUS
  <1> HIDE DEF hs, new, gone
  <1>7. Fits(hs)
    BY <1>4 DEF Deletes
  <1>8. Adds(facts', hs, v)
    BY <1>2, <1>7, AddedGoal
  <1>9. /\ said' \in SaidType /\ said'["goal"] = new
        /\ \A q \in Spoken : q # "goal" => said'[q] = said[q]
    BY <1>1, <1>3, <1>5, SaidGoals
  <1>10. Goals(facts', said')
    BY <1>2, <1>4, <1>6, <1>8, <1>9, Relations DEF AsSaid, Adds, Deletes, Goals, Wants
  <1>11. /\ facts' \in RecordSeq /\ LeavesRest(facts', facts)
         /\ \A s, w : s \notin {"goal", "goal_focus", "negative_goal"} =>
                          (Has(facts', s, w) <=> Has(facts, s, w))
    BY <1>4, <1>8 DEF Adds, Deletes, LeavesRest, KeepsFavorites
  <1>12. AsSaid(facts', said', removed)
    BY <1>2, <1>9, <1>10, <1>11, GoalLive
  <1> QED BY <1>1, <1>12

LEMMA GoalAddedAndRemoved ==
    ASSUME NEW v \in Thing, NEW key \in Thing, AddAndRemoveGoal(v, key),
           crowded \in BOOLEAN, ~crowded', ~crowded => AsSaid(facts, said, removed)
    PROVE  AsSaid(facts', said', removed')
  <1> DEFINE hs == add_goal(facts, v)
             new == [w \in Value |-> IF w \in MatchingGoals(key) THEN "no"
                                     ELSE IF w = v THEN "yes" ELSE said["goal"][w]]
  <1>1. /\ Keep(delete_goal_facts(hs, key)) /\ removed' = removed
        /\ said' = [said EXCEPT !["goal"] = new]
    BY DEF AddAndRemoveGoal
  <1>2. /\ facts' = delete_goal_facts(hs, key) /\ AsSaid(facts, said, removed) /\ ~Crowded(facts')
    <2> HIDE DEF hs, new
    <2> QED BY <1>1, KeptFits
  <1>3. Fits(facts) /\ said \in SaidType /\ ~Crowded(facts)
    BY <1>2, UncrowdedFits DEF AsSaid
  <1>4. Adds(hs, facts, v)
    BY <1>3, AddedGoal
  <1>5. new \in [Value -> {"yes", "no", "nothing"}]
    BY <1>3, Relations DEF SaidType
  <1>6. \A w \in Value : new[w] = IF w \in MatchingGoals(key) THEN "no"
                                  ELSE IF w = v THEN "yes" ELSE said["goal"][w]
    OBVIOUS
  <1> HIDE DEF hs, new
  <1>7. Fits(hs)
    BY <1>3, <1>4 DEF Adds
  <1>8. Deletes(facts', hs, {"goal", "goal_focus"}, MatchingGoals(key))
    BY <1>2, <1>7, DeletedGoals DEF delete_goal_facts
  <1>9. /\ said' \in SaidType /\ said'["goal"] = new
        /\ \A q \in Spoken : q # "goal" => said'[q] = said[q]
    BY <1>1, <1>3, <1>5, SaidGoals
  <1>10. Goals(facts', said')
    BY <1>2, <1>4, <1>6, <1>8, <1>9, Relations DEF AsSaid, Adds, Deletes, Goals, Wants
  <1>11. /\ facts' \in RecordSeq /\ LeavesRest(facts', facts)
         /\ \A s, w : s \notin {"goal", "goal_focus", "negative_goal"} =>
                          (Has(facts', s, w) <=> Has(facts, s, w))
    BY <1>4, <1>8 DEF Adds, Deletes, Fits, LeavesRest, KeepsFavorites
  <1>12. AsSaid(facts', said', removed)
    BY <1>2, <1>9, <1>10, <1>11, GoalLive
  <1> QED BY <1>1, <1>12

LEMMA GoalFocused ==
    ASSUME NEW v \in Thing, FocusGoal(v),
           crowded \in BOOLEAN, ~crowded', ~crowded => AsSaid(facts, said, removed)
    PROVE  AsSaid(facts', said', removed')
  <1> DEFINE active == goals(collect_profile_snapshot(facts))
             after == goals(collect_profile_snapshot(facts'))
             hs == delete_profile_records(facts, {"goal_focus"}, Value)
             new == [w \in Value |-> IF w = v THEN "yes" ELSE IF w \in active \ after
                                     THEN "nothing" ELSE said["goal"][w]]
  <1>1. /\ Keep(save_fact(hs, "goal_focus", v)) /\ removed' = removed
        /\ said' = [said EXCEPT !["goal"] = new]
    BY DEF FocusGoal
  <1>2. /\ facts' = save_fact(hs, "goal_focus", v)
        /\ AsSaid(facts, said, removed) /\ ~Crowded(facts')
    <2> HIDE DEF hs, new
    <2> QED BY <1>1, KeptFits
  <1>3. Fits(facts) /\ said \in SaidType /\ ~Crowded(facts)
    BY <1>2, UncrowdedFits DEF AsSaid
  <1>4. Deletes(hs, facts, {"goal_focus"}, Value)
    BY <1>3, DeletedRecords
  <1>5. new \in [Value -> {"yes", "no", "nothing"}]
    <2> HIDE DEF active, after
    <2> QED BY <1>3, Relations DEF SaidType
  <1>6. \A w \in Value : new[w] = IF w = v THEN "yes" ELSE IF w \in active \ after
                                  THEN "nothing" ELSE said["goal"][w]
    OBVIOUS
  <1> HIDE DEF hs, new
  <1>7. Replaces(facts', facts, {"goal_focus"}, Value, "goal_focus", v)
    BY <1>2, <1>4, DeleteThenSave, Relations
  <1>8. Fits(facts')
    BY <1>2, <1>7, UncrowdedFits DEF Replaces
  <1>9. \A w : (w \in active <=> Wants(facts, w)) /\ (w \in after <=> Wants(facts', w))
    BY <1>3, <1>8, ActiveGoals
  <1> HIDE DEF active, after
  <1>10. /\ said' \in SaidType /\ said'["goal"] = new
         /\ \A q \in Spoken : q # "goal" => said'[q] = said[q]
    BY <1>1, <1>3, <1>5, SaidGoals
  <1>11. Goals(facts', said')
    BY <1>2, <1>6, <1>7, <1>9, <1>10, Relations DEF AsSaid, Replaces, Goals, Wants
  <1>12. /\ facts' \in RecordSeq /\ LeavesRest(facts', facts)
         /\ \A s, w : s \notin {"goal", "goal_focus", "negative_goal"} =>
                          (Has(facts', s, w) <=> Has(facts, s, w))
    BY <1>7 DEF Replaces
  <1>13. AsSaid(facts', said', removed)
    BY <1>2, <1>10, <1>11, <1>12, GoalLive
  <1> QED BY <1>1, <1>13

-----------------------------------------------------------------------------
(* The profile: names and relations                                        *)

(* The search for a name finds every record under the label.               *)
LEMMA NamedFacts ==
    ASSUME NEW fs \in RecordSeq, ~Crowded(fs), NEW labels
    PROVE  Named(fs, labels) =
              {i \in DOMAIN fs : fs[i].relation = "relation_name" /\ fs[i].label \in labels}
  <1>1. Cardinality(OfType(fs, "FACT")) \in Nat
    BY OfTypeFinite
  <1>2. Cardinality(OfType(fs, "FACT")) <= LookupLimit
    BY <1>1, LimitAssumption DEF Crowded
  <1>3. search_profile(fs, "FACT", LookupLimit) = OfType(fs, "FACT")
    BY <1>2, SearchAll, LimitAssumption
  <1> QED BY <1>3 DEF Named, OfType, MemoryType

LEMMA FoundName ==
    ASSUME NEW fs \in RecordSeq, ~Crowded(fs), NEW label \in Label
    PROVE  LET found == find_existing_profile_value(fs, label) IN
           \/ found = Nobody /\ \A p : ~Names(fs, label, p)
           \/ found # Nobody /\ Names(fs, label, found)
  <1> DEFINE I == Named(fs, {label})
             found == find_existing_profile_value(fs, label)
  <1>1. I = {i \in DOMAIN fs : fs[i].relation = "relation_name" /\ fs[i].label \in {label}}
    BY NamedFacts
  <1>2. found = Newest(fs, I)
    BY ValueAssumption DEF find_existing_profile_value
  <1>3. \A i \in DOMAIN fs : fs[i].value # Nobody
    <2>1. \A m \in ProfileRecord : m.value # Nobody
      BY ValueAssumption DEF ProfileRecord
    <2>2. \A i \in DOMAIN fs : fs[i] \in ProfileRecord
      BY DEF RecordSeq
    <2> QED BY <2>1, <2>2
  <1> HIDE DEF I, found
  <1>4. CASE I = {}
    <2>1. found = Nobody
      BY <1>2, <1>4 DEF Newest
    <2>2. \A p : ~Names(fs, label, p)
      BY <1>1, <1>4 DEF Names
    <2> QED BY <2>1, <2>2 DEF found
  <1>5. CASE I # {}
    <2> DEFINE i == CHOOSE i \in I : \A j \in I : j <= i
    <2>1. I \in SUBSET DOMAIN fs
      BY <1>1
    <2>2. i \in I
      BY <1>5, <2>1, NewestChosen
    <2>3. found = fs[i].value
      BY <1>2, <1>5 DEF Newest
    <2> HIDE DEF i
    <2>4. Names(fs, label, found) /\ found # Nobody
      BY <1>1, <1>3, <2>1, <2>2, <2>3 DEF Names
    <2> QED BY <2>4 DEF found
  <1> QED BY <1>4, <1>5

(* The relations of a subject are not touched by a name.                   *)
SameSubjects(gs, fs) ==
    /\ gs \in RecordSeq
    /\ \A r, v : r # "relation_name" => (Has(gs, r, v) <=> Has(fs, r, v))
    /\ KeepsFavorites(gs, fs)

(* delete_relation_fact empties a label of its own that names one person.  *)
LEMMA DeletedRelation ==
    ASSUME NEW fs \in RecordSeq, ~Crowded(fs), NEW label
    PROVE  LET gs == delete_relation_fact(fs, label) IN
           /\ SameSubjects(gs, fs) /\ LeavesRest(gs, fs) /\ ~Crowded(gs)
           /\ get_lookup_labels(label) = {label} /\ Single(fs, label) =>
                 \A p : ~Names(gs, label, p)
  <1> DEFINE I == Named(fs, get_lookup_labels(label))
             i == CHOOSE i \in I : \A j \in I : j <= i
             gs == delete_relation_fact(fs, label)
  <1>1. I = {k \in DOMAIN fs : /\ fs[k].relation = "relation_name"
                               /\ fs[k].label \in get_lookup_labels(label)}
    BY NamedFacts
  <1>2. gs = IF I = {} THEN fs ELSE Without(fs, {i})
    BY DEF delete_relation_fact
  <1>3. I # {} => i \in I
    <2>1. I \in SUBSET DOMAIN fs
      BY <1>1
    <2> HIDE DEF I
    <2> QED BY <2>1, NewestChosen
  <1> HIDE DEF I, i, gs
  <1>4. CASE I = {}
    <2>1. gs = fs
      BY <1>2, <1>4
    <2>2. SameSubjects(fs, fs) /\ LeavesRest(fs, fs)
      BY DEF SameSubjects, LeavesRest, KeepsFavorites
    <2>3. get_lookup_labels(label) = {label} => \A p : ~Names(fs, label, p)
      BY <1>1, <1>4 DEF Names
    <2> QED BY <2>1, <2>2, <2>3 DEF gs
  <1>5. CASE I # {}
    <2>1. gs = Without(fs, {i}) /\ i \in I
      BY <1>2, <1>3, <1>5
    <2>2. gs \in RecordSeq /\ ~Crowded(gs)
      BY <2>1, WithoutLeaves, WithoutFits
    <2>3. \A r, v : Has(gs, r, v) <=>
             \E k \in DOMAIN fs \ {i} : fs[k].relation = r /\ fs[k].value = v
      BY <2>1, WithoutLeaves
    <2>4. \A l, p : Names(gs, l, p) <=>
             \E k \in DOMAIN fs \ {i} : /\ fs[k].relation = "relation_name"
                                        /\ fs[k].label = l /\ fs[k].value = p
      BY <2>1, WithoutLeaves
    <2>5. \A l : Single(fs, l) => Single(gs, l)
      BY <2>1, WithoutLeaves
    <2>6. SameSubjects(gs, fs)
      <3>1. fs[i].relation = "relation_name"
        BY <1>1, <2>1
      <3>2. ASSUME NEW r, NEW v, r # "relation_name"
            PROVE  Has(gs, r, v) <=> Has(fs, r, v)
        BY <2>3, <3>1, <3>2 DEF Has
      <3>3. \A r, v : /\ \A k \in DOMAIN fs : k \in {i} => fs[k].relation # r
                     /\ Latest(fs, r, v)
                     => Latest(gs, r, v)
        BY <2>1, WithoutLeaves
      <3>4. KeepsFavorites(gs, fs)
        BY <3>1, <3>3 DEF KeepsFavorites, Favorite
      <3> QED BY <2>2, <3>2, <3>4 DEF SameSubjects
    <2>7. LeavesRest(gs, fs)
      BY <2>4, <2>5, <2>6 DEF LeavesRest, Names, SameSubjects
    <2>8. ASSUME get_lookup_labels(label) = {label}, Single(fs, label)
          PROVE  \A p : ~Names(gs, label, p)
      BY <1>1, <2>1, <2>4, <2>8 DEF Single
    <2> QED BY <2>2, <2>6, <2>7, <2>8 DEF gs
  <1> QED BY <1>4, <1>5

(* What naming a person leaves as it was.                                  *)
LEMMA SubjectsLive ==
    ASSUME NEW gs, NEW gone, AsSaid(facts, said, removed), ~Crowded(gs),
           SameSubjects(gs, facts), Unnamed(gs, gone)
    PROVE  AsSaid(gs, said, gone)
  <1>1. Tastes(gs, said) /\ Skills(gs, said)
    BY DEF AsSaid, Tastes, Skills, SameSubjects
  <1>2. Goals(gs, said) /\ Affections(gs, said) /\ Returned(gs, said)
    BY DEF AsSaid, Goals, Wants, Affections, Returned, SameSubjects
  <1>3. Sorted(gs)
    BY DEF AsSaid, Sorted, Liking, Loving, SameSubjects
  <1>4. Favored(gs, said)
    BY StillFavored DEF AsSaid, SameSubjects
  <1> QED BY <1>1, <1>2, <1>3, <1>4 DEF AsSaid, SameSubjects

(* A person is named under a label that names nobody, or may name several. *)
LEMMA RelationSaved ==
    ASSUME NEW hs, NEW label \in Label, NEW p \in Person,
           AsSaid(facts, said, removed), SameSubjects(hs, facts), LeavesRest(hs, facts),
           Plain(label) => \A q : ~Names(hs, label, q),
           facts' = save_relation(hs, label, p), ~Crowded(facts'),
           removed' = removed \ {<<label, p>>}, said' = said
    PROVE  AsSaid(facts', said', removed')
  <1> DEFINE m == record("relation_name", label, p)
  <1>1. /\ m \in ProfileRecord /\ m.relation = "relation_name"
        /\ m.label = label /\ m.value = p
    BY Relations DEF record, ProfileRecord, Relation
  <1>2. facts' = Append(hs, m)
    BY DEF save_relation
  <1>3. hs \in RecordSeq
    BY DEF SameSubjects
  <1> HIDE DEF m
  <1>4. facts' \in RecordSeq
    BY <1>1, <1>2, <1>3, AppendedRecord
  <1>5. \A r, v : Has(facts', r, v) <=> Has(hs, r, v) \/ (m.relation = r /\ m.value = v)
    BY <1>1, <1>2, <1>3, AppendedRecord
  <1>6. \A l, q : Names(facts', l, q) <=>
                 \/ Names(hs, l, q)
                 \/ m.relation = "relation_name" /\ m.label = l /\ m.value = q
    BY <1>1, <1>2, <1>3, AppendedRecord
  <1>7. \A l : Single(hs, l)
                 /\ (m.relation = "relation_name" /\ m.label = l => \A q : ~Names(hs, l, q))
                 => Single(facts', l)
    BY <1>1, <1>2, <1>3, AppendedRecord
  <1>11. \A r, v : r # m.relation /\ Latest(hs, r, v) => Latest(facts', r, v)
    BY <1>1, <1>2, <1>3, AppendedRecord
  <1>8. SameSubjects(facts', facts)
    BY <1>1, <1>4, <1>5, <1>11 DEF SameSubjects, KeepsFavorites, Favorite
  <1>9. Unnamed(facts', removed')
    <2> SUFFICES ASSUME NEW l \in Label, Plain(l)
                 PROVE  /\ Single(facts', l)
                        /\ \A q \in Person : <<l, q>> \in removed' => ~Names(facts', l, q)
      BY DEF Unnamed
    <2>1. Single(hs, l) /\ \A q \in Person : <<l, q>> \in removed => ~Names(hs, l, q)
      BY DEF AsSaid, Unnamed, LeavesRest
    <2>2. Single(facts', l)
      BY <1>1, <1>7, <2>1
    <2>3. ASSUME NEW q \in Person, <<l, q>> \in removed', Names(facts', l, q)
          PROVE  FALSE
      <3>1. <<l, q>> \in removed /\ <<l, q>> # <<label, p>>
        BY <2>3
      <3>2. ~Names(hs, l, q)
        BY <2>1, <3>1
      <3> QED BY <1>1, <1>6, <2>3, <3>1, <3>2
    <2> QED BY <2>2, <2>3
  <1>10. AsSaid(facts', said, removed')
    BY <1>8, <1>9, SubjectsLive
  <1> QED BY <1>10

LEMMA RelationRemoved ==
    ASSUME NEW label \in Label, NEW p \in Person,
           AsSaid(facts, said, removed), facts' = delete_relation_fact(facts, label),
           removed' = removed \cup {<<label, p>>}, said' = said
    PROVE  AsSaid(facts', said', removed')
  <1>1. facts \in RecordSeq /\ ~Crowded(facts) /\ Unnamed(facts, removed)
    BY DEF AsSaid
  <1>2. /\ SameSubjects(facts', facts) /\ LeavesRest(facts', facts) /\ ~Crowded(facts')
        /\ get_lookup_labels(label) = {label} /\ Single(facts, label) =>
              \A q : ~Names(facts', label, q)
    BY <1>1, DeletedRelation
  <1>3. Unnamed(facts', removed')
    <2> SUFFICES ASSUME NEW l \in Label, Plain(l)
                 PROVE  /\ Single(facts', l)
                        /\ \A q \in Person : <<l, q>> \in removed' => ~Names(facts', l, q)
      BY DEF Unnamed
    <2>1. Single(facts, l) /\ \A q \in Person : <<l, q>> \in removed => ~Names(facts, l, q)
      BY <1>1 DEF Unnamed
    <2>2. Single(facts', l)
      BY <1>2, <2>1 DEF LeavesRest
    <2>3. ASSUME NEW q \in Person, <<l, q>> \in removed', Names(facts', l, q)
          PROVE  FALSE
      <3>1. CASE <<l, q>> \in removed
        BY <1>2, <2>1, <2>3, <3>1 DEF LeavesRest
      <3>2. CASE <<l, q>> = <<label, p>>
        BY <1>2, <2>1, <2>3, <3>2 DEF Plain
      <3> QED BY <2>3, <3>1, <3>2
    <2> QED BY <2>2, <2>3
  <1>4. AsSaid(facts', said, removed')
    BY <1>2, <1>3, SubjectsLive
  <1> QED BY <1>4

-----------------------------------------------------------------------------
(* The profile: every message                                              *)

LEMMA InSnapshot ==
    ASSUME AsSaid(facts, said, removed), NEW r \in Relation, NEW v
    PROVE  v \in collect_profile_snapshot(facts)[r] <=> Has(facts, r, v)
  BY UncrowdedFits, SnapshotIsLive DEF AsSaid

LEMMA LikesLive ==
    ASSUME crowded \in BOOLEAN, ~crowded', ~crowded => AsSaid(facts, said, removed), LikesNext
    PROVE  AsSaid(facts', said', removed')
  <1>1. ASSUME NEW v \in Thing, NEW r \in {"preference", "negative_preference"},
               SavePreference(v, r)
        PROVE  AsSaid(facts', said', removed')
    <2> DEFINE hs == resolve_preference_conflicts(facts, v, r)
               opposite == IF r = "preference" THEN "negative_preference" ELSE "preference"
               what == IF r = "preference" THEN "yes" ELSE "no"
    <2>1. Keep(save_fact(hs, r, v)) /\ Says("preference", {v}, what) /\ removed' = removed
      BY <1>1 DEF SavePreference
    <2>2. \/ r = "preference" /\ opposite = "negative_preference" /\ what = "yes"
          \/ r = "negative_preference" /\ opposite = "preference" /\ what = "no"
      OBVIOUS
    <2>3. facts' = save_fact(hs, r, v) /\ AsSaid(facts, said, removed) /\ ~Crowded(facts')
      <3> HIDE DEF hs, what
      <3> QED BY <2>1, KeptFits
    <2>4. Deletes(hs, facts, {opposite}, {v})
      BY <2>3, UncrowdedFits, ResolvedPreference DEF AsSaid
    <2> HIDE DEF hs, opposite, what
    <2>5. Replaces(facts', facts, {opposite}, {v}, r, v)
      BY <2>3, <2>4, DeleteThenSave, Relations
    <2>6. AsSaid(facts', said', removed)
      BY <2>1, <2>2, <2>3, <2>5, TasteLive
    <2> QED BY <2>1, <2>6
  <1>2. ASSUME NEW v \in Thing, UpdateDislike(v)
        PROVE  AsSaid(facts', said', removed')
    <2> DEFINE hs == resolve_preference_conflicts(facts, v, "negative_preference")
               gs == save_fact(hs, "negative_preference", v)
               known == v \in collect_profile_snapshot(facts)["negative_preference"]
    <2>1. /\ Keep(IF known THEN facts ELSE gs) /\ Says("preference", {v}, "no")
          /\ removed' = removed
      BY <1>2 DEF UpdateDislike
    <2>2. /\ facts' = (IF known THEN facts ELSE gs) /\ AsSaid(facts, said, removed)
          /\ ~Crowded(facts')
      <3> HIDE DEF known, gs
      <3> QED BY <2>1, KeptFits
    <2>3. known <=> Has(facts, "negative_preference", v)
      BY <2>2, InSnapshot, Relations
    <2>4. Deletes(hs, facts, {"preference"}, {v})
      BY <2>2, UncrowdedFits, ResolvedPreference DEF AsSaid
    <2> HIDE DEF hs, known
    <2>5. Replaces(gs, facts, {"preference"}, {v}, "negative_preference", v)
      BY <2>4, DeleteThenSave, Relations
    <2> HIDE DEF gs
    <2>6. CASE known
      BY <2>1, <2>2, <2>3, <2>6, TasteKept
    <2>7. CASE ~known
      <3>1. AsSaid(gs, said', removed)
        BY <2>1, <2>2, <2>5, <2>7, TasteLive
      <3> QED BY <2>1, <2>2, <2>7, <3>1
    <2> QED BY <2>6, <2>7
  <1>3. ASSUME NEW v \in Thing, NEW r \in Superlative, SaveSuperlative(r, v)
        PROVE  AsSaid(facts', said', removed')
    <2>1. Keep(save_fact(facts, r, v))
      BY <1>3 DEF SaveSuperlative
    <2> QED BY <1>3, <2>1, KeptFits, SuperlativeLive
  <1> QED BY <1>1, <1>2, <1>3 DEF LikesNext

LEMMA PlainSaved ==
    ASSUME crowded \in BOOLEAN, ~crowded', ~crowded => AsSaid(facts, said, removed),
           NEW v \in Thing, NEW r \in PlainRelation,
           SavePlain(r, v) \/ RemovePlain(r, v)
    PROVE  AsSaid(facts', said', removed')
  <1>1. CASE SavePlain(r, v)
    <2>1. Keep(save_fact(facts, r, v)) /\ said' = said /\ removed' = removed
      BY <1>1 DEF SavePlain
    <2>2. facts' = save_fact(facts, r, v) /\ AsSaid(facts, said, removed) /\ ~Crowded(facts')
      BY <2>1, KeptFits
    <2>3. Saves(facts', facts, r, v)
      BY <2>2, SavedFact, Relations DEF AsSaid, PlainRelation
    <2>4. AsSaid(facts', said, removed)
      BY <2>2, <2>3, PlainLive DEF Saves, LeavesRest, KeepsFavorites, PlainRelation, Favorite, Liking
    <2> QED BY <2>1, <2>4
  <1>2. CASE RemovePlain(r, v)
    <2>1. /\ Keep(delete_profile_records(facts, {r}, {v}))
          /\ said' = said /\ removed' = removed
      BY <1>2 DEF RemovePlain
    <2>2. /\ facts' = delete_profile_records(facts, {r}, {v})
          /\ AsSaid(facts, said, removed) /\ ~Crowded(facts')
      BY <2>1, KeptFits
    <2>3. Deletes(facts', facts, {r}, {v})
      BY <2>2, UncrowdedFits, DeletedRecords DEF AsSaid, PlainRelation
    <2>4. AsSaid(facts', said, removed)
      BY <2>2, <2>3, PlainLive DEF Deletes, Fits, LeavesRest, PlainRelation, Liking
    <2> QED BY <2>1, <2>4
  <1> QED BY <1>1, <1>2

LEMMA AbilitiesLive ==
    ASSUME crowded \in BOOLEAN, ~crowded', ~crowded => AsSaid(facts, said, removed), AbilitiesNext
    PROVE  AsSaid(facts', said', removed')
  <1>1. ASSUME NEW v \in Thing, NEW r \in {"skill", "negative_skill"}, SaveSkill(v, r)
        PROVE  AsSaid(facts', said', removed')
    <2> DEFINE opposite == IF r = "skill" THEN "negative_skill" ELSE "skill"
               hs == delete_profile_records(facts, {opposite}, {v})
               what == IF r = "skill" THEN "yes" ELSE "no"
    <2>1. Keep(save_fact(hs, r, v)) /\ Says("skill", {v}, what) /\ removed' = removed
      BY <1>1 DEF SaveSkill, resolve_skill_conflicts
    <2>2. \/ r = "skill" /\ opposite = "negative_skill" /\ what = "yes"
          \/ r = "negative_skill" /\ opposite = "skill" /\ what = "no"
      OBVIOUS
    <2>3. facts' = save_fact(hs, r, v) /\ AsSaid(facts, said, removed) /\ ~Crowded(facts')
      <3> HIDE DEF hs, what
      <3> QED BY <2>1, KeptFits
    <2>4. Deletes(hs, facts, {opposite}, {v})
      BY <2>3, UncrowdedFits, DeletedRecords DEF AsSaid
    <2> HIDE DEF hs, opposite, what
    <2>5. Replaces(facts', facts, {opposite}, {v}, r, v)
      BY <2>3, <2>4, DeleteThenSave, Relations
    <2>6. AsSaid(facts', said', removed)
      BY <2>1, <2>2, <2>3, <2>5, SkillLive
    <2> QED BY <2>1, <2>6
  <1> QED BY <1>1, PlainSaved DEF AbilitiesNext

(* save_affection_fact and its three like.                                 *)
LEMMA SavedAffections ==
    ASSUME NEW fs, Fits(fs), NEW p \in Person
    PROVE  /\ Replaces(save_affection_fact(fs, p), fs, {"negative_affection"}, {p},
                       "affection", p)
           /\ Replaces(save_negative_affection_fact(fs, p), fs, {"affection"}, {p},
                       "negative_affection", p)
           /\ Replaces(save_external_affection_fact(fs, p), fs,
                       {"affection_to_user_negative"}, {p}, "affection_to_user", p)
           /\ Replaces(save_negative_external_affection_fact(fs, p), fs,
                       {"affection_to_user"}, {p}, "affection_to_user_negative", p)
  <1>1. ASSUME NEW r, NEW q,
               <<r, q>> \in {<<"affection", "negative_affection">>,
                             <<"negative_affection", "affection">>,
                             <<"affection_to_user", "affection_to_user_negative">>,
                             <<"affection_to_user_negative", "affection_to_user">>}
        PROVE  Replaces(save_fact(delete_profile_records(fs, {q}, {p}), r, p), fs, {q}, {p}, r, p)
    <2> DEFINE hs == delete_profile_records(fs, {q}, {p})
    <2>1. /\ \A f \in {"preference", "favorite_food", "favorite_general"} : f \notin {q}
          /\ r \in Relation \ {"relation_name"} /\ r \notin Favorite /\ p \in Value
      BY <1>1, Relations
    <2>2. Deletes(hs, fs, {q}, {p})
      BY <2>1, DeletedRecords
    <2> HIDE DEF hs
    <2>3. Replaces(save_fact(hs, r, p), fs, {q}, {p}, r, p)
      BY <2>1, <2>2, DeleteThenSave
    <2> QED BY <2>3 DEF hs
  <1> QED BY <1>1 DEF save_affection_fact, save_negative_affection_fact,
                      save_external_affection_fact, save_negative_external_affection_fact

LEMMA ExternalFits ==
    ASSUME NEW fs \in RecordSeq, ~Crowded(fs), NEW p \in Person
    PROVE  Fits(save_external_affection_fact(fs, p))
  <1> DEFINE hs == delete_profile_records(fs, {"affection_to_user_negative"}, {p})
  <1>1. Deletes(hs, fs, {"affection_to_user_negative"}, {p})
    BY UncrowdedFits, DeletedRecords
  <1>2. save_external_affection_fact(fs, p) = save_fact(hs, "affection_to_user", p)
    BY DEF save_external_affection_fact
  <1> HIDE DEF hs
  <1>3. Saves(save_fact(hs, "affection_to_user", p), hs, "affection_to_user", p)
    BY <1>1, SavedFact, Relations DEF Deletes, Fits
  <1> QED BY <1>1, <1>2, <1>3 DEF Saves, Deletes

LEMMA AffectionsLive ==
    ASSUME crowded \in BOOLEAN, ~crowded', ~crowded => AsSaid(facts, said, removed), AffectionsNext
    PROVE  AsSaid(facts', said', removed')
  <1>1. ASSUME NEW p \in Person, SaveAffection(p)
        PROVE  AsSaid(facts', said', removed')
    <2>1. /\ Keep(save_affection_fact(facts, p)) /\ Says("affection", {p}, "yes")
          /\ removed' = removed
      BY <1>1 DEF SaveAffection
    <2>2. /\ facts' = save_affection_fact(facts, p) /\ AsSaid(facts, said, removed)
          /\ ~Crowded(facts')
      BY <2>1, KeptFits
    <2>3. Replaces(facts', facts, {"negative_affection"}, {p}, "affection", p)
      BY <2>2, UncrowdedFits, SavedAffections DEF AsSaid
    <2>4. AsSaid(facts', said', removed)
      BY <2>1, <2>2, <2>3, AffectionLive
    <2> QED BY <2>1, <2>4
  <1>2. ASSUME NEW p \in Person, AddAffection(p)
        PROVE  AsSaid(facts', said', removed')
    <2> DEFINE known == p \in collect_profile_snapshot(facts)["affection"]
               gs == save_affection_fact(facts, p)
    <2>1. /\ Keep(IF known THEN facts ELSE gs) /\ Says("affection", {p}, "yes")
          /\ removed' = removed
      BY <1>2 DEF AddAffection
    <2>2. /\ facts' = (IF known THEN facts ELSE gs) /\ AsSaid(facts, said, removed)
          /\ ~Crowded(facts')
      <3> HIDE DEF known, gs
      <3> QED BY <2>1, KeptFits
    <2>3. known <=> Has(facts, "affection", p)
      BY <2>2, InSnapshot, Relations
    <2>4. Replaces(gs, facts, {"negative_affection"}, {p}, "affection", p)
      BY <2>2, UncrowdedFits, SavedAffections DEF AsSaid
    <2> HIDE DEF known, gs
    <2>5. CASE known
      BY <2>1, <2>2, <2>3, <2>5, AffectionKept
    <2>6. CASE ~known
      <3>1. AsSaid(gs, said', removed)
        BY <2>1, <2>2, <2>4, <2>6, AffectionLive
      <3> QED BY <2>1, <2>2, <2>6, <3>1
    <2> QED BY <2>5, <2>6
  <1>3. ASSUME NEW p \in Person, RemoveAffection(p)
        PROVE  AsSaid(facts', said', removed')
    <2>1. /\ Keep(save_negative_affection_fact(facts, p)) /\ Says("affection", {p}, "no")
          /\ removed' = removed
      BY <1>3 DEF RemoveAffection
    <2>2. /\ facts' = save_negative_affection_fact(facts, p) /\ AsSaid(facts, said, removed)
          /\ ~Crowded(facts')
      BY <2>1, KeptFits
    <2>3. Replaces(facts', facts, {"affection"}, {p}, "negative_affection", p)
      BY <2>2, UncrowdedFits, SavedAffections DEF AsSaid
    <2>4. AsSaid(facts', said', removed)
      BY <2>1, <2>2, <2>3, AffectionLive
    <2> QED BY <2>1, <2>4
  <1>4. ASSUME NEW p \in Person, SaveMutualAffection(p)
        PROVE  AsSaid(facts', said', removed')
    <2> DEFINE hs == save_external_affection_fact(facts, p)
    <2>1. /\ Keep(save_affection_fact(hs, p)) /\ removed' = removed
          /\ said' = [said EXCEPT !["affection_to_user"][p] = "yes", !["affection"][p] = "yes"]
      BY <1>4 DEF SaveMutualAffection
    <2>2. facts' = save_affection_fact(hs, p) /\ AsSaid(facts, said, removed) /\ ~Crowded(facts')
      <3> HIDE DEF hs
      <3> QED BY <2>1, KeptFits
    <2>3. /\ Replaces(hs, facts, {"affection_to_user_negative"}, {p}, "affection_to_user", p)
          /\ Fits(hs)
      BY <2>2, UncrowdedFits, SavedAffections, ExternalFits DEF AsSaid
    <2> HIDE DEF hs
    <2>4. Replaces(facts', hs, {"negative_affection"}, {p}, "affection", p)
      BY <2>2, <2>3, SavedAffections
    <2>5. AsSaid(facts', said', removed)
      BY <2>1, <2>2, <2>3, <2>4, MutualLive
    <2> QED BY <2>1, <2>5
  <1>5. ASSUME NEW p \in Person, NEW negated \in BOOLEAN, SaveExternalAffection(p, negated)
        PROVE  AsSaid(facts', said', removed')
    <2> DEFINE gs == IF negated THEN save_negative_external_affection_fact(facts, p)
                     ELSE save_external_affection_fact(facts, p)
               what == IF negated THEN "no" ELSE "yes"
               r == IF negated THEN "affection_to_user_negative" ELSE "affection_to_user"
               q == IF negated THEN "affection_to_user" ELSE "affection_to_user_negative"
    <2>1. Keep(gs) /\ Says("affection_to_user", {p}, what) /\ removed' = removed
      BY <1>5 DEF SaveExternalAffection
    <2>2. facts' = gs /\ AsSaid(facts, said, removed) /\ ~Crowded(facts')
      <3> HIDE DEF gs, what
      <3> QED BY <2>1, KeptFits
    <2>3. Replaces(gs, facts, {q}, {p}, r, p)
      BY <2>2, UncrowdedFits, SavedAffections DEF AsSaid
    <2>4. \/ r = "affection_to_user" /\ q = "affection_to_user_negative" /\ what = "yes"
          \/ r = "affection_to_user_negative" /\ q = "affection_to_user" /\ what = "no"
      OBVIOUS
    <2> HIDE DEF gs, what, r, q
    <2>5. AsSaid(gs, said', removed)
      BY <2>1, <2>2, <2>3, <2>4, ReturnedLive
    <2> QED BY <2>1, <2>2, <2>5
  <1>6. ASSUME RemoveAllAffections
        PROVE  AsSaid(facts', said', removed')
    <2>1. /\ Keep(delete_profile_records(facts, {"affection"}, Value))
          /\ Says("affection", Value, "no") /\ removed' = removed
      BY <1>6 DEF RemoveAllAffections
    <2>2. /\ facts' = delete_profile_records(facts, {"affection"}, Value)
          /\ AsSaid(facts, said, removed) /\ ~Crowded(facts')
      BY <2>1, KeptFits
    <2>3. Deletes(facts', facts, {"affection"}, Value)
      BY <2>2, UncrowdedFits, DeletedRecords DEF AsSaid
    <2>4. AsSaid(facts', said', removed)
      BY <2>1, <2>2, <2>3, NoAffectionLive
    <2> QED BY <2>1, <2>4
  <1> QED BY <1>1, <1>2, <1>3, <1>4, <1>5, <1>6 DEF AffectionsNext

LEMMA GoalsLive ==
    ASSUME crowded \in BOOLEAN, ~crowded', ~crowded => AsSaid(facts, said, removed), GoalsNext
    PROVE  AsSaid(facts', said', removed')
  <1>1. ASSUME NEW v \in Thing, AddGoal(v) PROVE AsSaid(facts', said', removed')
    <2>1. Keep(add_goal(facts, v))
      BY <1>1 DEF AddGoal
    <2> QED BY <1>1, <2>1, KeptFits, GoalAdded
  <1>2. ASSUME NEW v \in Thing, IntendGoal(v) PROVE AsSaid(facts', said', removed')
    <2>1. Keep(save_fact(delete_profile_records(facts, {"negative_goal"}, {v}), "goal", v))
      BY <1>2 DEF IntendGoal
    <2> QED BY <1>2, <2>1, KeptFits, GoalIntended
  <1>3. ASSUME NEW v \in Thing, RetractGoal(v) PROVE AsSaid(facts', said', removed')
    <2>1. Keep(save_fact(delete_profile_records(
                  delete_profile_records(facts, {"goal"}, {v}), {"goal_focus"}, {v}),
                  "negative_goal", v))
      BY <1>3 DEF RetractGoal
    <2> QED BY <1>3, <2>1, KeptFits, GoalRetracted
  <1>4. "occupation" \in PlainRelation
    BY DEF PlainRelation
  <1> QED BY <1>1, <1>2, <1>3, <1>4, GoalFocused, GoalOrOccupationRemoved, GoalSwitched,
             GoalAddedAndRemoved, PlainSaved DEF GoalsNext

LEMMA NamesLive ==
    ASSUME crowded \in BOOLEAN, ~crowded', ~crowded => AsSaid(facts, said, removed), NamesNext
    PROVE  AsSaid(facts', said', removed')
  <1>1. PICK p \in Person, update \in BOOLEAN : SaveName(p, update)
    BY DEF NamesNext
  <1>2. Keep(save_fact(facts, "name", p)) /\ said' = said /\ removed' = removed
    BY <1>1 DEF SaveName
  <1>3. facts' = save_fact(facts, "name", p) /\ AsSaid(facts, said, removed) /\ ~Crowded(facts')
    BY <1>2, KeptFits
  <1>4. Saves(facts', facts, "name", p)
    BY <1>3, SavedFact, Relations DEF AsSaid
  <1>5. AsSaid(facts', said, removed)
    BY <1>3, <1>4, PlainLive, Relations DEF Saves, LeavesRest, KeepsFavorites, Liking
  <1> QED BY <1>2, <1>5

LEMMA RelationUpdated ==
    ASSUME AsSaid(facts, said, removed), NEW label \in Label, NEW p \in Person,
           facts' = save_relation_update(facts, label, p), ~Crowded(facts'),
           removed' = removed \ {<<label, p>>}, said' = said
    PROVE  AsSaid(facts', said', removed')
  <1> DEFINE hs == delete_relation_fact(facts, label)
  <1>1. facts \in RecordSeq /\ ~Crowded(facts) /\ Unnamed(facts, removed)
    BY DEF AsSaid
  <1>2. SameSubjects(hs, facts) /\ LeavesRest(hs, facts)
    BY <1>1, DeletedRelation
  <1>3. get_lookup_labels(label) = {label} /\ Single(facts, label) =>
           \A q : ~Names(hs, label, q)
    BY <1>1, DeletedRelation
  <1>4. facts' = save_relation(hs, label, p)
    BY DEF save_relation_update
  <1> HIDE DEF hs
  <1>5. Plain(label) => \A q : ~Names(hs, label, q)
    BY <1>1, <1>3 DEF Plain, Unnamed
  <1> QED BY <1>2, <1>4, <1>5, RelationSaved

LEMMA RelationsLive ==
    ASSUME crowded \in BOOLEAN, ~crowded', ~crowded => AsSaid(facts, said, removed), RelationsNext
    PROVE  AsSaid(facts', said', removed')
  <1>1. PICK label \in Label, p \in Person :
           \/ SaveRelation(label, p) \/ AssertRelation(label, p)
           \/ UpdateRelation(label, p) \/ RemoveRelation(label, p)
    BY DEF RelationsNext
  <1> DEFINE existing == find_existing_profile_value(facts, label)
  <1>2. ASSUME facts' = save_relation(facts, label, p), ~Crowded(facts'),
               AsSaid(facts, said, removed), existing = Nobody \/ label = "ban",
               removed' = removed \ {<<label, p>>}, said' = said
        PROVE  AsSaid(facts', said', removed')
    <2>1. facts \in RecordSeq /\ ~Crowded(facts)
      BY <1>2 DEF AsSaid
    <2>2. existing = Nobody => \A q : ~Names(facts, label, q)
      BY <2>1, FoundName
    <2> HIDE DEF existing
    <2>3. SameSubjects(facts, facts) /\ LeavesRest(facts, facts)
      BY <2>1 DEF SameSubjects, LeavesRest, KeepsFavorites
    <2>4. Plain(label) => \A q : ~Names(facts, label, q)
      BY <1>2, <2>2 DEF Plain
    <2> QED BY <1>2, <2>3, <2>4, RelationSaved
  <1>3. CASE SaveRelation(label, p)
    <2>1. /\ existing = Nobody /\ Keep(save_relation(facts, label, p))
          /\ removed' = removed \ {<<label, p>>} /\ said' = said
      BY <1>3 DEF SaveRelation, NotRemoved
    <2>2. /\ facts' = save_relation(facts, label, p) /\ AsSaid(facts, said, removed)
          /\ ~Crowded(facts')
      BY <2>1, KeptFits
    <2> QED BY <1>2, <2>1, <2>2
  <1>4. CASE AssertRelation(label, p)
    <2> DEFINE known == ~(existing = Nobody \/ label = "ban")
               gs == IF known THEN save_relation_update(facts, label, p)
                     ELSE save_relation(facts, label, p)
    <2>1. Keep(gs) /\ removed' = removed \ {<<label, p>>} /\ said' = said
      BY <1>4 DEF AssertRelation, NotRemoved
    <2>2. facts' = gs /\ AsSaid(facts, said, removed) /\ ~Crowded(facts')
      <3> HIDE DEF gs
      <3> QED BY <2>1, KeptFits
    <2>3. CASE known
      BY <2>1, <2>2, <2>3, RelationUpdated
    <2>4. CASE ~known
      BY <1>2, <2>1, <2>2, <2>4
    <2> QED BY <2>3, <2>4
  <1>5. CASE UpdateRelation(label, p)
    <2>1. /\ Keep(save_relation_update(facts, label, p))
          /\ removed' = removed \ {<<label, p>>} /\ said' = said
      BY <1>5 DEF UpdateRelation, NotRemoved
    <2> QED BY <2>1, KeptFits, RelationUpdated
  <1>6. CASE RemoveRelation(label, p)
    <2>1. /\ Keep(delete_relation_fact(facts, label))
          /\ removed' = removed \cup {<<label, p>>} /\ said' = said
      BY <1>6 DEF RemoveRelation
    <2> QED BY <2>1, KeptFits, RelationRemoved
  <1> QED BY <1>1, <1>3, <1>4, <1>5, <1>6

LEMMA WipedLive ==
    ASSUME crowded \in BOOLEAN, ~crowded', ~crowded => AsSaid(facts, said, removed),
           DeleteAllProfileMemory
    PROVE  AsSaid(facts', said', removed')
  <1> DEFINE gone == search_profile(facts, "FACT", WipeLimit)
                        \cup search_profile(facts, "PREFERENCE", WipeLimit)
  <1>1. /\ Keep(Without(facts, gone)) /\ removed' = removed
        /\ said' = [r \in Spoken |-> [v \in Value |-> "nothing"]]
    BY DEF DeleteAllProfileMemory, Spoken
  <1> HIDE DEF gone
  <1>2. facts' = Without(facts, gone) /\ AsSaid(facts, said, removed) /\ ~Crowded(facts')
    BY <1>1, KeptFits
  <1>3. facts \in RecordSeq
    BY <1>2 DEF AsSaid
  <1>4. DOMAIN facts \subseteq gone
    <2>1. /\ Cardinality(OfType(facts, "FACT")) <= WipeLimit
          /\ Cardinality(OfType(facts, "PREFERENCE")) <= WipeLimit
      BY <1>2, <1>3, UncrowdedFits, OfTypeFinite, LimitAssumption DEF AsSaid, Fits
    <2>2. /\ search_profile(facts, "FACT", WipeLimit) = OfType(facts, "FACT")
          /\ search_profile(facts, "PREFERENCE", WipeLimit) = OfType(facts, "PREFERENCE")
      BY <1>3, <2>1, SearchAll, LimitAssumption
    <2> QED BY <2>2 DEF gone, OfType, MemoryType
  <1>5. /\ facts' \in RecordSeq
        /\ \A r, v : ~Has(facts', r, v)
        /\ \A label, p : ~Names(facts', label, p)
    BY <1>2, <1>3, <1>4, WithoutLeaves
  <1>6. /\ said' \in SaidType
        /\ \A r \in Spoken, v \in Value : said'[r][v] = "nothing"
    BY <1>1 DEF SaidType
  <1>7. /\ Tastes(facts', said') /\ Favored(facts', said')
        /\ Skills(facts', said') /\ Goals(facts', said')
    BY <1>5, <1>6, Relations DEF Tastes, Favored, Favorite, Superlative, Skills, Goals
  <1>8. Affections(facts', said') /\ Returned(facts', said')
    BY <1>5, <1>6, Relations DEF Affections, Returned
  <1>9. Sorted(facts')
    BY <1>5 DEF Sorted
  <1>10. Unnamed(facts', removed')
    BY <1>5 DEF Unnamed, Single, Names
  <1> QED BY <1>2, <1>5, <1>6, <1>7, <1>8, <1>9, <1>10 DEF AsSaid

LEMMA ProfileStarts == ProfileInit => ProfileInv
  <1> SUFFICES ASSUME ProfileInit PROVE ProfileInv
    OBVIOUS
  <1>1. facts = <<>> /\ removed = {} /\ crowded = FALSE
    BY DEF ProfileInit
  <1>2. /\ said \in SaidType
        /\ \A r \in Spoken, v \in Value : said[r][v] = "nothing"
    BY DEF ProfileInit, SaidType, Spoken
  <1>3. facts \in RecordSeq /\ DOMAIN facts = {}
    BY <1>1 DEF RecordSeq
  <1>4. ~Crowded(facts)
    <2>1. OfType(facts, "FACT") = {} /\ OfType(facts, "PREFERENCE") = {}
      BY <1>3 DEF OfType
    <2>2. Cardinality({}) = 0
      BY FS_EmptySet
    <2> QED BY <2>1, <2>2, LimitAssumption DEF Crowded
  <1>5. \A r, v : ~Has(facts, r, v)
    BY <1>3 DEF Has
  <1>6. /\ Tastes(facts, said) /\ Favored(facts, said)
        /\ Skills(facts, said) /\ Goals(facts, said)
    BY <1>2, <1>5, Relations DEF Tastes, Favored, Favorite, Superlative, Skills, Goals
  <1>7. Affections(facts, said) /\ Returned(facts, said)
    BY <1>2, <1>5, Relations DEF Affections, Returned
  <1>8. Sorted(facts) /\ Unnamed(facts, removed)
    BY <1>1, <1>3, <1>5 DEF Sorted, Unnamed, Single
  <1> QED BY <1>1, <1>2, <1>3, <1>4, <1>6, <1>7, <1>8 DEF ProfileInv, AsSaid

LEMMA ProfileStep == ProfileInv /\ [ProfileNext]_profileVars => ProfileInv'
  <1> SUFFICES ASSUME ProfileInv, [ProfileNext]_profileVars PROVE ProfileInv'
    OBVIOUS
  <1>1. crowded \in BOOLEAN /\ (~crowded => AsSaid(facts, said, removed))
    BY DEF ProfileInv
  <1>2. CASE UNCHANGED profileVars
    <2>1. facts' = facts /\ said' = said /\ removed' = removed /\ crowded' = crowded
      BY <1>2 DEF profileVars
    <2> QED BY <1>1, <2>1 DEF ProfileInv
  <1>3. CASE ProfileNext
    <2>1. crowded' \in BOOLEAN
      <3>1. \E fs : Keep(fs)
        BY <1>3 DEF ProfileNext, LikesNext, AbilitiesNext, AffectionsNext, GoalsNext, NamesNext,
              RelationsNext, DeleteAllProfileMemory, SavePreference, UpdateDislike, SaveSuperlative, SavePlain,
              SaveSkill, RemovePlain, SaveAffection, AddAffection, RemoveAffection,
              SaveMutualAffection, SaveExternalAffection, RemoveAllAffections, AddGoal,
              IntendGoal, RetractGoal, FocusGoal, RemoveGoalOrOccupation, SwitchGoal,
              AddAndRemoveGoal, SaveName, SaveRelation, AssertRelation, UpdateRelation,
              RemoveRelation
      <3> QED BY <3>1 DEF Keep
    <2>2. ASSUME ~crowded' PROVE AsSaid(facts', said', removed')
      BY <1>1, <1>3, <2>2, LikesLive, AbilitiesLive, AffectionsLive, GoalsLive, NamesLive,
         RelationsLive, WipedLive DEF ProfileNext
    <2> QED BY <2>1, <2>2 DEF ProfileInv
  <1> QED BY <1>2, <1>3

(* The answers about a live profile are what was said of it.               *)
LEMMA LiveAnswers ==
    ASSUME AsSaid(facts, said, removed)
    PROVE  LET s == collect_profile_snapshot(facts) IN
           /\ \A v \in Thing :
                 /\ Agrees(said["preference"][v], answer_preference(facts, s, v))
                 /\ /\ said["preference"][v] = "nothing"
                    /\ \E r \in Superlative : said[r][v] = "yes"
                    => answer_preference(facts, s, v) = "yes"
                 /\ Agrees(said["skill"][v], answer_skill(s, v))
                 /\ said["goal"][v] = "yes" => answer_self_do(s, v) = "yes"
                 /\ said["goal"][v] = "no" => v \notin goals(s)
           /\ \A p \in Person :
                 /\ said["affection"][p] = "yes" => answer_preference(facts, s, p) = "yes"
                 /\ said["affection"][p] = "no" => answer_preference(facts, s, p) # "yes"
                 /\ answer_preference(facts, s, p) = preference_item_state(facts, s, p)
                 /\ Agrees(said["affection_to_user"][p], answer_third_party_affection(s, p))
  <1> DEFINE s == collect_profile_snapshot(facts)
  <1>1. \A r \in {"preference", "negative_preference", "skill", "negative_skill", "affection",
                 "negative_affection", "affection_to_user", "affection_to_user_negative",
                 "goal", "goal_focus", "comparative"} :
           \A v : v \in s[r] <=> Has(facts, r, v)
    BY InSnapshot, Relations
  <1>2. Fits(facts)
    BY UncrowdedFits DEF AsSaid
  <1>3. \A v : v \in goals(s) <=> Wants(facts, v)
    BY <1>2, ActiveGoals
  <1>4. \A r \in {"favorite_food", "favorite_general"}, p \in Person : newest_fact(facts, r) # p
    <2>1. ASSUME NEW r \in {"favorite_food", "favorite_general"}, NEW p \in Person,
                 newest_fact(facts, r) = p
          PROVE  FALSE
      <3>1. p # Nobody
        BY ValueAssumption DEF Value
      <3>2. Has(facts, r, p)
        BY <1>2, <2>1, <3>1, NewestIsLive
      <3> QED BY <3>2, Relations DEF AsSaid, Sorted, Liking
    <2> QED BY <2>1
  <1>9. \A v \in Thing : (\E r \in Superlative : said[r][v] = "yes") => v \in Liked(facts, s)
    <2>1. ASSUME NEW v \in Thing, said["comparative"][v] = "yes" PROVE v \in Liked(facts, s)
      <3>1. Has(facts, "comparative", v)
        BY <2>1 DEF AsSaid, Favored
      <3>2. v \in s["comparative"]
        BY <1>1, <3>1
      <3> HIDE DEF s
      <3> QED BY <3>2 DEF Liked
    <2>2. ASSUME NEW v \in Thing, NEW r \in Favorite, said[r][v] = "yes"
          PROVE  v \in Liked(facts, s)
      <3>1. newest_fact(facts, r) = v
        BY <1>2, <2>2, LatestIsNewest DEF AsSaid, Favored
      <3> HIDE DEF s
      <3> QED BY <3>1 DEF Liked, Favorite
    <2> HIDE DEF s
    <2> QED BY <2>1, <2>2 DEF Superlative, Favorite
  <1> HIDE DEF s
  <1>5. \A p \in Person : p \notin Liked(facts, s)
    BY <1>1, <1>4, Relations DEF AsSaid, Sorted, Liking, Liked
  <1>6. \A v \in Thing : v \notin s["affection"] /\ v \notin s["negative_affection"]
    BY <1>1, Relations DEF AsSaid, Sorted, Loving
  <1>7. ASSUME NEW v \in Thing
        PROVE  /\ Agrees(said["preference"][v], answer_preference(facts, s, v))
               /\ /\ said["preference"][v] = "nothing"
                  /\ \E r \in Superlative : said[r][v] = "yes"
                  => answer_preference(facts, s, v) = "yes"
               /\ Agrees(said["skill"][v], answer_skill(s, v))
               /\ said["goal"][v] = "yes" => answer_self_do(s, v) = "yes"
               /\ said["goal"][v] = "no" => v \notin goals(s)
    <2>1. Agrees(said["preference"][v], answer_preference(facts, s, v))
      BY <1>1, <1>6 DEF AsSaid, Tastes, Agrees, answer_preference, answer_taste, Liked
    <2>2. Agrees(said["skill"][v], answer_skill(s, v))
      BY <1>1 DEF AsSaid, Skills, Agrees, answer_skill
    <2>3. said["goal"][v] = "yes" => answer_self_do(s, v) = "yes"
      BY <1>3 DEF AsSaid, Goals, answer_self_do, goal_keys_match
    <2>4. said["goal"][v] = "no" => v \notin goals(s)
      BY <1>3 DEF AsSaid, Goals
    <2>5. ASSUME said["preference"][v] = "nothing", \E r \in Superlative : said[r][v] = "yes"
          PROVE  answer_preference(facts, s, v) = "yes"
      <3>1. ~Has(facts, "negative_preference", v)
        BY <2>5 DEF AsSaid, Tastes
      <3>2. v \notin s["negative_preference"] /\ v \in Liked(facts, s)
        BY <1>1, <1>9, <2>5, <3>1
      <3> QED BY <1>6, <3>2 DEF answer_preference, answer_taste
    <2> QED BY <2>1, <2>2, <2>3, <2>4, <2>5
  <1>8. ASSUME NEW p \in Person
        PROVE  /\ said["affection"][p] = "yes" => answer_preference(facts, s, p) = "yes"
               /\ said["affection"][p] = "no" => answer_preference(facts, s, p) # "yes"
               /\ answer_preference(facts, s, p) = preference_item_state(facts, s, p)
               /\ Agrees(said["affection_to_user"][p], answer_third_party_affection(s, p))
    <2>1. said["affection"][p] = "yes" => answer_preference(facts, s, p) = "yes"
      BY <1>1 DEF AsSaid, Affections, answer_preference
    <2>2. said["affection"][p] = "no" => answer_preference(facts, s, p) # "yes"
      BY <1>1, <1>5 DEF AsSaid, Affections, answer_preference, answer_taste
    <2>3. answer_preference(facts, s, p) = preference_item_state(facts, s, p)
      BY <1>1 DEF AsSaid, Affections, answer_preference, preference_item_state
    <2>4. Agrees(said["affection_to_user"][p], answer_third_party_affection(s, p))
      BY <1>1 DEF AsSaid, Returned, Agrees, answer_third_party_affection
    <2> QED BY <2>1, <2>2, <2>3, <2>4
  <1> QED BY <1>7, <1>8 DEF s

(* As long as the searches return every record, the assistant answers what *)
(* the user said: of plain likes and dislikes, abilities, goals and persons *)
(* the last thing said, whatever the messages before and the handlers that *)
(* wrote them; a favorite or a winner is liked unless a dislike of it       *)
(* stands; and the question about one person and the one about several     *)
(* give the same answer.                                                   *)
THEOREM ProfileAnswersWhatWasSaid == ProfileSpec => []AnswersWhatWasSaid
  <1>1. ProfileInv => AnswersWhatWasSaid
    BY LiveAnswers DEF ProfileInv, AnswersWhatWasSaid
  <1> QED BY <1>1, ProfileStarts, ProfileStep, PTL DEF ProfileSpec

(* A person the user was told is removed from a label without synonyms is  *)
(* not found under it again until named anew, for every set of labels.     *)
THEOREM ProfileRemovalForgets == ProfileSpec => []RemovalForgets
  <1>1. ProfileInv => RemovalForgets
    <2> SUFFICES ASSUME ProfileInv, ~crowded, NEW label \in Label, NEW p \in Person,
                        <<label, p>> \in removed, Plain(label)
                 PROVE  find_existing_profile_value(facts, label) # p
      BY DEF RemovalForgets, Plain
    <2>1. AsSaid(facts, said, removed)
      BY DEF ProfileInv
    <2>2. facts \in RecordSeq /\ ~Crowded(facts) /\ ~Names(facts, label, p)
      BY <2>1 DEF AsSaid, Unnamed
    <2>3. p # Nobody
      BY ValueAssumption DEF Value
    <2> QED BY <2>2, <2>3, FoundName
  <1> QED BY <1>1, ProfileStarts, ProfileStep, PTL DEF ProfileSpec

-----------------------------------------------------------------------------
(* Stores and profile together                                             *)

(* Every record of the in-memory store, every line of the file and every   *)
(* history keeps its type, whatever dies in a write and wherever the clock *)
(* goes.                                                                   *)
THEOREM StoresTyped == Spec => []TypeOK
  <1>1. AcknowledgedInv => TypeOK
    BY DEF AcknowledgedInv
  <1> QED BY <1>1, AcknowledgedInit, AcknowledgedNext, PTL DEF Spec

(* A behaviour that is explored by part is one of the stores and one of    *)
(* the profile, so that the results about them hold of it.                 *)
THEOREM MemorySafe ==
    MemorySpec => /\ Spec /\ ProfileSpec
                  /\ [](/\ StoresAgree /\ LoadReturnsAcknowledged /\ ContextPackIsBestPrefix
                        /\ AnswersWhatWasSaid /\ RemovalForgets)
  <1>1. MemoryInit => Init /\ ProfileInit
    BY DEF MemoryInit
  <1>2. [MemoryNext]_<<part, vars, profileVars>> => [Next]_vars /\ [ProfileNext]_profileVars
    BY DEF MemoryNext, ProfileNext
  <1>3. MemorySpec => Spec /\ ProfileSpec
    BY <1>1, <1>2, PTL DEF MemorySpec, Spec, ProfileSpec
  <1> QED BY <1>3, StoresCannotBeToldApart, StoresLoadAcknowledged, StoresPackIsBest,
             ProfileAnswersWhatWasSaid, ProfileRemovalForgets, PTL
=============================================================================
