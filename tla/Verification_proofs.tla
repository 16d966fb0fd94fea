------------------------- MODULE Verification_proofs -------------------------
(***************************************************************************)
(* Machine-checked proofs about Verification, for every value of its       *)
(* constants: any number of workflows, runs, reruns, pages and deletions.  *)
(*                                                                         *)
(* The counting comes first.  A run's position in the newest-first list is *)
(* its rank, and a page is an interval of ranks: every rank in it is taken *)
(* by exactly one run, and a short page reaches the end of the list.  Then *)
(* the invariant: what has been read so far is a truthful, if dated,       *)
(* account of the runs, and nothing known at the start has slipped past    *)
(* the pages read, unless a deletion moved it.                             *)
(***************************************************************************)
EXTENDS Verification, FiniteSetTheorems, TLAPS

-----------------------------------------------------------------------------
(* Counting from the top of a finite set of numbers.                        *)

Rank(S, i) == Cardinality({j \in S : j >= i})

LEMMA RankType ==
  ASSUME NEW S \in SUBSET Nat, IsFiniteSet(S), NEW i \in S
  PROVE  Rank(S, i) \in 1 .. Cardinality(S)
  <1>. DEFINE T == {j \in S : j >= i}
  <1>1. T \in SUBSET S /\ i \in T
    OBVIOUS
  <1>2. IsFiniteSet(T) /\ Cardinality(T) <= Cardinality(S)
    BY <1>1, FS_Subset
  <1>3. Cardinality(T) \in Nat /\ Cardinality(S) \in Nat
    BY <1>2, FS_CardinalityType
  <1>4. Cardinality(T) # 0
    BY <1>1, <1>2, FS_EmptySet
  <1>. QED
    BY <1>2, <1>3, <1>4 DEF Rank

LEMMA RankFalls ==
  ASSUME NEW S \in SUBSET Nat, IsFiniteSet(S), NEW i \in S, NEW j \in S, i < j
  PROVE  Rank(S, j) < Rank(S, i)
  <1>. DEFINE T == {k \in S : k >= i}
             U == {k \in S : k >= j}
  <1>0. i \in Nat /\ j \in Nat /\ \A k \in S : k \in Nat
    OBVIOUS
  <1>1. T \in SUBSET S /\ U \in SUBSET T
    <2>1. \A k \in S : k >= j => k >= i
      BY <1>0
    <2>. QED
      BY <2>1
  <1>2. IsFiniteSet(T)
    BY <1>1, FS_Subset
  <1>3. Cardinality(U) <= Cardinality(T) /\ (Cardinality(T) = Cardinality(U) => T = U)
    BY <1>1, <1>2, FS_Subset
  <1>4. i \in T /\ i \notin U
    OBVIOUS
  <1>5. IsFiniteSet(U)
    BY <1>1, <1>2, FS_Subset
  <1>6. Cardinality(T) \in Nat /\ Cardinality(U) \in Nat
    BY <1>2, <1>5, FS_CardinalityType
  <1>7. T # U
    BY <1>4
  <1>. HIDE DEF T, U
  <1>8. Cardinality(U) < Cardinality(T)
    BY <1>3, <1>6, <1>7
  <1>. QED
    BY <1>8 DEF Rank, T, U

\* Every rank is taken, by one element only.
LEMMA RankOnto ==
  ASSUME NEW S \in SUBSET Nat, IsFiniteSet(S)
  PROVE  /\ \A i, j \in S : Rank(S, i) = Rank(S, j) => i = j
         /\ \A n \in 1 .. Cardinality(S) : \E i \in S : Rank(S, i) = n
  <1>. DEFINE f == [i \in S |-> Rank(S, i)]
             T == 1 .. Cardinality(S)
  <1>1. Cardinality(S) \in Nat
    BY FS_CardinalityType
  <1>2. IsFiniteSet(T) /\ Cardinality(T) = Cardinality(S)
    BY <1>1, FS_Interval
  <1>3. \A i, j \in S : Rank(S, i) = Rank(S, j) => i = j
    <2>. SUFFICES ASSUME NEW i \in S, NEW j \in S, i # j
                  PROVE  Rank(S, i) # Rank(S, j)
      OBVIOUS
    <2>0. Rank(S, i) \in Nat /\ Rank(S, j) \in Nat
      BY <1>1, RankType
    <2>1. CASE i < j
      BY <2>0, <2>1, RankFalls
    <2>2. CASE j < i
      BY <2>0, <2>2, RankFalls
    <2>3. i \in Nat /\ j \in Nat
      OBVIOUS
    <2>. QED
      BY <2>1, <2>2, <2>3
  <1>4. f \in [S -> T]
    BY RankType
  <1>5. f \in Injection(S, T)
    BY <1>3, <1>4 DEF Injection, IsInjective
  <1>6. f \in Surjection(S, T)
    BY <1>2, <1>5, FS_Injection
  <1>7. \A n \in T : \E i \in S : f[i] = n
    BY <1>6 DEF Surjection
  <1>. QED
    BY <1>3, <1>7

\* A finite set of numbers that has a member has a greatest one.
LEMMA GreatestExists ==
  ASSUME NEW S \in SUBSET Nat, IsFiniteSet(S), S # {}
  PROVE  \E m \in S : \A j \in S : j <= m
  <1>1. Cardinality(S) \in Nat /\ Cardinality(S) # 0
    BY FS_CardinalityType, FS_EmptySet
  <1>2. PICK m \in S : Rank(S, m) = 1
    BY <1>1, RankOnto
  <1>3. ASSUME NEW j \in S, ~ j <= m PROVE FALSE
    <2>1. m < j
      BY <1>3
    <2>2. Rank(S, j) < 1
      BY <1>2, <2>1, RankFalls
    <2>. QED
      BY <1>1, <2>2, RankType
  <1>. QED
    BY <1>3

\* Likewise for a least one below a bound.
LEMMA LeastExists ==
  ASSUME NEW N \in Nat, NEW S \in SUBSET (1 .. N), S # {}
  PROVE  \E m \in S : \A j \in S : m <= j
  <1>. DEFINE T == {n \in 1 .. N : N + 1 - n \in S}
  <1>1. T \in SUBSET Nat /\ IsFiniteSet(T)
    <2>1. IsFiniteSet(1 .. N)
      BY FS_Interval
    <2>. QED
      BY <2>1, FS_Subset
  <1>2. T # {}
    <2>1. PICK i \in S : TRUE
      OBVIOUS
    <2>2. N + 1 - i \in 1 .. N /\ N + 1 - (N + 1 - i) = i
      BY <2>1
    <2>. QED
      BY <2>1, <2>2
  <1>. HIDE DEF T
  <1>3. PICK n \in T : \A j \in T : j <= n
    BY <1>1, <1>2, GreatestExists
  <1>4. n \in 1 .. N /\ N + 1 - n \in S
    BY <1>3 DEF T
  <1>5. ASSUME NEW j \in S PROVE N + 1 - n <= j
    <2>1. N + 1 - j \in 1 .. N /\ N + 1 - (N + 1 - j) = j
      OBVIOUS
    <2>2. N + 1 - j \in T
      BY <2>1 DEF T
    <2>3. N + 1 - j <= n
      BY <1>3, <2>2
    <2>. QED
      BY <1>4, <2>1, <2>3
  <1>. QED
    BY <1>4, <1>5

Ranked(S, lo, w) == {i \in S : Rank(S, i) \in lo + 1 .. lo + w}

\* An interval of ranks: who is in it, how many they are, and what a shortage
\* means.
LEMMA IntervalOfRanks ==
  ASSUME NEW S \in SUBSET Nat, IsFiniteSet(S), NEW lo \in Nat, NEW w \in Nat
  PROVE  LET c == Cardinality(Ranked(S, lo, w))
         IN  /\ c \in Nat
             /\ \A n \in 1 .. c : \E i \in Ranked(S, lo, w) : Rank(S, i) = lo + n
             /\ \A i \in Ranked(S, lo, w) : Rank(S, i) - lo \in 1 .. c
             /\ c < w => \A i \in S : Rank(S, i) <= lo + w
  <1>. DEFINE ids == Ranked(S, lo, w)
             L == Cardinality(S)
             hi == IF L <= lo + w THEN L ELSE lo + w
             T == lo + 1 .. hi
             f == [i \in ids |-> Rank(S, i)]
  <1>. USE DEF Ranked
  <1>1. L \in Nat /\ hi \in Nat
    BY FS_CardinalityType
  <1>2. \A i \in S : Rank(S, i) \in 1 .. L
    BY RankType
  <1>3. IsFiniteSet(ids)
    BY FS_Subset
  <1>4. \A i \in ids : f[i] \in T /\ f[i] = Rank(S, i)
    BY <1>1, <1>2
  <1>5. \A n \in T : \E i \in ids : f[i] = n
    <2>. SUFFICES ASSUME NEW n \in T PROVE \E i \in ids : f[i] = n
      OBVIOUS
    <2>1. n \in 1 .. L /\ n \in lo + 1 .. lo + w
      BY <1>1
    <2>2. PICK i \in S : Rank(S, i) = n
      BY <2>1, RankOnto
    <2>. QED
      BY <2>1, <2>2
  <1>6. \A i, j \in ids : f[i] = f[j] => i = j
    BY RankOnto
  <1>. HIDE DEF T, f
  <1>7. f \in [ids -> T]
    BY <1>4 DEF f
  <1>8. f \in Bijection(ids, T)
    BY <1>5, <1>6, <1>7 DEF Bijection, Injection, Surjection, IsInjective
  <1>9. Cardinality(ids) = Cardinality(T)
    BY <1>3, <1>8, FS_Bijection DEF ExistsBijection
  <1>10. Cardinality(ids) = IF lo + 1 > hi THEN 0 ELSE hi - lo
    <2>. DEFINE a == lo + 1
    <2>0. a \in Int /\ hi \in Int
      BY <1>1
    <2>. HIDE DEF a, hi
    <2>1. Cardinality(a .. hi) = IF a > hi THEN 0 ELSE hi - a + 1
      BY <2>0, FS_Interval
    <2>2. Cardinality(T) = IF lo + 1 > hi THEN 0 ELSE hi - (lo + 1) + 1
      BY <2>1 DEF T, a
    <2>. QED
      BY <1>1, <1>9, <2>2
  <1>11. Cardinality(ids) \in Nat
    BY <1>1, <1>10
  <1>12. ASSUME NEW n \in 1 .. Cardinality(ids)
         PROVE  \E i \in ids : Rank(S, i) = lo + n
    <2>1. lo + n \in T
      BY <1>1, <1>10 DEF T
    <2>. QED
      BY <1>4, <1>5, <2>1
  <1>13. ASSUME NEW i \in ids PROVE Rank(S, i) - lo \in 1 .. Cardinality(ids)
    <2>1. Rank(S, i) \in T
      BY <1>4
    <2>. QED
      BY <1>1, <1>10, <2>1 DEF T
  <1>14. ASSUME Cardinality(ids) < w, NEW i \in S PROVE Rank(S, i) <= lo + w
    BY <1>1, <1>2, <1>10, <1>14
  <1>. QED
    BY <1>11, <1>12, <1>13, <1>14

-----------------------------------------------------------------------------
(* The inductive invariant.                                                 *)

\* Between two listings nothing is kept of the last one.
Fresh ==
  /\ pc \notin {"page", "evaluate"} => got = <<>> /\ page = 1
  /\ pc = "page" /\ page = 1 => got = <<>>
  /\ outcome # "none" => pc \in {"idle", "cleanup"}

\* What was read of a run was true when it was read.
Truthful(r) ==
  /\ r.id \in 1 .. Len(hosted)
  /\ r.key = hosted[r.id].key /\ r.attempt <= hosted[r.id].attempt
  /\ r.status = "success" => r.id \in good
  /\ r.status = "failure" => r.id \in bad

Account ==
  /\ \A n \in 1 .. Len(got) : Truthful(got[n])
  /\ Ids("success") \subseteq good /\ Ids("failure") \subseteq bad
  /\ \A k \in Keys : latest[k] # 0 => hosted[latest[k]].key = k

Read(i) == \E n \in 1 .. Len(got) : got[n].id = i

\* A run known at the start is still ahead in the list or has been read.
Covered ==
  ~ shifted =>
    \A k \in Keys : latest[k] # 0 =>
      /\ pc = "page" /\ page > 1 =>
           /\ latest[k] \in Listed
           /\ Position(latest[k]) <= (page - 1) * PageSize => Read(latest[k])
      /\ pc = "evaluate" => Read(latest[k])

\* What the steps passed so far have established, and nobody takes back.
Accepted ==
  \A k \in Keys : latest[k] # 0 \/ k \in Required => shifted \/ Current(k, good) # {}

Established ==
  /\ pc \in {"page", "evaluate", "waiting"} => tagged
  /\ pc \in {"release", "assets", "tree", "command"} \/ outcome = "ok" =>
       tagged /\ Accepted
  /\ pc \in {"assets", "tree", "command"} \/ outcome = "ok" => release = "published"
  /\ pc \in {"tree", "command"} \/ outcome = "ok" => Assets \subseteq uploaded
  /\ pc = "command" => Destinations \ left \subseteq public
  /\ outcome = "ok" => public = Destinations

IInv ==
  TypeOK /\ Fresh /\ Account /\ Covered /\ Established /\ RefusalIsReal


-----------------------------------------------------------------------------
(* Operators of the model.                                                  *)

Hosted == [key : Keys, attempt : Nat, status : Statuses]

\* One page read is a list of true entries, complete for its interval of
\* positions; a short one leaves nothing behind it.
LEMMA PageRuns ==
  ASSUME TypeOK, NEW p \in Nat \ {0}
  PROVE  /\ RunsOfPage(p) \in Seq(Run)
         /\ \A n \in 1 .. Len(RunsOfPage(p)) :
              LET r == RunsOfPage(p)[n]
              IN  /\ r.id \in Listed /\ r.key = hosted[r.id].key
                  /\ r.attempt = hosted[r.id].attempt
                  /\ r.status = hosted[r.id].status
         /\ \A i \in Listed :
              Position(i) > (p - 1) * PageSize /\ Position(i) <= p * PageSize =>
                \E n \in 1 .. Len(RunsOfPage(p)) : RunsOfPage(p)[n].id = i
         /\ LastPage(RunsOfPage(p)) => \A i \in Listed : Position(i) <= p * PageSize
  <1>. DEFINE lo == (p - 1) * PageSize
             ids == {i \in Listed : Position(i) \in lo + 1 .. p * PageSize}
             at(n) == CHOOSE k \in ids : Position(k) = lo + n
             entry(i) == [id |-> i, key |-> hosted[i].key,
                          attempt |-> hosted[i].attempt, status |-> hosted[i].status]
             runs == RunsOfPage(p)
  <1>1. PageSize \in Nat /\ lo \in Nat /\ p * PageSize = lo + PageSize
    BY ConstantsAssumption
  <1>2. Len(hosted) \in Nat /\ \A i \in 1 .. Len(hosted) : hosted[i] \in Hosted
    <2>1. hosted \in Seq(Hosted)
      BY DEF TypeOK, Hosted
    <2>. QED
      BY <2>1
  <1>3. Listed \in SUBSET Nat /\ IsFiniteSet(Listed) /\ Listed \subseteq 1 .. Len(hosted)
    <2>1. IsFiniteSet(1 .. Len(hosted)) /\ Listed \in SUBSET (1 .. Len(hosted))
      BY <1>2, FS_Interval DEF Listed
    <2>2. IsFiniteSet(Listed)
      BY <2>1, FS_Subset
    <2>. QED
      BY <2>1, <2>2, <1>2
  <1>4. \A i \in Listed : Position(i) = Rank(Listed, i)
    BY DEF Position, Rank
  <1>5. ids = Ranked(Listed, lo, PageSize)
    BY <1>1, <1>4 DEF Ranked
  <1>6. ids \subseteq Listed
    OBVIOUS
  <1>7. runs = [n \in 1 .. Cardinality(ids) |-> entry(at(n))]
    BY DEF RunsOfPage
  <1>8. \A i \in Listed : entry(i) \in Run
    BY <1>2, <1>3 DEF Run, Hosted
  <1>. HIDE DEF lo, ids
  <1>9. /\ Cardinality(ids) \in Nat
        /\ \A n \in 1 .. Cardinality(ids) : \E i \in ids : Rank(Listed, i) = lo + n
        /\ \A i \in ids : Rank(Listed, i) - lo \in 1 .. Cardinality(ids)
        /\ Cardinality(ids) < PageSize => \A i \in Listed : Rank(Listed, i) <= lo + PageSize
    <2>1. Listed \in SUBSET Nat /\ IsFiniteSet(Listed) /\ lo \in Nat /\ PageSize \in Nat
      BY <1>1, <1>3
    <2>. DEFINE S == Listed
    <2>. HIDE DEF S
    <2>2. LET c == Cardinality(Ranked(S, lo, PageSize))
          IN  /\ c \in Nat
              /\ \A n \in 1 .. c : \E i \in Ranked(S, lo, PageSize) : Rank(S, i) = lo + n
              /\ \A i \in Ranked(S, lo, PageSize) : Rank(S, i) - lo \in 1 .. c
              /\ c < PageSize => \A i \in S : Rank(S, i) <= lo + PageSize
      <3>1. S \in SUBSET Nat /\ IsFiniteSet(S)
        BY <2>1 DEF S
      <3>. QED
        BY <2>1, <3>1, IntervalOfRanks
    <2>. QED
      BY <1>5, <2>2 DEF S
  <1>10. \A n \in 1 .. Cardinality(ids) : at(n) \in ids /\ Position(at(n)) = lo + n
    <2>. SUFFICES ASSUME NEW n \in 1 .. Cardinality(ids)
                  PROVE  at(n) \in ids /\ Position(at(n)) = lo + n
      OBVIOUS
    <2>1. \E i \in ids : Position(i) = lo + n
      BY <1>4, <1>6, <1>9
    <2>. QED
      BY <2>1
  <1>. HIDE DEF at
  <1>11. runs \in Seq(Run) /\ Len(runs) = Cardinality(ids)
    <2>1. \A n \in 1 .. Cardinality(ids) : entry(at(n)) \in Run
      BY <1>6, <1>8, <1>10
    <2>2. [n \in 1 .. Cardinality(ids) |-> entry(at(n))] \in [1 .. Cardinality(ids) -> Run]
      BY <2>1
    <2>3. runs \in [1 .. Cardinality(ids) -> Run]
      BY <1>7, <2>2
    <2>. HIDE DEF runs, entry
    <2>. QED
      BY <1>9, <2>3
  <1>. HIDE DEF entry
  <1>12. \A n \in 1 .. Len(runs) : runs[n] = entry(at(n)) /\ at(n) \in Listed
    BY <1>6, <1>7, <1>10, <1>11
  <1>. HIDE DEF runs
  <1>13. ASSUME NEW n \in 1 .. Len(runs)
         PROVE  LET r == runs[n]
                IN  /\ r.id \in Listed /\ r.key = hosted[r.id].key
                    /\ r.attempt = hosted[r.id].attempt
                    /\ r.status = hosted[r.id].status
    <2>1. runs[n] = entry(at(n)) /\ at(n) \in Listed
      BY <1>12
    <2>2. entry(at(n)).id = at(n)
      BY DEF entry
    <2>. QED
      BY <2>1, <2>2 DEF entry
  <1>14. ASSUME NEW i \in Listed,
                Position(i) > (p - 1) * PageSize, Position(i) <= p * PageSize
         PROVE  \E n \in 1 .. Len(runs) : runs[n].id = i
    <2>1. Rank(Listed, i) \in Nat
      BY <1>3, RankType, FS_CardinalityType
    <2>2. i \in ids
      BY <1>1, <1>4, <1>5, <1>14, <2>1 DEF lo, Ranked
    <2>. DEFINE m == Rank(Listed, i) - lo
    <2>3. m \in 1 .. Len(runs) /\ Position(i) = lo + m
      BY <1>1, <1>4, <1>9, <1>11, <2>1, <2>2
    <2>4. at(m) \in Listed /\ Rank(Listed, at(m)) = Rank(Listed, i)
      BY <1>4, <1>6, <1>10, <1>11, <2>3
    <2>5. \A a, b \in Listed : Rank(Listed, a) = Rank(Listed, b) => a = b
      BY <1>3, RankOnto
    <2>6. at(m) = i
      BY <2>4, <2>5
    <2>7. runs[m] = entry(i)
      BY <1>12, <2>3, <2>6
    <2>8. runs[m].id = i
      BY <2>7 DEF entry
    <2>. QED
      BY <2>3, <2>8
  <1>15. ASSUME LastPage(runs), NEW i \in Listed PROVE Position(i) <= p * PageSize
    BY <1>1, <1>4, <1>9, <1>11, <1>15 DEF LastPage
  <1>. QED
    BY <1>11, <1>13, <1>14, <1>15 DEF runs

\* The newest run of a key is a listed run of that key.
LEMMA LatestOfIsListed ==
  ASSUME TypeOK, NEW k \in Keys
  PROVE  LatestOf(k) = 0 \/ (LatestOf(k) \in Listed /\ hosted[LatestOf(k)].key = k)
  <1>. DEFINE ids == {i \in Listed : hosted[i].key = k}
  <1>1. ids \in SUBSET Nat /\ IsFiniteSet(ids)
    <2>1. Len(hosted) \in Nat
      BY DEF TypeOK
    <2>2. IsFiniteSet(1 .. Len(hosted)) /\ ids \in SUBSET (1 .. Len(hosted))
      BY <2>1, FS_Interval DEF Listed
    <2>. QED
      BY <2>1, <2>2, FS_Subset
  <1>2. CASE ids = {}
    BY <1>2 DEF LatestOf
  <1>3. CASE ids # {}
    <2>1. \E m \in ids : \A j \in ids : j <= m
      BY <1>1, <1>3, GreatestExists
    <2>2. LatestOf(k) = CHOOSE m \in ids : \A j \in ids : j <= m
      BY <1>3 DEF LatestOf
    <2>. HIDE DEF ids
    <2>3. LatestOf(k) \in ids
      BY <2>1, <2>2
    <2>. QED
      BY <2>3 DEF ids
  <1>. QED
    BY <1>2, <1>3


\* What a result and a rerun change of the list of runs.
LEMMA StatusSet ==
  ASSUME hosted \in Seq(Hosted), NEW i \in 1 .. Len(hosted), NEW s \in Statuses
  PROVE  LET h == [hosted EXCEPT ![i].status = s]
         IN  /\ h \in Seq(Hosted) /\ Len(h) = Len(hosted)
             /\ h[i].status = s
             /\ \A j \in 1 .. Len(hosted) :
                  /\ h[j].key = hosted[j].key /\ h[j].attempt = hosted[j].attempt
                  /\ j # i => h[j].status = hosted[j].status
  <1>. DEFINE e == [hosted[i] EXCEPT !.status = s]
  <1>1. hosted[i] \in Hosted
    OBVIOUS
  <1>2. /\ e \in Hosted /\ e.status = s /\ e.key = hosted[i].key
        /\ e.attempt = hosted[i].attempt
    BY <1>1 DEF Hosted
  <1>3. [hosted EXCEPT ![i].status = s] = [hosted EXCEPT ![i] = e]
    OBVIOUS
  <1>. HIDE DEF e
  <1>. DEFINE h == [hosted EXCEPT ![i] = e]
  <1>4. h \in Seq(Hosted) /\ Len(h) = Len(hosted)
    BY <1>2
  <1>5. h[i] = e /\ \A j \in 1 .. Len(hosted) : j # i => h[j] = hosted[j]
    OBVIOUS
  <1>. HIDE DEF h
  <1>6. \A j \in 1 .. Len(hosted) :
          /\ h[j].key = hosted[j].key /\ h[j].attempt = hosted[j].attempt
          /\ j # i => h[j].status = hosted[j].status
    BY <1>2, <1>5
  <1>. QED
    BY <1>2, <1>3, <1>4, <1>5, <1>6 DEF h

LEMMA RunRestarted ==
  ASSUME hosted \in Seq(Hosted), NEW i \in 1 .. Len(hosted)
  PROVE  LET h == [hosted EXCEPT ![i].status = "running", ![i].attempt = @ + 1]
         IN  /\ h \in Seq(Hosted) /\ Len(h) = Len(hosted)
             /\ h[i].status = "running"
             /\ \A j \in 1 .. Len(hosted) :
                  /\ h[j].key = hosted[j].key /\ hosted[j].attempt <= h[j].attempt
                  /\ j # i => h[j].status = hosted[j].status
  <1>. DEFINE a == hosted[i].attempt + 1
             e == [hosted[i] EXCEPT !.status = "running", !.attempt = a]
  <1>1. hosted[i] \in Hosted /\ \A j \in 1 .. Len(hosted) : hosted[j].attempt \in Nat
    <2>1. \A j \in 1 .. Len(hosted) : hosted[j] \in Hosted
      OBVIOUS
    <2>. QED
      BY <2>1 DEF Hosted
  <1>2. a \in Nat /\ hosted[i].attempt <= a
    BY <1>1
  <1>3. [hosted EXCEPT ![i].status = "running", ![i].attempt = @ + 1]
          = [hosted EXCEPT ![i] = e]
    OBVIOUS
  <1>. HIDE DEF a
  <1>4. /\ e \in Hosted /\ e.status = "running" /\ e.key = hosted[i].key
        /\ e.attempt = a
    BY <1>1, <1>2 DEF Hosted, Statuses
  <1>. HIDE DEF e
  <1>. DEFINE h == [hosted EXCEPT ![i] = e]
  <1>5. h \in Seq(Hosted) /\ Len(h) = Len(hosted)
    BY <1>4
  <1>6. h[i] = e /\ \A j \in 1 .. Len(hosted) : j # i => h[j] = hosted[j]
    OBVIOUS
  <1>. HIDE DEF h
  <1>7. \A j \in 1 .. Len(hosted) :
          /\ h[j].key = hosted[j].key /\ hosted[j].attempt <= h[j].attempt
          /\ j # i => h[j].status = hosted[j].status
    BY <1>1, <1>2, <1>4, <1>6
  <1>. QED
    BY <1>3, <1>4, <1>5, <1>6, <1>7 DEF h

\* The three verdicts, each with what it does.
LEMMA VerdictOf ==
  ASSUME EvaluateRuns
  PROVE  /\ pc = "evaluate"
         /\ UNCHANGED <<hub, outside, tree, faults, ghosts>>
         /\ page' = 1 /\ got' = <<>>
         /\ \/ Evaluate(got) = "passed" /\ pc' = "release" /\ UNCHANGED <<left, outcome>>
            \/ Evaluate(got) = "waiting" /\ pc' = "waiting" /\ UNCHANGED <<left, outcome>>
            \/ /\ Evaluate(got) = "failed" /\ pc' = "idle" /\ outcome' = "failed"
               /\ left' = {}
  <1>1. Evaluate(got) \in {"passed", "waiting", "failed"}
    BY DEF Evaluate
  <1>2. CASE Evaluate(got) = "passed"
    BY <1>2 DEF EvaluateRuns
  <1>3. CASE Evaluate(got) = "waiting"
    BY <1>3 DEF EvaluateRuns
  <1>4. CASE Evaluate(got) = "failed"
    BY <1>4 DEF EvaluateRuns, Ends
  <1>. QED
    BY <1>1, <1>2, <1>3, <1>4

-----------------------------------------------------------------------------
(* Type correctness.                                                        *)

LEMMA TypeInit == Init => TypeOK
  <1>. SUFFICES ASSUME Init PROVE TypeOK
    OBVIOUS
  <1>1. PageLimit \in Nat \ {0} /\ MaxFaults \in Nat
    BY ConstantsAssumption
  <1>2. Len(hosted) = 0 /\ hosted \in Seq(Hosted) /\ got \in Seq(Run)
    BY DEF Init
  <1>. QED
    <2>1. /\ hosted \in Seq([key : Keys, attempt : Nat, status : Statuses])
          /\ Len(hosted) = 0 /\ got \in Seq(Run)
      BY <1>2 DEF Hosted
    <2>2. faults \in 0 .. MaxFaults /\ page \in 1 .. PageLimit
      BY <1>1 DEF Init
    <2>3. latest \in [Keys -> 0 .. Len(hosted)]
      BY <2>1 DEF Init
    <2>. QED
      BY <2>1, <2>2, <2>3 DEF Init, TypeOK

LEMMA TypeStep == TypeOK /\ [Next]_vars => TypeOK'
  <1>. SUFFICES ASSUME TypeOK, [Next]_vars PROVE TypeOK'
    OBVIOUS
  <1>0. /\ PageLimit \in Nat \ {0} /\ MaxFaults \in Nat /\ 1 \in 1 .. PageLimit
        /\ <<>> \in Seq(Run)
    BY ConstantsAssumption
  <1>. USE DEF TypeOK, hub, outside, verifier, ghosts
  <1>1. CASE Begin
    BY <1>1 DEF Begin
  <1>2. CASE CheckTag
    BY <1>0, <1>2 DEF CheckTag, Ends
  <1>3. CASE ReadPage
    <2>. DEFINE runs == RunsOfPage(page)
    <2>1. runs \in Seq(Run) /\ got \o runs \in Seq(Run) /\ page \in Nat \ {0}
      <3>1. page \in Nat \ {0}
        BY <1>0
      <3>2. runs \in Seq(Run)
        BY <3>1, PageRuns
      <3>. HIDE DEF runs
      <3>. QED
        BY <3>1, <3>2
    <2>2. /\ pc' \in {"page", "evaluate", "idle"} /\ page' \in 1 .. PageLimit
          /\ got' \in Seq(Run) /\ left' \subseteq Destinations
          /\ outcome' \in {"none", "ok", "failed", "error", "stranded"}
      <3>1. CASE LastPage(runs)
        BY <1>3, <2>1, <3>1 DEF ReadPage
      <3>2. CASE ~ LastPage(runs) /\ page >= PageLimit
        BY <1>0, <1>3, <3>2 DEF ReadPage, Ends
      <3>3. CASE ~ LastPage(runs) /\ ~ page >= PageLimit
        <4>1. page' = page + 1 /\ page + 1 \in 1 .. PageLimit
          BY <1>0, <1>3, <3>3 DEF ReadPage
        <4>. QED
          BY <1>3, <2>1, <3>3, <4>1 DEF ReadPage
      <3>. QED
        BY <3>1, <3>2, <3>3
    <2>3. pc = "page" /\ tree = "none"
      BY <1>3 DEF ReadPage
    <2>4. /\ latest' \in [Keys -> 0 .. Len(hosted)]
          /\ good' \subseteq 1 .. Len(hosted) /\ bad' \subseteq 1 .. Len(hosted)
          /\ shifted' \in BOOLEAN
      <3>1. CASE page = 1
        <4>1. /\ latest' = [k \in Keys |-> LatestOf(k)] /\ shifted' = FALSE
              /\ good' = Ids("success") /\ bad' = Ids("failure")
          BY <1>3, <3>1 DEF ReadPage
        <4>2. \A k \in Keys : LatestOf(k) \in 0 .. Len(hosted)
          <5>1. Listed \subseteq 0 .. Len(hosted) /\ 0 \in 0 .. Len(hosted)
            BY DEF Listed
          <5>. QED
            BY <5>1, LatestOfIsListed
        <4>3. Ids("success") \subseteq 1 .. Len(hosted)
              /\ Ids("failure") \subseteq 1 .. Len(hosted)
          BY DEF Ids, Listed
        <4>. QED
          BY <4>1, <4>2, <4>3
      <3>2. CASE page # 1
        BY <1>3, <3>2 DEF ReadPage
      <3>. QED
        BY <3>1, <3>2
    <2>5. UNCHANGED <<hub, outside, tree, faults>>
      BY <1>3 DEF ReadPage
    <2>. QED
      BY <2>2, <2>3, <2>4, <2>5
  <1>4. CASE EvaluateRuns
    BY <1>0, <1>4, VerdictOf
  <1>5. CASE PollAgain
    BY <1>5 DEF PollAgain
  <1>6. CASE CheckRelease
    BY <1>0, <1>6 DEF CheckRelease, Ends
  <1>7. CASE CheckAssets
    BY <1>0, <1>7 DEF CheckAssets, Ends
  <1>8. CASE MakeTree
    BY <1>8 DEF MakeTree
  <1>9. CASE RunCommand
    BY <1>0, <1>9 DEF RunCommand, Fault
  <1>10. CASE CleanUp
    <2>1. faults' \in 0 .. MaxFaults /\ UNCHANGED <<hub, outside, ghosts>>
      BY <1>0, <1>10 DEF CleanUp, Strand, Fault
    <2>2. /\ pc' = "idle" /\ page' = 1 /\ got' = <<>> /\ left' = {}
          /\ \/ tree' = "none" /\ outcome' = outcome
             \/ tree' \in {tree, "bare"} /\ outcome' = "stranded"
      BY <1>10 DEF CleanUp, Strand, Ends
    <2>. QED
      BY <1>0, <2>1, <2>2
  <1>11. CASE Expire
    <2>1. faults' \in 0 .. MaxFaults /\ UNCHANGED <<hub, outside, ghosts>>
      BY <1>0, <1>11 DEF Expire, Fault
    <2>2. \/ /\ pc' = "cleanup" /\ outcome' = "error"
             /\ tree' \in {"bare", "clean", "dirty"}
             /\ UNCHANGED <<page, got, left>>
          \/ /\ pc' = "idle" /\ outcome' = "error" /\ page' = 1 /\ got' = <<>>
             /\ left' = {} /\ tree' = tree /\ pc \notin {"idle", "command", "cleanup"}
      BY <1>11 DEF Expire, Ends
    <2>. QED
      BY <1>0, <2>1, <2>2
  <1>12. CASE PushTag
    BY <1>12 DEF PushTag
  <1>13. CASE CreateRun
    <2>. DEFINE run(k) == [key |-> k, attempt |-> 1, status |-> "running"]
    <2>1. PICK k \in Keys : hosted' = Append(hosted, run(k))
      BY <1>13 DEF CreateRun
    <2>2. run(k) \in [key : Keys, attempt : Nat, status : Statuses]
      BY DEF Statuses
    <2>. HIDE DEF run
    <2>3. /\ hosted' \in Seq([key : Keys, attempt : Nat, status : Statuses])
          /\ Len(hosted') = Len(hosted) + 1 /\ Len(hosted) \in Nat
      BY <2>1, <2>2
    <2>. QED
      BY <1>13, <2>3 DEF CreateRun
  <1>14. CASE FinishRun
    <2>1. PICK i \in Ids("running"), s \in {"success", "failure"} :
            /\ hosted' = [hosted EXCEPT ![i].status = s]
            /\ good' = IF s = "success" THEN good \cup {i} ELSE good
            /\ bad'  = IF s = "failure" THEN bad \cup {i} ELSE bad
      BY <1>14 DEF FinishRun
    <2>2. i \in 1 .. Len(hosted) /\ s \in Statuses
      BY DEF Ids, Listed, Statuses
    <2>3. /\ hosted' \in Seq([key : Keys, attempt : Nat, status : Statuses])
          /\ Len(hosted') = Len(hosted)
      BY <2>1, <2>2, StatusSet DEF Hosted
    <2>4. good' \subseteq 1 .. Len(hosted') /\ bad' \subseteq 1 .. Len(hosted')
      BY <2>1, <2>2, <2>3
    <2>5. UNCHANGED <<deleted, outside, verifier, faults, latest, shifted>>
      BY <1>14 DEF FinishRun
    <2>. HIDE DEF hub, ghosts
    <2>. QED
      BY <2>3, <2>4, <2>5
  <1>15. CASE Rerun
    <2>1. PICK i \in Ids("success") \cup Ids("failure") :
            hosted' = [hosted EXCEPT ![i].status = "running", ![i].attempt = @ + 1]
      BY <1>15 DEF Rerun
    <2>2. i \in 1 .. Len(hosted) /\ "running" \in Statuses
      BY DEF Ids, Listed, Statuses
    <2>3. /\ hosted' \in Seq([key : Keys, attempt : Nat, status : Statuses])
          /\ Len(hosted') = Len(hosted)
      BY <2>1, <2>2, RunRestarted DEF Hosted
    <2>. QED
      BY <1>15, <2>3 DEF Rerun
  <1>16. CASE DeleteRun
    BY <1>16 DEF DeleteRun, Listed
  <1>17. CASE Draft
    BY <1>17 DEF Draft
  <1>18. CASE Publish
    BY <1>18 DEF Publish
  <1>19. CASE Upload
    BY <1>19 DEF Upload
  <1>20. CASE Distribute
    BY <1>20 DEF Distribute
  <1>21. CASE UNCHANGED vars
    BY <1>21 DEF vars
  <1>. QED
    BY <1>1, <1>2, <1>3, <1>4, <1>5, <1>6, <1>7, <1>8, <1>9, <1>10, <1>11, <1>12,
       <1>13, <1>14, <1>15, <1>16, <1>17, <1>18, <1>19, <1>20, <1>21
    DEF Next, Verifier, World

\* Every variable stays in its type; in particular a worktree that outlives the
\* verification it was made for is one whose removal failed, and the verification
\* ends with that error, never as a success (git.go:29-40).
THEOREM TypeCorrectness == Spec => []TypeOK
  BY TypeInit, TypeStep, PTL DEF Spec


-----------------------------------------------------------------------------
(* What every step leaves of the runs and of what is remembered of them.    *)

\* A run keeps its key, and its attempts only grow.
LEMMA RunsKept ==
  ASSUME TypeOK, [Next]_vars
  PROVE  /\ Len(hosted) \in Nat /\ Len(hosted') \in Nat
         /\ Len(hosted) <= Len(hosted')
         /\ \A i \in 1 .. Len(hosted) :
              /\ hosted'[i].key = hosted[i].key
              /\ hosted[i].attempt \in Nat /\ hosted'[i].attempt \in Nat
              /\ hosted[i].attempt <= hosted'[i].attempt
  <1>0. TypeOK'
    BY TypeStep
  <1>1. hosted \in Seq(Hosted) /\ hosted' \in Seq(Hosted)
    BY <1>0 DEF TypeOK, Hosted, Statuses
  <1>2. \A i \in 1 .. Len(hosted) : hosted[i] \in Hosted
    BY <1>1
  <1>3. \A i \in 1 .. Len(hosted') : hosted'[i] \in Hosted
    BY <1>1
  <1>4. /\ \A i \in 1 .. Len(hosted) : hosted[i].attempt \in Nat
        /\ \A i \in 1 .. Len(hosted') : hosted'[i].attempt \in Nat
    BY <1>2, <1>3 DEF Hosted
  <1>5. CASE CreateRun
    <2>. DEFINE run(k) == [key |-> k, attempt |-> 1, status |-> "running"]
    <2>1. PICK k \in Keys : hosted' = Append(hosted, run(k))
      BY <1>5 DEF CreateRun
    <2>. HIDE DEF run
    <2>2. /\ Len(hosted') = Len(hosted) + 1
          /\ \A i \in 1 .. Len(hosted) : hosted'[i] = hosted[i]
      BY <1>1, <2>1
    <2>. QED
      BY <1>1, <1>4, <2>2
  <1>6. CASE FinishRun
    <2>1. PICK i \in Ids("running"), s \in {"success", "failure"} :
            hosted' = [hosted EXCEPT ![i].status = s]
      BY <1>6 DEF FinishRun
    <2>2. i \in 1 .. Len(hosted) /\ s \in Statuses
      BY DEF Ids, Listed, Statuses
    <2>3. /\ Len(hosted') = Len(hosted)
          /\ \A j \in 1 .. Len(hosted) :
               hosted'[j].key = hosted[j].key /\ hosted'[j].attempt = hosted[j].attempt
      BY <1>1, <2>1, <2>2, StatusSet
    <2>. QED
      BY <1>1, <1>4, <2>3
  <1>7. CASE Rerun
    <2>1. PICK i \in Ids("success") \cup Ids("failure") :
            hosted' = [hosted EXCEPT ![i].status = "running", ![i].attempt = @ + 1]
      BY <1>7 DEF Rerun
    <2>2. i \in 1 .. Len(hosted)
      BY DEF Ids, Listed
    <2>3. /\ Len(hosted') = Len(hosted)
          /\ \A j \in 1 .. Len(hosted) :
               hosted'[j].key = hosted[j].key /\ hosted[j].attempt <= hosted'[j].attempt
      BY <1>1, <2>1, <2>2, RunRestarted
    <2>. QED
      BY <1>1, <1>4, <2>3
  <1>8. CASE hosted' = hosted
    BY <1>1, <1>4, <1>8
  <1>9. CreateRun \/ FinishRun \/ Rerun \/ hosted' = hosted
    BY DEF Next, Verifier, World, Begin, CheckTag, ReadPage, EvaluateRuns, PollAgain,
           CheckRelease, CheckAssets, MakeTree, RunCommand, CleanUp, Strand, Expire,
           PushTag,
           DeleteRun, Draft, Publish, Upload, Distribute, hub, vars
  <1>. QED
    BY <1>5, <1>6, <1>7, <1>8, <1>9

\* Only the first page of a listing renews what is remembered.
LEMMA MemoryKept ==
  ASSUME [Next]_vars, pc # "page" \/ page # 1
  PROVE  /\ latest' = latest /\ good \subseteq good' /\ bad \subseteq bad'
         /\ ~ shifted' => ~ shifted
  <1>1. CASE ReadPage
    BY <1>1 DEF ReadPage, ghosts
  <1>2. CASE FinishRun
    BY <1>2 DEF FinishRun
  <1>3. CASE DeleteRun
    BY <1>3 DEF DeleteRun
  <1>4. CASE UNCHANGED ghosts
    BY <1>4 DEF ghosts
  <1>5. ReadPage \/ FinishRun \/ DeleteRun \/ UNCHANGED ghosts
    BY DEF Next, Verifier, World, Begin, CheckTag, EvaluateRuns, PollAgain,
           CheckRelease, CheckAssets, MakeTree, RunCommand, CleanUp, Strand, Expire,
           PushTag,
           CreateRun, Rerun, Draft, Publish, Upload, Distribute, ghosts, vars
  <1>. QED
    BY <1>1, <1>2, <1>3, <1>4, <1>5

\* What is read is only added to, or forgotten.
LEMMA ReadKept ==
  ASSUME [Next]_vars, ~ ReadPage
  PROVE  got' \in {got, <<>>}
  <1>1. CASE EvaluateRuns
    BY <1>1, VerdictOf
  <1>2. CASE ~ EvaluateRuns
    BY <1>2 DEF Next, Verifier, World, Begin, CheckTag, PollAgain, CheckRelease,
       CheckAssets, MakeTree, RunCommand, CleanUp, Strand, Expire, PushTag, CreateRun,
       FinishRun, Rerun, DeleteRun, Draft, Publish, Upload, Distribute, Ends,
       verifier, vars
  <1>. QED
    BY <1>1, <1>2

LEMMA FreshInit == Init => Fresh
  BY DEF Init, Fresh

LEMMA FreshStep == TypeOK /\ Fresh /\ [Next]_vars => Fresh'
  <1>. SUFFICES ASSUME TypeOK, Fresh, [Next]_vars PROVE Fresh'
    OBVIOUS
  <1>. USE DEF Fresh, verifier
  <1>1. CASE Begin
    BY <1>1 DEF Begin
  <1>2. CASE CheckTag
    BY <1>2 DEF CheckTag, Ends
  <1>3. CASE ReadPage
    <2>1. page \in Nat \ {0} /\ pc = "page"
      BY <1>3, ConstantsAssumption DEF ReadPage, TypeOK
    <2>2. \/ pc' = "evaluate" /\ outcome' = outcome
          \/ pc' = "idle" /\ page' = 1 /\ got' = <<>>
          \/ pc' = "page" /\ page' = page + 1 /\ outcome' = outcome
      BY <1>3 DEF ReadPage, Ends
    <2>. QED
      BY <2>1, <2>2
  <1>4. CASE EvaluateRuns
    BY <1>4, VerdictOf
  <1>5. CASE PollAgain
    BY <1>5 DEF PollAgain
  <1>6. CASE CheckRelease \/ CheckAssets \/ MakeTree
    BY <1>6 DEF CheckRelease, CheckAssets, MakeTree, Ends
  <1>7. CASE RunCommand \/ CleanUp
    BY <1>7 DEF RunCommand, CleanUp, Strand, Ends
  <1>8. CASE Expire
    <2>1. \/ /\ pc' = "cleanup" /\ UNCHANGED <<page, got>>
             /\ pc \in {"tree", "command"}
          \/ pc' = "idle" /\ page' = 1 /\ got' = <<>>
      BY <1>8 DEF Expire, Ends
    <2>. QED
      BY <2>1
  <1>9. CASE World \/ UNCHANGED vars
    BY <1>9 DEF World, PushTag, CreateRun, FinishRun, Rerun, DeleteRun, Draft, Publish,
                Upload, Distribute, vars
  <1>. QED
    BY <1>1, <1>2, <1>3, <1>4, <1>5, <1>6, <1>7, <1>8, <1>9 DEF Next, Verifier

-----------------------------------------------------------------------------
(* What has been read is a truthful account.                                *)

\* The same of an entry r, once the runs have changed.
StillTruthful(r) ==
  /\ r.id \in 1 .. Len(hosted')
  /\ r.key = hosted'[r.id].key /\ r.attempt <= hosted'[r.id].attempt
  /\ r.status = "success" => r.id \in good'
  /\ r.status = "failure" => r.id \in bad'

LEMMA TruthKept ==
  ASSUME TypeOK, [Next]_vars, good \subseteq good', bad \subseteq bad'
  PROVE  \A r \in Run : Truthful(r) => StillTruthful(r)
  <1>. SUFFICES ASSUME NEW r \in Run, Truthful(r) PROVE StillTruthful(r)
    OBVIOUS
  <1>1. r.id \in 1 .. Len(hosted') /\ r.id \in 1 .. Len(hosted)
    BY RunsKept DEF Truthful
  <1>2. /\ hosted'[r.id].key = hosted[r.id].key
        /\ hosted[r.id].attempt \in Nat /\ hosted'[r.id].attempt \in Nat
        /\ hosted[r.id].attempt <= hosted'[r.id].attempt
    BY <1>1, RunsKept
  <1>3. r.attempt \in Nat
    BY DEF Run
  <1>4. r.attempt <= hosted'[r.id].attempt
    BY <1>2, <1>3 DEF Truthful
  <1>. QED
    BY <1>1, <1>2, <1>4 DEF Truthful, StillTruthful

LEMMA AccountInit == Init => Account
  <1>. SUFFICES ASSUME Init PROVE Account
    OBVIOUS
  <1>1. Len(got) = 0 /\ Len(hosted) = 0
    BY DEF Init
  <1>2. Listed = {}
    BY <1>1 DEF Listed
  <1>. QED
    BY <1>1, <1>2 DEF Init, Account, Ids

LEMMA SeenStep ==
  ASSUME TypeOK, [Next]_vars,
         Ids("success") \subseteq good, Ids("failure") \subseteq bad
  PROVE  (Ids("success") \subseteq good /\ Ids("failure") \subseteq bad)'
  <1>0. hosted \in Seq(Hosted)
    BY DEF TypeOK, Hosted
  <1>1. CASE ReadPage
    <2>1. UNCHANGED <<hosted, deleted>>
      BY <1>1 DEF ReadPage, hub
    <2>2. (Ids("success"))' = Ids("success") /\ (Ids("failure"))' = Ids("failure")
      BY <2>1 DEF Ids, Listed
    <2>. QED
      BY <1>1, <2>2 DEF ReadPage, ghosts
  <1>2. CASE CreateRun
    <2>. DEFINE run(k) == [key |-> k, attempt |-> 1, status |-> "running"]
    <2>1. PICK k \in Keys : hosted' = Append(hosted, run(k))
      BY <1>2 DEF CreateRun
    <2>2. run(k).status = "running"
      OBVIOUS
    <2>. HIDE DEF run
    <2>3. /\ Len(hosted') = Len(hosted) + 1 /\ Len(hosted) \in Nat
          /\ hosted'[Len(hosted) + 1] = run(k)
          /\ \A i \in 1 .. Len(hosted) : hosted'[i] = hosted[i]
      BY <1>0, <2>1
    <2>4. UNCHANGED <<deleted, good, bad>>
      BY <1>2 DEF CreateRun, ghosts
    <2>5. \A i \in Listed' : i \in Listed \/ i = Len(hosted) + 1
      BY <2>3, <2>4 DEF Listed
    <2>6. \A i \in Listed : i \in 1 .. Len(hosted)
      BY DEF Listed
    <2>7. \A i \in Listed' : (i \in Listed /\ hosted'[i] = hosted[i])
            \/ hosted'[i].status = "running"
      BY <2>2, <2>3, <2>5, <2>6
    <2>. QED
      BY <2>4, <2>7 DEF Ids
  <1>3. CASE FinishRun
    <2>1. PICK i \in Ids("running"), s \in {"success", "failure"} :
            /\ hosted' = [hosted EXCEPT ![i].status = s]
            /\ good' = IF s = "success" THEN good \cup {i} ELSE good
            /\ bad'  = IF s = "failure" THEN bad \cup {i} ELSE bad
      BY <1>3 DEF FinishRun
    <2>2. i \in 1 .. Len(hosted) /\ s \in Statuses
      BY DEF Ids, Listed, Statuses
    <2>3. /\ Len(hosted') = Len(hosted) /\ hosted'[i].status = s
          /\ \A j \in 1 .. Len(hosted) : j # i => hosted'[j].status = hosted[j].status
      BY <1>0, <2>1, <2>2, StatusSet
    <2>4. Listed' = Listed /\ \A j \in Listed : j \in 1 .. Len(hosted)
      BY <1>3, <2>3 DEF FinishRun, Listed
    <2>. QED
      BY <2>1, <2>3, <2>4 DEF Ids
  <1>4. CASE Rerun
    <2>1. PICK i \in Ids("success") \cup Ids("failure") :
            hosted' = [hosted EXCEPT ![i].status = "running", ![i].attempt = @ + 1]
      BY <1>4 DEF Rerun
    <2>2. i \in 1 .. Len(hosted)
      BY DEF Ids, Listed
    <2>3. /\ Len(hosted') = Len(hosted) /\ hosted'[i].status = "running"
          /\ \A j \in 1 .. Len(hosted) : j # i => hosted'[j].status = hosted[j].status
      BY <1>0, <2>1, <2>2, RunRestarted
    <2>4. Listed' = Listed /\ \A j \in Listed : j \in 1 .. Len(hosted)
      BY <1>4, <2>3 DEF Rerun, Listed
    <2>5. UNCHANGED <<good, bad>>
      BY <1>4 DEF Rerun, ghosts
    <2>. QED
      BY <2>3, <2>4, <2>5 DEF Ids
  <1>5. CASE DeleteRun
    <2>1. Listed' \subseteq Listed /\ UNCHANGED <<hosted, good, bad>>
      BY <1>5 DEF DeleteRun, Listed
    <2>. QED
      BY <2>1 DEF Ids
  <1>6. CASE UNCHANGED <<hosted, deleted, good, bad>>
    BY <1>6 DEF Ids, Listed
  <1>7. \/ ReadPage \/ CreateRun \/ FinishRun \/ Rerun \/ DeleteRun
        \/ UNCHANGED <<hosted, deleted, good, bad>>
    BY DEF Next, Verifier, World, Begin, CheckTag, EvaluateRuns, PollAgain,
           CheckRelease, CheckAssets, MakeTree, RunCommand, CleanUp, Strand, Expire,
           PushTag,
           Draft, Publish, Upload, Distribute, ghosts, hub, vars
  <1>. QED
    BY <1>1, <1>2, <1>3, <1>4, <1>5, <1>6, <1>7

LEMMA AccountStep == TypeOK /\ Fresh /\ Account /\ [Next]_vars => Account'
  <1>. SUFFICES ASSUME TypeOK, Fresh, Account, [Next]_vars PROVE Account'
    OBVIOUS
  <1>0. TypeOK' /\ (Ids("success") \subseteq good /\ Ids("failure") \subseteq bad)'
    BY TypeStep, SeenStep DEF Account
  <1>1. \A n \in 1 .. Len(got) : got[n] \in Run
    <2>1. got \in Seq(Run)
      BY DEF TypeOK
    <2>. QED
      BY <2>1
  <1>2. CASE ReadPage
    <2>. DEFINE runs == RunsOfPage(page)
    <2>1. page \in Nat \ {0} /\ pc = "page" /\ UNCHANGED <<hosted, deleted>>
      BY <1>2, ConstantsAssumption DEF ReadPage, TypeOK, hub
    <2>2. /\ runs \in Seq(Run) /\ got \in Seq(Run)
          /\ \A n \in 1 .. Len(runs) :
               /\ runs[n].id \in Listed /\ runs[n].key = hosted[runs[n].id].key
               /\ runs[n].attempt = hosted[runs[n].id].attempt
               /\ runs[n].status = hosted[runs[n].id].status
      BY <2>1, PageRuns DEF TypeOK
    <2>3. got' = got \o runs \/ got' = <<>>
      BY <1>2 DEF ReadPage, Ends
    <2>. HIDE DEF runs
    <2>4. ASSUME NEW n \in 1 .. Len(runs) PROVE StillTruthful(runs[n])
      <3>1. runs[n].id \in Listed' /\ hosted' = hosted
        BY <2>1, <2>2 DEF Listed
      <3>2. runs[n].id \in 1 .. Len(hosted)
        BY <2>2 DEF Listed
      <3>3. runs[n].attempt \in Nat
        <4>1. runs[n] \in Run
          BY <2>2
        <4>. QED
          BY <4>1 DEF Run
      <3>4. /\ runs[n].status = "success" => runs[n].id \in (Ids("success"))'
            /\ runs[n].status = "failure" => runs[n].id \in (Ids("failure"))'
        BY <2>2, <3>1 DEF Ids
      <3>. QED
        BY <1>0, <2>2, <3>1, <3>2, <3>3, <3>4 DEF StillTruthful
    <2>5. ASSUME NEW n \in 1 .. Len(got) PROVE StillTruthful(got[n])
      <3>1. page # 1
        BY <2>1, <2>5 DEF Fresh
      <3>2. good \subseteq good' /\ bad \subseteq bad'
        BY <3>1, MemoryKept
      <3>. QED
        BY <1>1, <3>2, TruthKept DEF Account
    <2>6. \A n \in 1 .. Len(got') : StillTruthful(got'[n])
      <3>1. CASE got' = <<>>
        BY <3>1
      <3>2. CASE got' = got \o runs
        <4>. SUFFICES ASSUME NEW n \in 1 .. Len(got') PROVE StillTruthful(got'[n])
          OBVIOUS
        <4>1. \/ n \in 1 .. Len(got) /\ got'[n] = got[n]
              \/ n - Len(got) \in 1 .. Len(runs) /\ got'[n] = runs[n - Len(got)]
          BY <2>2, <3>2
        <4>2. CASE n \in 1 .. Len(got) /\ got'[n] = got[n]
          <5>1. StillTruthful(got[n])
            BY <2>5, <4>2
          <5>. QED
            BY <4>2, <5>1
        <4>3. CASE n - Len(got) \in 1 .. Len(runs) /\ got'[n] = runs[n - Len(got)]
          <5>1. StillTruthful(runs[n - Len(got)])
            BY <2>4, <4>3
          <5>. QED
            BY <4>3, <5>1
        <4>. QED
          BY <4>1, <4>2, <4>3
      <3>. QED
        BY <2>3, <3>1, <3>2
    <2>7. \A k \in Keys : latest'[k] # 0 => hosted'[latest'[k]].key = k
      <3>1. CASE page = 1
        <4>1. latest' = [k \in Keys |-> LatestOf(k)]
          BY <1>2, <3>1 DEF ReadPage
        <4>. QED
          BY <2>1, <4>1, LatestOfIsListed
      <3>2. CASE page # 1
        BY <2>1, <3>2, MemoryKept DEF Account
      <3>. QED
        BY <3>1, <3>2
    <2>. QED
      BY <1>0, <2>6, <2>7 DEF Account, Truthful, StillTruthful
  <1>3. CASE ~ ReadPage
    <2>1. /\ latest' = latest /\ good \subseteq good' /\ bad \subseteq bad'
      BY <1>3, MemoryKept
      DEF Next, Verifier, World, Begin, CheckTag, EvaluateRuns, PollAgain,
          CheckRelease, CheckAssets, MakeTree, RunCommand, CleanUp, Strand, Expire,
          PushTag,
          CreateRun, FinishRun, Rerun, DeleteRun, Draft, Publish, Upload, Distribute,
          ghosts, vars
    <2>2. \A n \in 1 .. Len(got) : StillTruthful(got[n])
      BY <1>1, <2>1, TruthKept DEF Account
    <2>3. got' \in {got, <<>>}
      BY <1>3, ReadKept
    <2>4. \A n \in 1 .. Len(got') : StillTruthful(got'[n])
      <3>1. CASE got' = <<>>
        BY <3>1
      <3>2. CASE got' = got
        BY <2>2, <3>2
      <3>. QED
        BY <2>3, <3>1, <3>2
    <2>5. \A k \in Keys : latest'[k] # 0 => hosted'[latest'[k]].key = k
      <3>. SUFFICES ASSUME NEW k \in Keys, latest[k] # 0
                    PROVE  hosted'[latest[k]].key = k
        BY <2>1
      <3>1. latest[k] \in 1 .. Len(hosted)
        <4>1. latest[k] \in 0 .. Len(hosted) /\ Len(hosted) \in Nat
          BY RunsKept DEF TypeOK
        <4>. QED
          BY <4>1
      <3>. QED
        BY <3>1, RunsKept DEF Account
    <2>. QED
      BY <1>0, <2>4, <2>5 DEF Account, Truthful, StillTruthful
  <1>. QED
    BY <1>2, <1>3


-----------------------------------------------------------------------------
(* Nothing known at the start slips past the pages read.                    *)

\* A listed run stays listed, at the same position or further down the list,
\* unless one is deleted.
LEMMA PositionsGrow ==
  ASSUME TypeOK, [Next]_vars, ~ DeleteRun
  PROVE  \A i \in Listed :
           /\ i \in Listed' /\ Position(i) \in Nat /\ Position(i)' \in Nat
           /\ Position(i) > 0 /\ Position(i) <= Position(i)'
  <1>1. deleted' = deleted
    BY DEF Next, Verifier, World, Begin, CheckTag, ReadPage, EvaluateRuns, PollAgain,
           CheckRelease, CheckAssets, MakeTree, RunCommand, CleanUp, Strand, Expire,
           PushTag,
           CreateRun, FinishRun, Rerun, Draft, Publish, Upload, Distribute, hub, vars
  <1>. DEFINE N == Listed'
             above(i) == {j \in Listed : j >= i}
             next(i) == {j \in N : j >= i}
  <1>2. Listed \subseteq N
    BY <1>1, RunsKept DEF Listed
  <1>3. /\ Listed \in SUBSET Nat /\ IsFiniteSet(Listed)
        /\ N \in SUBSET Nat /\ IsFiniteSet(N)
    <2>1. IsFiniteSet(1 .. Len(hosted)) /\ IsFiniteSet(1 .. Len(hosted'))
      BY RunsKept, FS_Interval
    <2>2. Listed \in SUBSET (1 .. Len(hosted)) /\ N \in SUBSET (1 .. Len(hosted'))
      BY DEF Listed
    <2>3. IsFiniteSet(Listed) /\ IsFiniteSet(N)
      BY <2>1, <2>2, FS_Subset
    <2>. QED
      BY <2>2, <2>3, RunsKept
  <1>4. \A i : Position(i) = Cardinality(above(i)) /\ Position(i)' = Cardinality(next(i))
    BY DEF Position
  <1>. HIDE DEF N
  <1>5. ASSUME NEW i \in Listed
        PROVE  /\ Cardinality(above(i)) \in Nat /\ Cardinality(next(i)) \in Nat
               /\ Cardinality(above(i)) > 0
               /\ Cardinality(above(i)) <= Cardinality(next(i))
    <2>1. next(i) \in SUBSET N /\ above(i) \in SUBSET next(i) /\ i \in above(i)
      <3>1. next(i) \subseteq N
        OBVIOUS
      <3>2. above(i) \subseteq next(i)
        BY <1>2
      <3>3. i \in Nat
        BY <1>3
      <3>4. i \in above(i)
        BY <3>3
      <3>. QED
        BY <3>1, <3>2, <3>4
    <2>2. IsFiniteSet(next(i))
      BY <1>3, <2>1, FS_Subset
    <2>. HIDE DEF next, above
    <2>3. IsFiniteSet(above(i)) /\ Cardinality(above(i)) <= Cardinality(next(i))
      BY <2>1, <2>2, FS_Subset
    <2>4. Cardinality(above(i)) \in Nat /\ Cardinality(next(i)) \in Nat
      BY <2>2, <2>3, FS_CardinalityType
    <2>5. Cardinality(above(i)) # 0
      BY <2>1, <2>3, FS_EmptySet
    <2>. QED
      BY <2>3, <2>4, <2>5
  <1>6. \A i \in Listed : i \in N
    BY <1>2
  <1>. HIDE DEF next, above
  <1>7. \A i \in Listed :
          /\ Position(i) \in Nat /\ Position(i)' \in Nat
          /\ Position(i) > 0 /\ Position(i) <= Position(i)'
    BY <1>4, <1>5
  <1>. QED
    BY <1>6, <1>7 DEF N

LEMMA CoveredInit == Init => Covered
  BY DEF Init, Covered

LEMMA CoveredByPage ==
  ASSUME TypeOK, Fresh, Covered, ReadPage, ~ shifted',
         NEW k \in Keys, latest'[k] # 0
  PROVE  LET l == latest'[k]
         IN  /\ l \in Listed
             /\ \/ ~ LastPage(RunsOfPage(page)) /\ Position(l) > page * PageSize
                \/ \E n \in 1 .. Len(got \o RunsOfPage(page)) :
                     (got \o RunsOfPage(page))[n].id = l
  <1>. DEFINE l == latest'[k]
             runs == RunsOfPage(page)
  <1>1. page \in Nat \ {0} /\ pc = "page" /\ PageSize \in Nat
    BY ConstantsAssumption DEF ReadPage, TypeOK
  <1>2. runs \in Seq(Run) /\ got \in Seq(Run)
    BY <1>1, PageRuns DEF TypeOK
  <1>3. /\ l \in Listed
        /\ page # 1 /\ Position(l) <= (page - 1) * PageSize => Read(l)
    <2>1. CASE page = 1
      <3>1. l = LatestOf(k)
        BY <2>1 DEF ReadPage
      <3>. QED
        BY <2>1, <3>1, LatestOfIsListed
    <2>2. CASE page # 1
      <3>1. l = latest[k] /\ ~ shifted /\ page > 1
        BY <1>1, <2>2 DEF ReadPage, ghosts
      <3>. QED
        BY <1>1, <3>1 DEF Covered
    <2>. QED
      BY <2>1, <2>2
  <1>4. Position(l) \in Nat /\ Position(l) > 0
    <2>1. Listed \in SUBSET Nat /\ IsFiniteSet(Listed)
      <3>1. Len(hosted) \in Nat
        BY DEF TypeOK
      <3>2. IsFiniteSet(1 .. Len(hosted)) /\ Listed \in SUBSET (1 .. Len(hosted))
        BY <3>1, FS_Interval DEF Listed
      <3>3. IsFiniteSet(Listed)
        BY <3>2, FS_Subset
      <3>. QED
        BY <3>1, <3>2, <3>3
    <2>2. Rank(Listed, l) \in 1 .. Cardinality(Listed) /\ Cardinality(Listed) \in Nat
      <3>. DEFINE m == latest'[k]
      <3>1. m \in Listed
        BY <1>3
      <3>. HIDE DEF m
      <3>2. Rank(Listed, m) \in 1 .. Cardinality(Listed) /\ Cardinality(Listed) \in Nat
        BY <2>1, <3>1, RankType, FS_CardinalityType
      <3>. QED
        BY <3>2 DEF m
    <2>. QED
      BY <2>2 DEF Rank, Position
  <1>. HIDE DEF l, runs
  <1>5. CASE Position(l) <= (page - 1) * PageSize
    <2>1. page # 1
      BY <1>1, <1>4, <1>5
    <2>2. PICK n \in 1 .. Len(got) : got[n].id = l
      BY <1>3, <1>5, <2>1 DEF Read
    <2>3. n \in 1 .. Len(got \o runs) /\ (got \o runs)[n] = got[n]
      BY <1>2, <2>2
    <2>. QED
      BY <1>3, <2>2, <2>3 DEF l, runs
  <1>6. CASE ~ Position(l) <= (page - 1) * PageSize /\ Position(l) <= page * PageSize
    <2>0. Position(l) > (page - 1) * PageSize
      BY <1>1, <1>4, <1>6
    <2>1. \E n \in 1 .. Len(runs) : runs[n].id = l
      BY <1>1, <1>3, <1>6, <2>0, PageRuns DEF runs
    <2>2. PICK n \in 1 .. Len(runs) : runs[n].id = l
      BY <2>1
    <2>3. /\ Len(got) + n \in 1 .. Len(got \o runs)
          /\ (got \o runs)[Len(got) + n] = runs[n]
      BY <1>2, <2>2
    <2>. QED
      BY <1>3, <2>2, <2>3 DEF l, runs
  <1>7. CASE ~ Position(l) <= page * PageSize
    <2>1. ~ LastPage(runs)
      BY <1>1, <1>3, <1>7, PageRuns DEF runs
    <2>2. Position(l) > page * PageSize
      BY <1>1, <1>4, <1>7
    <2>. QED
      BY <1>3, <2>1, <2>2 DEF l, runs
  <1>. QED
    BY <1>5, <1>6, <1>7

LEMMA CoveredStep == TypeOK /\ Fresh /\ Covered /\ [Next]_vars => Covered'
  <1>. SUFFICES ASSUME TypeOK, Fresh, Covered, [Next]_vars, ~ shifted',
                       NEW k \in Keys, latest'[k] # 0
                PROVE  /\ pc' = "page" /\ page' > 1 =>
                            /\ latest'[k] \in Listed'
                            /\ Position(latest[k])' <= (page' - 1) * PageSize =>
                                 Read(latest[k])'
                       /\ pc' = "evaluate" => Read(latest[k])'
    BY DEF Covered
  <1>. DEFINE l == latest'[k]
  <1>1. page \in Nat \ {0} /\ PageSize \in Nat
    BY ConstantsAssumption DEF TypeOK
  <1>2. CASE ReadPage
    <2>. DEFINE runs == RunsOfPage(page)
    <2>1. /\ l \in Listed
          /\ \/ ~ LastPage(runs) /\ Position(l) > page * PageSize
             \/ \E n \in 1 .. Len(got \o runs) : (got \o runs)[n].id = l
      BY <1>2, CoveredByPage
    <2>2. Listed' = Listed /\ \A i : Position(i)' = Position(i)'
      BY <1>2 DEF ReadPage, hub, Listed
    <2>3. Position(latest[k])' = Position(l)
      BY <1>2 DEF ReadPage, hub, Listed, Position
    <2>. HIDE DEF runs
    <2>4. CASE pc' = "page" /\ page' > 1
      <3>1. page' = page + 1 /\ got' = got \o runs
        BY <1>1, <1>2, <2>4 DEF ReadPage, Ends, runs
      <3>2. (page' - 1) * PageSize = page * PageSize
        BY <1>1, <3>1
      <3>3. Position(l) \in Nat /\ page * PageSize \in Nat
        <4>1. ~ DeleteRun
          BY <1>1, <3>1 DEF DeleteRun, verifier
        <4>. QED
          BY <1>1, <2>1, <4>1, PositionsGrow
      <3>4. Position(l) <= page * PageSize =>
              \E n \in 1 .. Len(got') : got'[n].id = l
        BY <2>1, <3>1, <3>3
      <3>. QED
        BY <2>1, <2>2, <2>3, <2>4, <3>2, <3>4 DEF Read
    <2>5. CASE pc' = "evaluate"
      <3>1. LastPage(runs) /\ got' = got \o runs
        BY <1>2, <2>5 DEF ReadPage, Ends, runs
      <3>2. \E n \in 1 .. Len(got') : got'[n].id = l
        BY <2>1, <3>1
      <3>. QED
        BY <2>5, <3>2 DEF Read
    <2>. QED
      BY <2>4, <2>5
  <1>3. CASE ~ ReadPage /\ pc = "page" /\ pc' = "page" /\ page' > 1
    <2>1. UNCHANGED <<page, got>>
      BY <1>3 DEF Next, Verifier, World, Begin, CheckTag, EvaluateRuns, PollAgain,
         CheckRelease, CheckAssets, MakeTree, RunCommand, CleanUp, Strand, Expire,
          PushTag,
         CreateRun, FinishRun, Rerun, DeleteRun, Draft, Publish, Upload, Distribute,
         Ends, verifier, vars
    <2>2. latest' = latest /\ ~ shifted /\ page > 1
      BY <1>1, <1>3, <2>1, MemoryKept
    <2>3. ~ DeleteRun
      BY <1>3, <2>2 DEF DeleteRun
    <2>4. /\ l \in Listed
          /\ Position(l) <= (page - 1) * PageSize => Read(l)
      BY <1>3, <2>2 DEF Covered
    <2>5. /\ l \in Listed' /\ Position(l) \in Nat /\ Position(latest[k])' \in Nat
          /\ Position(l) <= Position(latest[k])'
      <3>1. \A i \in Listed :
              /\ i \in Listed' /\ Position(i) \in Nat
              /\ Cardinality({j \in Listed' : j >= i}) \in Nat
              /\ Position(i) <= Cardinality({j \in Listed' : j >= i})
        BY <2>3, PositionsGrow DEF Position
      <3>2. Position(latest[k])' = Cardinality({j \in Listed' : j >= l})
        BY DEF Position
      <3>. QED
        BY <2>4, <3>1, <3>2
    <2>6. Read(latest[k])' <=> Read(l)
      BY <2>1, <2>2 DEF Read
    <2>7. (page - 1) * PageSize \in Nat
      BY <1>1
    <2>. QED
      BY <1>3, <2>1, <2>4, <2>5, <2>6, <2>7
  <1>4. CASE ~ ReadPage /\ pc' = "evaluate"
    <2>1. pc = "evaluate" /\ got' = got
      <3>1. ~ EvaluateRuns
        BY <1>4, VerdictOf
      <3>. QED
        BY <1>4, <3>1 DEF Next, Verifier, World, Begin, CheckTag, PollAgain,
         CheckRelease, CheckAssets, MakeTree, RunCommand, CleanUp, Strand, Expire,
          PushTag,
         CreateRun, FinishRun, Rerun, DeleteRun, Draft, Publish, Upload, Distribute,
         Ends, verifier, vars
    <2>2. latest' = latest /\ ~ shifted
      BY <2>1, MemoryKept
    <2>. QED
      BY <1>4, <2>1, <2>2 DEF Covered, Read
  <1>5. CASE ~ ReadPage /\ pc # "page" /\ pc' = "page"
    <2>1. page' = 1
      BY <1>5, VerdictOf DEF Fresh, Next, Verifier, World, Begin, CheckTag, PollAgain,
         CheckRelease, CheckAssets, MakeTree, RunCommand, CleanUp, Strand, Expire,
          PushTag,
         CreateRun, FinishRun, Rerun, DeleteRun, Draft, Publish, Upload, Distribute,
         Ends, verifier, vars
    <2>. QED
      BY <1>5, <2>1
  <1>. QED
    BY <1>2, <1>3, <1>4, <1>5


-----------------------------------------------------------------------------
(* What evaluateRuns concludes from the runs read.                          *)

\* Of the entries of a key one is kept: the first of those of the latest
\* attempt of the newest run.
LEMMA NewestSelected ==
  ASSUME TypeOK, Account, NEW k, \E n \in 1 .. Len(got) : got[n].key = k
  PROVE  \E r \in Selected(got) : r.key = k
  <1>0. /\ Len(got) \in Nat /\ Len(hosted) \in Nat
        /\ \A n \in 1 .. Len(got) :
             /\ got[n].id \in 1 .. Len(hosted) /\ got[n].attempt \in Nat
             /\ got[n].attempt <= hosted[got[n].id].attempt
        /\ \A i \in 1 .. Len(hosted) : hosted[i].attempt \in Nat
    <2>1. got \in Seq(Run) /\ hosted \in Seq(Hosted)
      BY DEF TypeOK, Hosted
    <2>2. /\ \A n \in 1 .. Len(got) : got[n] \in Run
          /\ \A i \in 1 .. Len(hosted) : hosted[i] \in Hosted
      BY <2>1
    <2>. QED
      BY <2>1, <2>2 DEF Account, Truthful, Run, Hosted
  <1>. DEFINE A == {n \in 1 .. Len(got) : got[n].key = k}
             ids == {i \in 1 .. Len(hosted) : \E n \in A : got[n].id = i}
  <1>1. PICK M \in ids : \A i \in ids : i <= M
    <2>1. ids \in SUBSET Nat /\ IsFiniteSet(ids)
      <3>1. IsFiniteSet(1 .. Len(hosted)) /\ ids \in SUBSET (1 .. Len(hosted))
        BY <1>0, FS_Interval
      <3>. QED
        BY <3>1, FS_Subset
    <2>2. ids # {}
      BY <1>0
    <2>. HIDE DEF ids
    <2>. QED
      BY <2>1, <2>2, GreatestExists
  <1>. DEFINE B == {n \in A : got[n].id = M}
             top == hosted[M].attempt
             attempts == {a \in 0 .. top : \E n \in B : got[n].attempt = a}
  <1>2. PICK X \in attempts : \A a \in attempts : a <= X
    <2>1. top \in Nat
      BY <1>0
    <2>2. attempts \in SUBSET Nat /\ IsFiniteSet(attempts)
      <3>. HIDE DEF top, B
      <3>1. IsFiniteSet(0 .. top)
        BY <2>1, FS_Interval
      <3>2. attempts \in SUBSET (0 .. top)
        OBVIOUS
      <3>3. \A a \in attempts : a \in Nat
        BY <2>1, <3>2
      <3>4. IsFiniteSet(attempts)
        BY <3>1, <3>2, FS_Subset
      <3>. HIDE DEF attempts
      <3>. QED
        BY <3>3, <3>4
    <2>3. attempts # {}
      <3>1. PICK n \in A : got[n].id = M
        OBVIOUS
      <3>2. got[n].attempt \in 0 .. top
        BY <1>0, <2>1, <3>1
      <3>. QED
        BY <3>1, <3>2
    <2>. HIDE DEF attempts
    <2>. QED
      BY <2>2, <2>3, GreatestExists
  <1>. DEFINE C == {n \in B : got[n].attempt = X}
  <1>3. PICK m \in C : \A n \in C : m <= n
    <2>1. C \in SUBSET (1 .. Len(got)) /\ C # {} /\ Len(got) \in Nat
      BY <1>0
    <2>. HIDE DEF C
    <2>. QED
      BY <2>1, LeastExists
  <1>4. ASSUME NEW n \in 1 .. Len(got), got[n].key = k
        PROVE  \/ got[n].id < M
               \/ got[n].id = M /\ got[n].attempt < X
               \/ got[n].id = M /\ got[n].attempt = X /\ m <= n
    <2>1. n \in A /\ got[n].id \in ids /\ got[n].id <= M /\ M \in Nat
      BY <1>0, <1>1, <1>4
    <2>2. CASE got[n].id = M
      <3>1. n \in B /\ got[n].attempt \in attempts
        BY <1>0, <2>1, <2>2
      <3>2. got[n].attempt <= X /\ X \in Nat /\ got[n].attempt \in Nat
        BY <1>0, <1>2, <3>1
      <3>3. CASE got[n].attempt = X
        BY <1>3, <2>2, <3>1, <3>3
      <3>. QED
        BY <2>2, <3>2, <3>3
    <2>. QED
      BY <1>0, <2>1, <2>2
  <1>5. /\ m \in 1 .. Len(got) /\ got[m].key = k
        /\ got[m].id = M /\ got[m].attempt = X /\ M \in Nat /\ X \in Nat
    BY <1>0, <1>1, <1>2, <1>3
  <1>. HIDE DEF A, B, C, ids, attempts, top
  <1>6. ASSUME NEW n \in 1 .. Len(got), got[n].key = got[m].key
        PROVE  ~ Newer(got[n], got[m]) /\ (n < m => Newer(got[m], got[n]))
    <2>1. /\ got[n].id \in Nat /\ got[n].attempt \in Nat /\ n \in Nat /\ m \in Nat
      BY <1>0, <1>5
    <2>2. \/ got[n].id < M
          \/ got[n].id = M /\ got[n].attempt < X
          \/ got[n].id = M /\ got[n].attempt = X /\ m <= n
      BY <1>4, <1>5, <1>6
    <2>. QED
      BY <1>5, <2>1, <2>2 DEF Newer
  <1>7. got[m] \in Selected(got)
    BY <1>5, <1>6 DEF Selected
  <1>. QED
    BY <1>5, <1>7

\* What is kept is an entry, and no entry of its key is of a newer run.
LEMMA SelectedIsNewest ==
  ASSUME TypeOK, Account, NEW r \in Selected(got)
  PROVE  /\ \E n \in 1 .. Len(got) : r = got[n]
         /\ \A n \in 1 .. Len(got) : got[n].key = r.key => got[n].id <= r.id
  <1>1. PICK m \in 1 .. Len(got) :
          /\ r = got[m]
          /\ \A n \in 1 .. Len(got) : got[n].key = got[m].key => ~ Newer(got[n], got[m])
    BY DEF Selected
  <1>2. \A n \in 1 .. Len(got) : got[n].id \in 1 .. Len(hosted)
    BY DEF Account, Truthful
  <1>3. Len(hosted) \in Nat
    BY DEF TypeOK
  <1>4. ASSUME NEW n \in 1 .. Len(got), got[n].key = r.key PROVE got[n].id <= r.id
    <2>1. ~ got[n].id > got[m].id
      BY <1>1, <1>4 DEF Newer
    <2>. QED
      BY <1>1, <1>2, <1>3, <2>1
  <1>. QED
    BY <1>1, <1>4

\* So the kept entry of a key is current, if the newest run known was read.
LEMMA SelectedIsCurrent ==
  ASSUME TypeOK, Account, NEW r \in Selected(got),
         r.key \in Keys => latest[r.key] = 0 \/ Read(latest[r.key])
  PROVE  /\ r.key \in Keys
         /\ r.status = "success" => r.id \in Current(r.key, good)
         /\ r.status = "failure" => r.id \in Current(r.key, bad)
  <1>0. /\ got \in Seq(Run) /\ Len(hosted) \in Nat /\ hosted \in Seq(Hosted)
        /\ latest \in [Keys -> 0 .. Len(hosted)]
    BY DEF TypeOK, Hosted
  <1>1. PICK m \in 1 .. Len(got) : r = got[m]
    BY SelectedIsNewest
  <1>2. Truthful(r) /\ r \in Run
    BY <1>0, <1>1 DEF Account
  <1>3. r.key \in Keys /\ r.id \in 1 .. Len(hosted) /\ hosted[r.id].key = r.key
    BY <1>2 DEF Run, Truthful
  <1>4. r.id >= latest[r.key]
    <2>1. CASE latest[r.key] = 0
      BY <1>0, <1>3, <2>1
    <2>2. CASE latest[r.key] # 0
      <3>1. PICK n \in 1 .. Len(got) : got[n].id = latest[r.key]
        BY <1>3, <2>2 DEF Read
      <3>2. got[n].key = r.key
        <4>1. hosted[latest[r.key]].key = r.key
          BY <1>3, <2>2 DEF Account
        <4>2. got[n].key = hosted[got[n].id].key
          BY DEF Account, Truthful
        <4>. QED
          BY <3>1, <4>1, <4>2
      <3>3. got[n].id <= r.id
        BY <3>2, SelectedIsNewest
      <3>. QED
        BY <1>0, <1>3, <3>1, <3>3
    <2>. QED
      BY <2>1, <2>2
  <1>. QED
    BY <1>2, <1>3, <1>4 DEF Truthful, Current

LEMMA PassIsEarned ==
  ASSUME TypeOK, Account, Covered, pc = "evaluate", Evaluate(got) = "passed"
  PROVE  Accepted
  <1>. SUFFICES ASSUME NEW k \in Keys, latest[k] # 0 \/ k \in Required, ~ shifted
                PROVE  Current(k, good) # {}
    BY DEF Accepted
  <1>1. /\ \A r \in Selected(got) : r.status # "failure" /\ r.status # "running"
        /\ Required \subseteq {r.key : r \in Selected(got)}
    BY DEF Evaluate
  <1>2. PICK r \in Selected(got) : r.key = k
    <2>1. CASE latest[k] # 0
      <3>1. PICK n \in 1 .. Len(got) : got[n].id = latest[k]
        BY <2>1 DEF Covered, Read
      <3>2. got[n].key = k
        BY <2>1, <3>1 DEF Account, Truthful
      <3>. QED
        BY <3>2, NewestSelected
    <2>2. CASE k \in Required
      BY <1>1, <2>2
    <2>. QED
      BY <2>1, <2>2
  <1>3. r.status = "success"
    <2>1. PICK n \in 1 .. Len(got) : r = got[n]
      BY SelectedIsNewest
    <2>2. got[n] \in Run
      BY DEF TypeOK
    <2>. QED
      BY <1>1, <2>1, <2>2 DEF Run, Statuses
  <1>4. r.key \in Keys => latest[r.key] = 0 \/ Read(latest[r.key])
    BY <1>2 DEF Covered
  <1>. QED
    BY <1>2, <1>3, <1>4, SelectedIsCurrent

LEMMA FailureIsReal ==
  ASSUME TypeOK, Account, Covered, pc = "evaluate", Evaluate(got) = "failed", ~ shifted
  PROVE  \E k \in Keys : Current(k, bad) # {}
  <1>1. PICK r \in Selected(got) : r.status = "failure"
    BY DEF Evaluate
  <1>2. r.key \in Keys => latest[r.key] = 0 \/ Read(latest[r.key])
    BY DEF Covered
  <1>. QED
    BY <1>1, <1>2, SelectedIsCurrent


-----------------------------------------------------------------------------
(* What is established stays established.                                   *)

LEMMA AcceptedKept ==
  ASSUME TypeOK, [Next]_vars, pc # "page", Accepted
  PROVE  Accepted'
  <1>1. /\ latest' = latest /\ good \subseteq good'
        /\ ~ shifted' => ~ shifted
    BY MemoryKept
  <1>2. good \subseteq 1 .. Len(hosted)
    BY DEF TypeOK
  <1>3. \A k : Current(k, good) \subseteq {i \in good' : hosted'[i].key = k /\ i >= latest'[k]}
    BY <1>1, <1>2, RunsKept DEF Current
  <1>4. Accepted <=> \A k \in Keys : latest[k] # 0 \/ k \in Required =>
                       shifted \/ {i \in good : hosted[i].key = k /\ i >= latest[k]} # {}
    BY DEF Accepted, Current
  <1>5. \A k \in Keys : latest'[k] # 0 \/ k \in Required =>
          shifted' \/ {i \in good' : hosted'[i].key = k /\ i >= latest'[k]} # {}
    BY <1>1, <1>3 DEF Accepted
  <1>. QED
    BY <1>5 DEF Accepted, Current

\* The world only adds to what is public.
LEMMA PublicKept ==
  ASSUME TypeOK, [Next]_vars
  PROVE  /\ tagged => tagged'
         /\ release = "published" => release' = "published"
         /\ uploaded \subseteq uploaded' /\ public \subseteq public'
  <1>1. CASE UNCHANGED outside
    BY <1>1 DEF outside
  <1>2. CASE PushTag \/ Draft \/ Publish \/ Upload \/ Distribute
    BY <1>2 DEF PushTag, Draft, Publish, Upload, Distribute
  <1>3. PushTag \/ Draft \/ Publish \/ Upload \/ Distribute \/ UNCHANGED outside
    BY VerdictOf
    DEF Next, Verifier, World, Begin, CheckTag, ReadPage, PollAgain, CheckRelease,
        CheckAssets, MakeTree, RunCommand, CleanUp, Strand, Expire, CreateRun,
        FinishRun,
        Rerun, DeleteRun, outside, vars
  <1>. QED
    BY <1>1, <1>2, <1>3

LEMMA EstablishedInit == Init => Established /\ RefusalIsReal
  BY DEF Init, Established, RefusalIsReal

LEMMA EstablishedStep ==
  TypeOK /\ Fresh /\ Account /\ Covered /\ Established /\ [Next]_vars => Established'
  <1>. SUFFICES ASSUME TypeOK, Fresh, Account, Covered, Established, [Next]_vars
                PROVE  Established'
    OBVIOUS
  <1>0. /\ tagged => tagged'
        /\ release = "published" => release' = "published"
        /\ uploaded \subseteq uploaded' /\ public \subseteq public'
        /\ public' \subseteq Destinations
    BY TypeStep, PublicKept DEF TypeOK
  <1>1. pc # "page" /\ Accepted => Accepted'
    BY AcceptedKept
  <1>2. /\ pc = "page" => outcome = "none"
        /\ Assets \subseteq uploaded => Assets \subseteq uploaded'
        /\ public = Destinations => public' = Destinations
    BY <1>0 DEF Fresh
  <1>. USE DEF Established
  <1>3. CASE Begin
    BY <1>0, <1>3 DEF Begin
  <1>4. CASE CheckTag
    BY <1>0, <1>4 DEF CheckTag, Ends
  <1>5. CASE ReadPage
    <2>1. pc = "page" /\ pc' \in {"page", "evaluate", "idle"} /\ outcome' \in {"none", "error"}
      BY <1>2, <1>5 DEF ReadPage, Ends
    <2>. QED
      BY <1>0, <2>1
  <1>6. CASE EvaluateRuns
    <2>1. pc = "evaluate" /\ outcome = "none"
      BY <1>6, VerdictOf DEF Fresh, TypeOK
    <2>2. CASE Evaluate(got) = "passed"
      <3>1. pc' = "release" /\ outcome' = outcome
        BY <1>6, <2>2, VerdictOf
      <3>2. Accepted'
        BY <1>1, <2>1, <2>2, PassIsEarned
      <3>. QED
        BY <1>0, <2>1, <3>1, <3>2
    <2>3. CASE Evaluate(got) # "passed"
      <3>1. \/ pc' = "waiting" /\ outcome' = outcome
            \/ pc' = "idle" /\ outcome' = "failed"
        BY <1>6, <2>3, VerdictOf
      <3>. QED
        BY <1>0, <2>1, <3>1
    <2>. QED
      BY <2>2, <2>3
  <1>7. CASE PollAgain
    BY <1>0, <1>7 DEF PollAgain, Fresh
  <1>8. CASE CheckRelease
    BY <1>0, <1>1, <1>8 DEF CheckRelease, Ends, Fresh
  <1>9. CASE CheckAssets
    BY <1>0, <1>1, <1>2, <1>9 DEF CheckAssets, Ends, Fresh, AssetsComplete
  <1>10. CASE MakeTree
    BY <1>0, <1>1, <1>2, <1>10 DEF MakeTree, Fresh
  <1>11. CASE RunCommand
    <2>1. pc = "command" /\ outcome = "none" /\ public' = public
      BY <1>11 DEF RunCommand, Fresh, outside
    <2>2. CASE left = {}
      <3>1. pc' = "cleanup" /\ outcome' = "ok"
        BY <1>11, <2>2 DEF RunCommand
      <3>2. public' = Destinations
        BY <1>0, <2>1, <2>2
      <3>. QED
        BY <1>0, <1>1, <1>2, <2>1, <3>1, <3>2
    <2>3. CASE left # {}
      <3>1. PICK d \in left :
              \/ d \in public /\ left' = left \ {d} /\ UNCHANGED <<pc, outcome>>
              \/ pc' = "cleanup" /\ outcome' = "error"
        BY <1>11, <2>3 DEF RunCommand
      <3>. QED
        BY <1>0, <1>1, <1>2, <2>1, <3>1
    <2>. QED
      BY <2>2, <2>3
  <1>12. CASE CleanUp
    BY <1>0, <1>1, <1>2, <1>12 DEF CleanUp, Strand, Ends
  <1>13. CASE Expire
    <2>1. pc' \in {"cleanup", "idle"} /\ outcome' = "error"
      BY <1>13 DEF Expire, Ends
    <2>. QED
      BY <1>0, <2>1
  <1>14. CASE World \/ UNCHANGED vars
    <2>1. UNCHANGED <<pc, left, outcome>>
      BY <1>14 DEF World, PushTag, CreateRun, FinishRun, Rerun, DeleteRun, Draft,
                   Publish, Upload, Distribute, verifier, vars
    <2>. QED
      BY <1>0, <1>1, <1>2, <2>1
  <1>. QED
    BY <1>3, <1>4, <1>5, <1>6, <1>7, <1>8, <1>9, <1>10, <1>11, <1>12, <1>13, <1>14
    DEF Next, Verifier

LEMMA RefusalStep ==
  TypeOK /\ Fresh /\ Account /\ Covered /\ RefusalIsReal /\ [Next]_vars
    => RefusalIsReal'
  <1>. SUFFICES ASSUME TypeOK, Fresh, Account, Covered, RefusalIsReal, [Next]_vars,
                       outcome' = "failed", ~ shifted'
                PROVE  \E k \in Keys :
                         {i \in bad' : hosted'[i].key = k /\ i >= latest'[k]} # {}
    BY DEF RefusalIsReal, Current
  <1>1. \/ outcome = "failed"
        \/ pc = "evaluate" /\ Evaluate(got) = "failed"
    <2>1. CASE EvaluateRuns
      BY <2>1, VerdictOf
    <2>2. CASE ~ EvaluateRuns
      <3>1. outcome' \in {outcome, "none", "ok", "error", "stranded"}
        BY <2>2 DEF Next, Verifier, World, Begin, CheckTag, ReadPage, PollAgain,
           CheckRelease, CheckAssets, MakeTree, RunCommand, CleanUp, Strand, Expire,
           PushTag,
           CreateRun, FinishRun, Rerun, DeleteRun, Draft, Publish, Upload, Distribute,
           Ends, verifier, vars
      <3>. QED
        BY <3>1
    <2>. QED
      BY <2>1, <2>2
  <1>2. pc # "page"
    BY <1>1 DEF Fresh
  <1>3. latest' = latest /\ bad \subseteq bad' /\ ~ shifted
    BY <1>2, MemoryKept
  <1>4. PICK k \in Keys : Current(k, bad) # {}
    BY <1>1, <1>3, FailureIsReal DEF RefusalIsReal
  <1>5. PICK i \in bad : hosted[i].key = k /\ i >= latest[k]
    BY <1>4 DEF Current
  <1>6. i \in 1 .. Len(hosted) /\ hosted'[i].key = k
    <2>1. i \in 1 .. Len(hosted)
      BY DEF TypeOK
    <2>. QED
      BY <1>5, <2>1, RunsKept
  <1>. QED
    BY <1>3, <1>5, <1>6

-----------------------------------------------------------------------------
(* The theorems.                                                            *)

LEMMA Invariance == Spec => []IInv
  <1>1. Init => IInv
    BY TypeInit, FreshInit, AccountInit, CoveredInit, EstablishedInit DEF IInv
  <1>2. IInv /\ [Next]_vars => IInv'
    BY TypeStep, FreshStep, AccountStep, CoveredStep, EstablishedStep, RefusalStep
    DEF IInv
  <1>. QED
    BY <1>1, <1>2, PTL DEF Spec

\* A verified publication is public in every part: tag, hosted release, assets,
\* destinations; and, unless a run was deleted between two pages, each workflow
\* known or required has succeeded in its newest run or a later one.
THEOREM VerifiedIsPublicAlways == Spec => []VerifiedIsPublic
  <1>1. IInv => VerifiedIsPublic
    BY DEF IInv, Established, Accepted, VerifiedIsPublic
  <1>. QED
    BY <1>1, Invariance, PTL

\* A publication is refused for its workflows only if one of them really failed
\* in its newest run, unless a run was deleted between two pages.
THEOREM RefusalIsRealAlways == Spec => []RefusalIsReal
  <1>1. IInv => RefusalIsReal
    BY DEF IInv
  <1>. QED
    BY <1>1, Invariance, PTL

=============================================================================
