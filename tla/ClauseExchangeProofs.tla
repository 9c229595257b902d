------------------------ MODULE ClauseExchangeProofs ------------------------
(***************************************************************************)
(* Proofs about ClauseExchange, for any set of threads, any set of         *)
(* workers, with and without the option -removeolder, and any bound.       *)
(***************************************************************************)
EXTENDS ClauseExchange, FiniteSetTheorems, SequenceTheorems, TLAPS

(* The inductive invariant.  HeadIsAwaited and CounterExact need each      *)
(* other: the counter of a clause of another worker is one less than the   *)
(* number of threads that wait for it, and stays at least 0 only because   *)
(* the record at the head is removed in time.                              *)
GotBehindCursor == \A t \in Threads : got[t] \subseteq 1..cur[t]
GotOnlyForeign == \A t \in Threads : \A i \in got[t] : log[i] # t

IInv ==
  /\ TypeOK
  /\ GotBehindCursor
  /\ GotOnlyForeign
  /\ CounterExact
  /\ HeadIsAwaited
  /\ NoLocalClauseLost

-----------------------------------------------------------------------------
(* A function over 1..n is a sequence of length n.                         *)
LEMMA FunctionIsSeq ==
  ASSUME NEW S, NEW n \in Nat, NEW f \in [1..n -> S]
  PROVE  f \in Seq(S) /\ Len(f) = n
<1>1. f \in Seq(S)
  BY SeqDef
<1>2. Len(f) \in Nat /\ DOMAIN f = 1..Len(f)
  BY <1>1, LenProperties
<1>3. 1..Len(f) = 1..n
  BY <1>2
<1> QED BY <1>1, <1>2, <1>3

(* Threads is finite, hence every set of threads.                          *)
LEMMA ThreadSets ==
  ASSUME NEW W \in SUBSET Threads
  PROVE  /\ IsFiniteSet(W) /\ Cardinality(W) \in Nat
         /\ W = {} <=> Cardinality(W) = 0
         /\ Cardinality(Threads) \in Nat
         /\ \A t \in W : Cardinality(W \ {t}) = Cardinality(W) - 1
<1>1. IsFiniteSet(W)
  BY ThreadsAssumption, FS_Subset
<1> QED BY <1>1, ThreadsAssumption, FS_CardinalityType, FS_EmptySet, FS_RemoveElement

(* What a push does, pointwise.                                            *)
LEMMA PushStep ==
  ASSUME TypeOK, NEW o \in Origins, Push(o)
  PROVE  \E b \in base..Len(log) :
    /\ b # base => WhenFullRemoveOlder /\ Stop(unseen, b)
    /\ log' \in Seq(Origins) /\ Len(log') = Len(log) + 1
    /\ log'[Len(log) + 1] = o
    /\ \A i \in 1..Len(log) : log'[i] = log[i]
    /\ unseen' \in Seq(Int) /\ Len(unseen') = Len(log) + 1
    /\ \A i \in 1..Len(log) : unseen'[i] = IF i <= b THEN 0 ELSE unseen[i]
    /\ unseen'[Len(log) + 1] = Cardinality(Threads) - 1
    /\ base' = b
    /\ cur' = [t \in Threads |-> IF cur[t] < b THEN b ELSE cur[t]]
    /\ got' = got
<1> DEFINE n == Len(log)
           counts == Append(unseen, DueImports)
<1>1. n \in Nat /\ DueImports \in Int
  BY ThreadSets, LenProperties DEF TypeOK, DueImports
<1>2. /\ counts \in Seq(Int) /\ Len(counts) = n + 1
      /\ counts[n + 1] = DueImports
      /\ \A i \in 1..n : counts[i] = unseen[i]
  BY <1>1, AppendProperties DEF TypeOK
<1>3. PICK b \in base..n :
        /\ b # base => WhenFullRemoveOlder /\ Stop(unseen, b)
        /\ RemoveUpTo(counts, cur, b)
  BY DEF Push
<1>4. unseen' = [i \in 1..(n + 1) |-> IF i <= b THEN 0 ELSE counts[i]]
  BY <1>2, <1>3 DEF RemoveUpTo
<1>5. unseen' \in Seq(Int) /\ Len(unseen') = n + 1
  <2>1. unseen' \in [1..(n + 1) -> Int]
    BY <1>1, <1>2, <1>4, ElementOfSeq
  <2> QED BY <1>1, <2>1, FunctionIsSeq
<1>6. /\ log' \in Seq(Origins) /\ Len(log') = n + 1
      /\ log'[n + 1] = o
      /\ \A i \in 1..n : log'[i] = log[i]
  BY AppendProperties DEF TypeOK, Push
<1>7. /\ \A i \in 1..n : unseen'[i] = IF i <= b THEN 0 ELSE unseen[i]
      /\ unseen'[n + 1] = DueImports
  BY <1>1, <1>2, <1>4, b \in base..n DEF TypeOK
<1>8. base' = b /\ cur' = [t \in Threads |-> IF cur[t] < b THEN b ELSE cur[t]]
  BY <1>3 DEF RemoveUpTo
<1> QED BY <1>3, <1>5, <1>6, <1>7, <1>8 DEF Push, DueImports

(* A push preserves the invariant.                                         *)
LEMMA PushInv ==
  ASSUME IInv, NEW o \in Origins, Push(o)
  PROVE  IInv'
<1> DEFINE n == Len(log)
<1>1. TypeOK /\ n \in Nat
  BY LenProperties DEF IInv, TypeOK
<1>2. PICK b \in base..n :
    /\ b # base => WhenFullRemoveOlder /\ Stop(unseen, b)
    /\ log' \in Seq(Origins) /\ Len(log') = n + 1
    /\ log'[n + 1] = o
    /\ \A i \in 1..n : log'[i] = log[i]
    /\ unseen' \in Seq(Int) /\ Len(unseen') = n + 1
    /\ \A i \in 1..n : unseen'[i] = IF i <= b THEN 0 ELSE unseen[i]
    /\ unseen'[n + 1] = Cardinality(Threads) - 1
    /\ base' = b
    /\ cur' = [t \in Threads |-> IF cur[t] < b THEN b ELSE cur[t]]
    /\ got' = got
  BY <1>1, PushStep
<1>3. \A t \in Threads : cur[t] \in base..n /\ cur'[t] \in b..n /\ cur[t] <= cur'[t]
  BY <1>1, <1>2 DEF TypeOK
<1>4. TypeOK'
  <2>1. cur' \in [Threads -> b..(n + 1)]
    BY <1>1, <1>2, <1>3
  <2>2. got' \in [Threads -> SUBSET (1..(n + 1))]
    BY <1>1, <1>2 DEF TypeOK
  <2> QED BY <1>1, <1>2, <2>1, <2>2 DEF TypeOK
<1>5. GotBehindCursor'
  BY <1>1, <1>2, <1>3 DEF GotBehindCursor, IInv, TypeOK
<1>6. GotOnlyForeign'
  BY <1>1, <1>2 DEF GotOnlyForeign, IInv, TypeOK
<1>7. CounterExact'
  <2>1. SUFFICES ASSUME NEW i \in (b + 1)..(n + 1)
                 PROVE  unseen'[i] = Cardinality(Waiting(i)')
                                       - (IF Local(i)' THEN 0 ELSE 1)
    BY <1>2 DEF CounterExact
  <2>2. CASE i = n + 1
    <3>1. Waiting(i)' = Threads \ {o}
      BY <1>1, <1>2, <1>3, <2>2 DEF Waiting
    <3>2. CASE o \in Threads
      BY <1>2, <2>2, <3>1, <3>2, ThreadSets DEF Local
    <3>3. CASE o \notin Threads
      <4>1. Waiting(i)' = Threads
        BY <3>1, <3>3
      <4> QED BY <1>2, <2>2, <3>3, <4>1 DEF Local
    <3> QED BY <3>2, <3>3
  <2>3. CASE i # n + 1
    <3>1. i \in (base + 1)..n /\ i \in 1..n /\ i > b
      BY <1>1, <2>3 DEF TypeOK
    <3>2. Waiting(i)' = Waiting(i)
      BY <1>1, <1>2, <1>3, <3>1 DEF Waiting, TypeOK
    <3>3. unseen'[i] = unseen[i] /\ Local(i)' = Local(i)
      BY <1>2, <3>1 DEF Local
    <3> QED BY <3>1, <3>2, <3>3 DEF IInv, CounterExact
  <2> QED BY <2>2, <2>3
<1>8. HeadIsAwaited'
  <2>1. Cardinality(Threads) - 1 \in Nat \ {0}
    BY ThreadsAssumption, ThreadSets
  <2>2. ASSUME NEW i \in (b + 1)..(n + 1) PROVE unseen'[i] >= 0
    <3>1. CASE i = n + 1
      BY <1>2, <2>1, <3>1
    <3>2. CASE i # n + 1
      <4>1. i \in (base + 1)..n /\ i \in 1..n /\ ~(i <= b)
        BY <1>1, <3>2 DEF TypeOK
      <4>2. unseen'[i] = unseen[i]
        BY <1>2, <4>1
      <4> QED BY <4>1, <4>2 DEF IInv, HeadIsAwaited
    <3> QED BY <3>1, <3>2
  <2>3. Stop(unseen, b) /\ b \in 0..n
    BY <1>1, <1>2 DEF IInv, HeadIsAwaited, TypeOK
  <2>4. Stop(unseen', b)
    <3>1. CASE b = n
      BY <1>2, <2>1, <3>1 DEF Stop
    <3>2. CASE b # n
      <4>1. b + 1 \in 1..n /\ ~(b + 1 <= b) /\ b < Len(unseen)
        BY <1>1, <2>3, <3>2 DEF TypeOK
      <4>2. unseen'[b + 1] = unseen[b + 1]
        BY <1>2, <4>1
      <4> QED BY <2>3, <4>1, <4>2 DEF Stop
    <3> QED BY <3>1, <3>2
  <2> QED BY <1>2, <2>2, <2>4 DEF HeadIsAwaited
<1>9. NoLocalClauseLost'
  <2>1. SUFFICES ASSUME ~WhenFullRemoveOlder,
                        NEW t \in Threads, NEW i \in 1..cur'[t],
                        Local(i)', log'[i] # t
                 PROVE  i \in got'[t]
    BY DEF NoLocalClauseLost
  <2>2. b = base /\ cur' = cur
    BY <1>1, <1>2, <1>3, <2>1 DEF TypeOK
  <2>3. i \in 1..cur[t] /\ i \in 1..n
    BY <1>1, <1>3, <2>2 DEF TypeOK
  <2> QED BY <1>2, <2>1, <2>3 DEF IInv, NoLocalClauseLost, Local
<1> QED BY <1>4, <1>5, <1>6, <1>7, <1>8, <1>9 DEF IInv

(* Passing over one's own clauses preserves the invariant.                 *)
LEMMA ImportNoneInv ==
  ASSUME IInv, NEW t \in Threads, ImportNone(t)
  PROVE  IInv'
<1> DEFINE n == Len(log)
<1>1. /\ TypeOK /\ n \in Nat /\ base \in 0..n
      /\ cur' = [cur EXCEPT ![t] = n]
      /\ log' = log /\ unseen' = unseen /\ base' = base /\ got' = got
      /\ \A i \in (cur[t] + 1)..n : log[i] = t
  BY LenProperties DEF IInv, TypeOK, ImportNone, Foreign
<1>2. \A u \in Threads : /\ cur[u] \in base..n
                         /\ cur'[u] \in base..n
                         /\ cur'[u] = IF u = t THEN n ELSE cur[u]
  BY <1>1 DEF TypeOK
<1>3. TypeOK'
  BY <1>1, <1>2 DEF TypeOK
<1>4. GotBehindCursor' /\ GotOnlyForeign'
  BY <1>1, <1>2 DEF GotBehindCursor, GotOnlyForeign, IInv, TypeOK
<1>5. CounterExact'
  <2>1. SUFFICES ASSUME NEW i \in (base + 1)..n PROVE Waiting(i)' = Waiting(i)
    BY <1>1 DEF CounterExact, IInv, Local
  <2> QED BY <1>1, <1>2 DEF Waiting
<1>6. HeadIsAwaited'
  BY <1>1 DEF HeadIsAwaited, IInv, Stop
<1>7. NoLocalClauseLost'
  BY <1>1, <1>2 DEF NoLocalClauseLost, IInv, Local
<1> QED BY <1>3, <1>4, <1>5, <1>6, <1>7 DEF IInv

-----------------------------------------------------------------------------
(* The threads still to pass record k when the cursors are c.              *)
Behind(c, k) == {u \in Threads : u # log[k] /\ c[u] < k}

CursorsAfterRead(t, i) == [cur EXCEPT ![t] = i]
CountsAfterRead(i) == [unseen EXCEPT ![i] = @ - 1]

(* The first foreign clause of t is live, and what t passes is its own.    *)
LEMMA FirstForeign ==
  ASSUME TypeOK, NEW t \in Threads, NEW i \in Foreign(t),
         \A j \in Foreign(t) : i <= j
  PROVE  /\ Len(log) \in Nat /\ base \in 0..Len(log)
         /\ i \in (base + 1)..Len(log) /\ i \in 1..Len(log)
         /\ cur[t] \in base..(i - 1)
         /\ log[i] # t
         /\ \A j \in (cur[t] + 1)..(i - 1) : log[j] = t
<1>1. /\ Len(log) \in Nat /\ base \in 0..Len(log)
      /\ cur[t] \in base..Len(log) /\ cur[t] \in Int
      /\ i \in (cur[t] + 1)..Len(log) /\ log[i] # t
  BY LenProperties DEF TypeOK, Foreign
<1>2. ASSUME NEW j \in (cur[t] + 1)..(i - 1) PROVE log[j] = t
  BY <1>1, j \in (cur[t] + 1)..Len(log), ~(i <= j) DEF Foreign
<1> QED BY <1>1, <1>2

(* After t has read its first foreign clause i, and before anything is     *)
(* removed, the counters are exact again and none is negative.             *)
LEMMA CountsExactAfterRead ==
  ASSUME IInv, NEW t \in Threads, NEW i \in Foreign(t),
         \A j \in Foreign(t) : i <= j,
         NEW k \in (base + 1)..Len(log)
  PROVE  /\ CountsAfterRead(i)[k] =
              Cardinality(Behind(CursorsAfterRead(t, i), k))
                - (IF Local(k) THEN 0 ELSE 1)
         /\ CountsAfterRead(i)[k] >= 0
<1> DEFINE n == Len(log)
           c == CursorsAfterRead(t, i)
<1>1. TypeOK
  BY DEF IInv
<1>2. /\ n \in Nat /\ base \in 0..n
      /\ i \in (base + 1)..n /\ i \in 1..n
      /\ cur[t] \in base..(i - 1)
      /\ log[i] # t
      /\ \A j \in (cur[t] + 1)..(i - 1) : log[j] = t
  BY <1>1, FirstForeign
<1>3. /\ unseen \in [1..n -> Int] /\ cur \in [Threads -> base..n]
      /\ k \in 1..n
  BY <1>1, <1>2, LenProperties DEF TypeOK
<1>4. \A u \in Threads : c[u] = IF u = t THEN i ELSE cur[u]
  BY <1>3 DEF CursorsAfterRead
<1>5. CountsAfterRead(i)[k] = IF k = i THEN unseen[i] - 1 ELSE unseen[k]
  BY <1>2, <1>3 DEF CountsAfterRead
<1>6. unseen[k] = Cardinality(Waiting(k)) - (IF Local(k) THEN 0 ELSE 1) /\ unseen[k] >= 0
  BY DEF IInv, CounterExact, HeadIsAwaited
<1>7. CASE k # i
  <2>1. t # log[k] => (i < k <=> cur[t] < k)
    <3>1. n \in Nat /\ base \in Nat /\ i \in Nat /\ k \in Nat /\ cur[t] \in Nat /\ cur[t] < i
      BY <1>2, <1>3
    <3>2. ASSUME t # log[k], cur[t] < k PROVE i < k
      BY <1>2, <1>7, <3>1, <3>2, ~(k \in (cur[t] + 1)..(i - 1))
    <3> QED BY <3>1, <3>2
  <2>2. \A u \in Threads : u # log[k] => (c[u] < k <=> cur[u] < k)
    <3> HIDE DEF c
    <3> QED BY <1>4, <2>1
  <2>3. Behind(c, k) = Waiting(k)
    <3> HIDE DEF c
    <3> QED BY <2>2 DEF Behind, Waiting
  <2> QED BY <1>5, <1>6, <1>7, <2>3
<1>8. CASE k = i
  <2>1. t \in Waiting(i) /\ Waiting(i) \in SUBSET Threads
    BY <1>2, <1>3 DEF Waiting
  <2>2. Behind(c, i) = Waiting(i) \ {t}
    BY <1>2, <1>3, <1>4 DEF Behind, Waiting
  <2>3. /\ Cardinality(Behind(c, i)) = Cardinality(Waiting(i)) - 1
        /\ Cardinality(Behind(c, i)) \in Nat /\ Cardinality(Waiting(i)) \in Nat
    BY <2>1, <2>2, ThreadSets, Waiting(i) \ {t} \in SUBSET Threads
  <2>4. unseen[i] - 1 >= 0
    <3>1. CASE Local(i)
      BY <1>6, <1>8, <2>3, <3>1
    <3>2. CASE ~Local(i) /\ unseen[i] = 0
      \* t is the only thread that waits for i: then nobody waits for the
      \* head, which is therefore not the head.
      <4> DEFINE h == base + 1
      <4>1. Cardinality(Waiting(i) \ {t}) = 0
        BY <1>6, <1>8, <2>2, <2>3, <3>2
      <4>2. Waiting(i) \ {t} = {}
        BY <4>1, <2>1, ThreadSets, Waiting(i) \ {t} \in SUBSET Threads
      <4>3. h \in 1..n /\ h \in (base + 1)..n /\ base < Len(unseen)
        BY <1>1, <1>2 DEF TypeOK
      <4>4. unseen[h] # 0
        BY <4>3 DEF IInv, HeadIsAwaited, Stop
      <4>5. h < i
        BY <1>2, <3>2, <4>3, <4>4
      <4>6. Waiting(h) \subseteq Waiting(i)
        BY <1>2, <1>3, <3>2, <4>5 DEF Waiting, Local
      <4>7. t \notin Waiting(h)
        BY <1>2, <1>3, <4>5 DEF Waiting
      <4>8. Waiting(h) = {}
        BY <4>2, <4>6, <4>7
      <4>9. unseen[h] = Cardinality(Waiting(h)) - (IF Local(h) THEN 0 ELSE 1) /\ unseen[h] >= 0
        BY <4>3 DEF IInv, CounterExact, HeadIsAwaited
      <4>10. Cardinality(Waiting(h)) = 0
        BY <4>8, ThreadSets
      <4> QED BY <4>4, <4>9, <4>10
    <3>3. CASE unseen[i] # 0
      BY <1>2, <1>3, <1>6, <1>8, <3>3
    <3> QED BY <3>1, <3>2, <3>3
  <2> QED BY <1>5, <1>6, <1>8, <2>3, <2>4
<1> QED BY <1>7, <1>8

(* What t's import of clause i does to the cursors and the counters:       *)
(* either nothing is removed (b = base), or records up to b are.           *)
ImportEffect(t, i, b) ==
  /\ \A j \in Foreign(t) : i <= j
  /\ b # base => b >= i /\ \A k \in (base + 1)..b : CountsAfterRead(i)[k] = 0
  /\ Stop(unseen, base) => Stop(unseen', b)
  /\ base' = b
  /\ unseen' \in Seq(Int) /\ Len(unseen') = Len(log)
  /\ \A k \in (b + 1)..Len(log) : unseen'[k] = CountsAfterRead(i)[k]
  /\ cur' = [u \in Threads |-> IF CursorsAfterRead(t, i)[u] < b THEN b
                               ELSE CursorsAfterRead(t, i)[u]]
  /\ got' = [got EXCEPT ![t] = @ \cup {i}]
  /\ log' = log

(* What an import does, pointwise, with or without removal.                *)
LEMMA ImportStep ==
  ASSUME TypeOK, NEW t \in Threads, ImportNext(t)
  PROVE  \E i \in Foreign(t), b \in base..Len(log) : ImportEffect(t, i, b)
<1> DEFINE n == Len(log)
<1>1. PICK i \in Foreign(t) :
    /\ \A j \in Foreign(t) : i <= j
    /\ got' = [got EXCEPT ![t] = @ \cup {i}]
    /\ IF base = i - 1 /\ CountsAfterRead(i)[i] = 0
       THEN \E b \in i..n :
              /\ \A k \in (i + 1)..b : CountsAfterRead(i)[k] = 0
              /\ Stop(CountsAfterRead(i), b)
              /\ RemoveUpTo(CountsAfterRead(i), CursorsAfterRead(t, i), b)
       ELSE /\ unseen' = CountsAfterRead(i)
            /\ cur' = CursorsAfterRead(t, i)
            /\ base' = base
    /\ log' = log
  BY DEF ImportNext, CountsAfterRead, CursorsAfterRead
<1>2. /\ n \in Nat /\ base \in 0..n
      /\ i \in (base + 1)..n /\ i \in 1..n /\ cur[t] \in base..(i - 1)
      /\ unseen \in [1..n -> Int] /\ cur \in [Threads -> base..n]
  BY <1>1, FirstForeign, LenProperties DEF TypeOK
<1>3. /\ CountsAfterRead(i) \in [1..n -> Int]
      /\ CountsAfterRead(i) \in Seq(Int) /\ Len(CountsAfterRead(i)) = n
      /\ CursorsAfterRead(t, i) \in [Threads -> base..n]
  <2>1. /\ CountsAfterRead(i) \in [1..n -> Int]
        /\ CursorsAfterRead(t, i) \in [Threads -> base..n]
    BY <1>2 DEF CountsAfterRead, CursorsAfterRead
  <2> QED BY <1>2, <2>1, FunctionIsSeq
<1>4. CASE base = i - 1 /\ CountsAfterRead(i)[i] = 0
  <2>1. PICK b \in i..n :
          /\ \A k \in (i + 1)..b : CountsAfterRead(i)[k] = 0
          /\ Stop(CountsAfterRead(i), b)
          /\ RemoveUpTo(CountsAfterRead(i), CursorsAfterRead(t, i), b)
    BY <1>1, <1>4
  <2>2. unseen' = [k \in 1..n |-> IF k <= b THEN 0 ELSE CountsAfterRead(i)[k]]
    BY <1>3, <2>1 DEF RemoveUpTo
  <2>3. unseen' \in Seq(Int) /\ Len(unseen') = n
    BY <1>2, <1>3, <2>2, FunctionIsSeq, unseen' \in [1..n -> Int]
  <2>4. \A k \in (b + 1)..n : unseen'[k] = CountsAfterRead(i)[k]
    BY <1>2, <2>1, <2>2
  <2>5. Stop(unseen', b)
    <3>1. n \in Nat /\ b \in Nat /\ b <= n /\ (b < n => b + 1 \in (b + 1)..n)
      BY <1>2, <2>1
    <3>2. b < n => unseen'[b + 1] = CountsAfterRead(i)[b + 1]
      BY <2>4, <3>1
    <3> QED BY <1>3, <2>1, <2>3, <3>1, <3>2 DEF Stop
  <2>6. b \in base..n /\ \A k \in (base + 1)..b : CountsAfterRead(i)[k] = 0
    BY <1>2, <1>4, <2>1
  <2>7. ImportEffect(t, i, b)
    BY <1>1, <2>1, <2>3, <2>4, <2>5, <2>6 DEF RemoveUpTo, ImportEffect
  <2> QED BY <2>6, <2>7
<1>5. CASE ~(base = i - 1 /\ CountsAfterRead(i)[i] = 0)
  <2>1. unseen' = CountsAfterRead(i) /\ cur' = CursorsAfterRead(t, i) /\ base' = base
    BY <1>1, <1>5
  <2>2. Stop(unseen, base) => Stop(unseen', base)
    <3>1. ASSUME Stop(unseen, base), base < n PROVE unseen'[base + 1] # 0
      <4>1. base + 1 \in 1..n /\ Len(unseen) = n
        BY <1>2, <3>1 DEF TypeOK
      <4>2. CASE i = base + 1
        BY <1>2, <1>5, <2>1, <4>2
      <4>3. CASE i # base + 1
        BY <1>2, <2>1, <3>1, <4>1, <4>3 DEF CountsAfterRead, Stop
      <4> QED BY <4>2, <4>3
    <3> QED BY <1>3, <2>1, <3>1 DEF Stop
  <2>3. cur' = [u \in Threads |-> IF CursorsAfterRead(t, i)[u] < base THEN base
                                  ELSE CursorsAfterRead(t, i)[u]]
    BY <1>2, <1>3, <2>1
  <2>4. (base + 1)..base = {} /\ base \in base..n
    BY <1>2
  <2>5. ImportEffect(t, i, base)
    BY <1>1, <1>3, <2>1, <2>2, <2>3 DEF ImportEffect
  <2> QED BY <2>4, <2>5
<1> QED BY <1>4, <1>5

(* An import preserves the invariant.                                      *)
LEMMA ImportNextInv ==
  ASSUME IInv, NEW t \in Threads, ImportNext(t)
  PROVE  IInv'
<1> DEFINE n == Len(log)
<1>1. TypeOK
  BY DEF IInv
<1>2. PICK i \in Foreign(t), b \in base..n :
    /\ \A j \in Foreign(t) : i <= j
    /\ b # base => b >= i /\ \A k \in (base + 1)..b : CountsAfterRead(i)[k] = 0
    /\ Stop(unseen, base) => Stop(unseen', b)
    /\ base' = b
    /\ unseen' \in Seq(Int) /\ Len(unseen') = n
    /\ \A k \in (b + 1)..n : unseen'[k] = CountsAfterRead(i)[k]
    /\ cur' = [u \in Threads |-> IF CursorsAfterRead(t, i)[u] < b THEN b
                                 ELSE CursorsAfterRead(t, i)[u]]
    /\ got' = [got EXCEPT ![t] = @ \cup {i}]
    /\ log' = log
  BY <1>1, ImportStep DEF ImportEffect
<1>3. /\ n \in Nat /\ base \in 0..n
      /\ i \in (base + 1)..n /\ i \in 1..n /\ cur[t] \in base..(i - 1)
      /\ log[i] # t
      /\ \A j \in (cur[t] + 1)..(i - 1) : log[j] = t
      /\ cur \in [Threads -> base..n] /\ b \in base..n /\ b \in 0..n
  BY <1>1, <1>2, FirstForeign DEF TypeOK
<1> DEFINE c == CursorsAfterRead(t, i)
<1>4. \A u \in Threads : /\ c[u] = IF u = t THEN i ELSE cur[u]
                         /\ c[u] \in base..n /\ cur[u] \in base..n
                         /\ cur'[u] = IF c[u] < b THEN b ELSE c[u]
                         /\ cur'[u] \in b..n
                         /\ cur[u] <= c[u] /\ c[u] <= cur'[u]
  BY <1>2, <1>3 DEF CursorsAfterRead
<1>5. \A k \in (base + 1)..n :
        /\ CountsAfterRead(i)[k] = Cardinality(Behind(c, k)) - (IF Local(k) THEN 0 ELSE 1)
        /\ CountsAfterRead(i)[k] >= 0
  BY <1>2, CountsExactAfterRead
<1>6. TypeOK'
  <2>1. cur' \in [Threads -> b..n]
    BY <1>2, <1>4
  <2>2. got' \in [Threads -> SUBSET (1..n)]
    BY <1>1, <1>2, <1>3 DEF TypeOK
  <2> QED BY <1>1, <1>2, <1>3, <2>1, <2>2 DEF TypeOK
<1>7. \A u \in Threads : got'[u] = IF u = t THEN got[t] \cup {i} ELSE got[u]
  BY <1>1, <1>2 DEF TypeOK
<1>8. GotBehindCursor' /\ GotOnlyForeign'
  <2> HIDE DEF c
  <2>1. \A u \in Threads : got[u] \subseteq 1..cur[u] /\ \A j \in got[u] : log[j] # u
    BY DEF IInv, GotBehindCursor, GotOnlyForeign
  <2>2. ASSUME NEW u \in Threads PROVE got'[u] \subseteq 1..cur'[u]
    <3>1. cur[u] \in Int /\ cur'[u] \in Int /\ cur[u] <= cur'[u]
          /\ (u = t => i <= cur'[u])
      BY <1>3, <1>4
    <3>2. i \in Int /\ 1 <= i
      BY <1>3
    <3> QED BY <1>7, <2>1, <3>1, <3>2
  <2>3. ASSUME NEW u \in Threads, NEW j \in got'[u] PROVE log'[j] # u
    BY <1>2, <1>3, <1>7, <2>1
  <2> QED BY <2>2, <2>3 DEF GotBehindCursor, GotOnlyForeign
<1>9. CounterExact'
  <2>1. SUFFICES ASSUME NEW k \in (b + 1)..n
                 PROVE  Behind(c, k) = Waiting(k)' /\ k \in (base + 1)..n
    BY <1>2, <1>5 DEF CounterExact, Local
  <2>2. n \in Nat /\ base \in Nat /\ b \in base..n /\ k \in Int /\ b < k /\ k <= n
    BY <1>3, <2>1
  <2>3. ASSUME NEW u \in Threads PROVE c[u] < k <=> cur'[u] < k
    <3> HIDE DEF c
    <3> QED BY <1>4, <2>2
  <2>4. Waiting(k)' = {u \in Threads : u # log[k] /\ cur'[u] < k}
    BY <1>2 DEF Waiting
  <2>5. Behind(c, k) = Waiting(k)'
    <3> HIDE DEF c
    <3> QED BY <2>3, <2>4 DEF Behind
  <2> QED BY <2>2, <2>5
<1>10. HeadIsAwaited'
  <2>1. Stop(unseen', b)
    BY <1>2 DEF IInv, HeadIsAwaited
  <2>2. \A k \in (b + 1)..n : unseen'[k] >= 0
    BY <1>2, <1>3, <1>5
  <2> QED BY <1>2, <2>1, <2>2 DEF HeadIsAwaited
<1>11. NoLocalClauseLost'
  <2>1. SUFFICES ASSUME ~WhenFullRemoveOlder,
                        NEW u \in Threads, NEW k \in 1..cur'[u],
                        Local(k), log[k] # u
                 PROVE  k \in got'[u]
    BY <1>2 DEF NoLocalClauseLost, Local
  <2>2. k \in 1..n
    BY <1>3, <1>4, <2>1
  <2>3. CASE k <= cur[u]
    BY <1>3, <1>4, <1>7, <2>1, <2>2, <2>3, k \in 1..cur[u] DEF IInv, NoLocalClauseLost
  <2>4. CASE cur[u] < k /\ k <= c[u]
    BY <1>3, <1>4, <1>7, <2>1, <2>2, <2>4
  <2>5. CASE c[u] < k
    \* k was removed by this step, hence nobody was waiting for it.
    <3>1. k <= b /\ k \in (base + 1)..n
      BY <1>3, <1>4, <2>2, <2>5
    <3>2. Cardinality(Behind(c, k)) = 0
      <4>1. CountsAfterRead(i)[k] = 0
        BY <1>2, <1>3, <3>1, k \in (base + 1)..b
      <4> QED BY <1>5, <2>1, <3>1, <4>1, ThreadSets, Behind(c, k) \in SUBSET Threads DEF Behind
    <3>3. u \in Behind(c, k)
      BY <2>1, <2>5 DEF Behind
    <3> QED BY <3>2, <3>3, ThreadSets, Behind(c, k) \in SUBSET Threads DEF Behind
  <2> QED BY <1>3, <1>4, <2>2, <2>3, <2>4, <2>5
<1> QED BY <1>6, <1>8, <1>9, <1>10, <1>11 DEF IInv

-----------------------------------------------------------------------------
(* The empty FIFO satisfies the invariant.                                 *)
LEMMA InitInv == Init => IInv
<1> SUFFICES ASSUME Init PROVE IInv
  OBVIOUS
<1>1. /\ log = <<>> /\ unseen = <<>> /\ base = 0
      /\ cur = [t \in Threads |-> 0] /\ got = [t \in Threads |-> {}]
      /\ Len(log) = 0 /\ Len(unseen) = 0
      /\ log \in Seq(Origins) /\ unseen \in Seq(Int)
  BY EmptySeq DEF Init
<1>2. TypeOK
  BY <1>1 DEF TypeOK
<1>3. GotBehindCursor /\ GotOnlyForeign
  BY <1>1 DEF GotBehindCursor, GotOnlyForeign
<1>4. CounterExact /\ HeadIsAwaited
  BY <1>1 DEF CounterExact, HeadIsAwaited, Stop
<1>5. NoLocalClauseLost
  BY <1>1 DEF NoLocalClauseLost
<1> QED BY <1>2, <1>3, <1>4, <1>5 DEF IInv

(* Every call of the FIFO preserves it.                                    *)
LEMMA NextInv == IInv /\ [Next]_vars => IInv'
<1> SUFFICES ASSUME IInv, [Next]_vars PROVE IInv'
  OBVIOUS
<1>1. ASSUME NEW o \in Origins, Push(o) PROVE IInv'
  BY <1>1, PushInv
<1>2. ASSUME NEW t \in Threads, ImportNone(t) PROVE IInv'
  BY <1>2, ImportNoneInv
<1>3. ASSUME NEW t \in Threads, ImportNext(t) PROVE IInv'
  BY <1>3, ImportNextInv
<1>4. CASE UNCHANGED vars
  BY <1>4 DEF vars, IInv, TypeOK, GotBehindCursor, GotOnlyForeign, CounterExact,
     HeadIsAwaited, NoLocalClauseLost, Waiting, Local, Stop
<1> QED BY <1>1, <1>2, <1>3, <1>4 DEF Next, Import

(* Hence it always holds.                                                  *)
LEMMA InvariantHolds == Spec => []IInv
<1> QED BY InitInv, NextInv, PTL DEF Spec

(* The state of the FIFO is well formed: the cursors of all threads stand  *)
(* on live records.                                                        *)
THEOREM TypeCorrect == Spec => []TypeOK
<1>1. IInv => TypeOK
  BY DEF IInv
<1> QED BY <1>1, InvariantHolds, PTL

(* The nbSeen word of every live record is the number of imports it waits  *)
(* for.                                                                    *)
THEOREM CountersAreExact == Spec => []CounterExact
<1>1. IInv => CounterExact
  BY DEF IInv
<1> QED BY <1>1, InvariantHolds, PTL

(* The unsigned counter never wraps, and no record that nobody waits for   *)
(* stays at the head of the FIFO.                                          *)
THEOREM HeadIsAlwaysAwaited == Spec => []HeadIsAwaited
<1>1. IInv => HeadIsAwaited
  BY DEF IInv
<1> QED BY <1>1, InvariantHolds, PTL

(* Without -removeolder, no thread misses a clause of a sibling thread.    *)
THEOREM LocalClausesAreNotLost == Spec => []NoLocalClauseLost
<1>1. IInv => NoLocalClauseLost
  BY DEF IInv
<1> QED BY <1>1, InvariantHolds, PTL

(* Imports follow the order of the FIFO, without repetition and without    *)
(* clauses of one's own.                                                   *)
THEOREM ImportsAreInOrder == Spec => ImportsInOrder
<1> DEFINE InOrder == \A t \in Threads : \A i \in got'[t] \ got[t] :
                        log[i] # t /\ \A j \in got[t] : j < i
<1>1. IInv /\ [Next]_vars => [InOrder]_vars
  <2> SUFFICES ASSUME IInv, Next PROVE InOrder
    OBVIOUS
  <2>1. ASSUME got' = got PROVE InOrder
    BY <2>1
  <2>2. ASSUME NEW t \in Threads, ImportNext(t) PROVE InOrder
    <3>1. PICK i \in Foreign(t), b \in base..Len(log) : ImportEffect(t, i, b)
      BY <2>2, ImportStep DEF IInv
    <3>2. /\ log[i] # t /\ cur[t] \in base..(i - 1) /\ i \in 1..Len(log)
          /\ base \in 0..Len(log)
      BY <3>1, FirstForeign DEF IInv, ImportEffect
    <3>3. \A u \in Threads : got'[u] = IF u = t THEN got[t] \cup {i} ELSE got[u]
      BY <3>1 DEF ImportEffect, IInv, TypeOK
    <3>4. \A j \in got[t] : j \in 1..cur[t]
      BY DEF IInv, GotBehindCursor
    <3> QED BY <3>2, <3>3, <3>4
  <2> QED BY <2>1, <2>2 DEF Next, Import, Push, ImportNone
<1> QED BY <1>1, InvariantHolds, PTL DEF Spec, ImportsInOrder

-----------------------------------------------------------------------------
(* For the clauses of other workers: a live one has been imported by all   *)
(* the threads that are past it, a removed one by all threads but one.     *)
LiveClausesAreRead ==
  ~WhenFullRemoveOlder =>
    \A i \in (base + 1)..Len(log) : \A t \in Threads :
      ~Local(i) /\ i <= cur[t] => i \in got[t]

RInv == LiveClausesAreRead /\ RemoteClauseMissedByOne

(* An import preserves what is known of the other workers' clauses: the    *)
(* importer that removes one leaves exactly one thread behind.             *)
LEMMA ImportNextRInv ==
  ASSUME IInv, RInv, NEW t \in Threads, ImportNext(t)
  PROVE  RInv'
<1> DEFINE n == Len(log)
           c(i) == CursorsAfterRead(t, i)
<1>0. SUFFICES ASSUME ~WhenFullRemoveOlder PROVE RInv'
  BY DEF RInv, LiveClausesAreRead, RemoteClauseMissedByOne
<1>1. PICK i \in Foreign(t), b \in base..n : ImportEffect(t, i, b)
  BY ImportStep DEF IInv
<1>2. /\ n \in Nat /\ base \in 0..n
      /\ i \in (base + 1)..n /\ i \in 1..n /\ cur[t] \in base..(i - 1)
      /\ \A j \in (cur[t] + 1)..(i - 1) : log[j] = t
      /\ cur \in [Threads -> base..n] /\ b \in base..n /\ b \in 0..n
      /\ b # base => b >= i
      /\ log' = log /\ base' = b
  BY <1>1, FirstForeign DEF IInv, TypeOK, ImportEffect
<1>3. \A u \in Threads : /\ c(i)[u] = IF u = t THEN i ELSE cur[u]
                         /\ cur'[u] = IF c(i)[u] < b THEN b ELSE c(i)[u]
                         /\ cur[u] \in base..n
                         /\ got'[u] = IF u = t THEN got[t] \cup {i} ELSE got[u]
                         /\ got[u] \subseteq 1..cur[u]
  BY <1>1, <1>2 DEF IInv, TypeOK, GotBehindCursor, ImportEffect, CursorsAfterRead
<1>4. \A k \in (base + 1)..n : \A u \in Threads :
        ~Local(k) => (k \in got'[u] <=> u \notin Behind(c(i), k))
  <2> SUFFICES ASSUME NEW k \in (base + 1)..n, NEW u \in Threads, ~Local(k)
               PROVE  k \in got'[u] <=> u \notin Behind(c(i), k)
    OBVIOUS
  <2>1. k \in 1..n /\ u # log[k] /\ t # log[k]
    BY <1>2 DEF Local
  <2>2. k <= cur[u] => k \in got[u]
    BY <1>0 DEF RInv, LiveClausesAreRead
  <2>3. u \in Behind(c(i), k) <=> c(i)[u] < k
    BY <2>1 DEF Behind
  <2>4. CASE u # t
    BY <1>2, <1>3, <2>1, <2>2, <2>3, <2>4
  <2>5. CASE u = t
    <3>1. ~(cur[t] < k /\ k < i)
      BY <1>2, <2>1
    <3> QED BY <1>2, <1>3, <2>1, <2>2, <2>3, <2>5, <3>1
  <2> QED BY <2>4, <2>5
<1>5. LiveClausesAreRead'
  <2> SUFFICES ASSUME NEW k \in (b + 1)..n, NEW u \in Threads,
                      ~Local(k), k <= cur'[u]
               PROVE  k \in got'[u]
    BY <1>2 DEF LiveClausesAreRead, Local
  <2>1. k \in (base + 1)..n /\ k <= c(i)[u]
    BY <1>2, <1>3
  <2>2. u \notin Behind(c(i), k)
    BY <1>2, <1>3, <2>1 DEF Behind
  <2> QED BY <1>4, <2>1, <2>2
<1>6. RemoteClauseMissedByOne'
  <2> DEFINE Missed(k) == {u \in Threads : k \notin got[u]}
             MissedNow(k) == {u \in Threads : k \notin got'[u]}
  <2> SUFFICES ASSUME NEW k \in 1..b, ~Local(k)
               PROVE  Cardinality(MissedNow(k)) = 1
    BY <1>2 DEF RemoteClauseMissedByOne, Local
  <2>1. CASE k <= base
    <3>1. MissedNow(k) = Missed(k)
      BY <1>2, <1>3, <2>1
    <3> QED BY <1>0, <1>2, <2>1, <3>1, k \in 1..base DEF RInv, RemoteClauseMissedByOne
  <2>2. CASE k > base
    <3>1. k \in (base + 1)..n /\ k \in (base + 1)..b /\ b # base
      BY <1>2, <2>2
    <3>2. MissedNow(k) = Behind(c(i), k)
      BY <1>4, <3>1 DEF Behind
    <3>3. CountsAfterRead(i)[k] = 0
      BY <1>1, <3>1 DEF ImportEffect
    <3>4. CountsAfterRead(i)[k] = Cardinality(Behind(c(i), k)) - 1
      BY <1>1, <3>1, CountsExactAfterRead DEF ImportEffect
    <3>5. Cardinality(Behind(c(i), k)) \in Nat
      BY ThreadSets, Behind(c(i), k) \in SUBSET Threads DEF Behind
    <3>6. Cardinality(Behind(c(i), k)) = 1
      BY <3>3, <3>4, <3>5
    <3> QED BY <3>2, <3>6, Zenon
  <2> QED BY <1>2, <2>1, <2>2
<1> QED BY <1>5, <1>6 DEF RInv

(* A push preserves it: without -removeolder it removes nothing.           *)
LEMMA PushRInv ==
  ASSUME IInv, RInv, NEW o \in Origins, Push(o)
  PROVE  RInv'
<1> DEFINE n == Len(log)
<1>0. SUFFICES ASSUME ~WhenFullRemoveOlder PROVE RInv'
  BY DEF RInv, LiveClausesAreRead, RemoteClauseMissedByOne
<1>1. /\ n \in Nat /\ base \in 0..n /\ base' = base
      /\ cur' = [t \in Threads |-> IF cur[t] < base THEN base ELSE cur[t]]
      /\ cur \in [Threads -> base..n]
      /\ Len(log') = n + 1 /\ \A i \in 1..n : log'[i] = log[i]
      /\ got' = got
  BY <1>0, PushStep, LenProperties DEF IInv, TypeOK
<1>2. \A t \in Threads : cur'[t] = cur[t] /\ cur[t] \in base..n
  BY <1>1
<1>3. LiveClausesAreRead'
  <2> SUFFICES ASSUME NEW k \in (base + 1)..(n + 1), NEW u \in Threads,
                      ~Local(k)', k <= cur[u]
               PROVE  k \in got[u]
    BY <1>1, <1>2 DEF LiveClausesAreRead
  <2>1. k \in (base + 1)..n /\ k \in 1..n
    BY <1>1, <1>2
  <2> QED BY <1>0, <1>1, <2>1 DEF RInv, LiveClausesAreRead, Local
<1>4. RemoteClauseMissedByOne'
  <2>1. \A k \in 1..base : log'[k] = log[k]
    BY <1>1
  <2> QED BY <1>1, <2>1 DEF RInv, RemoteClauseMissedByOne, Local
<1> QED BY <1>3, <1>4 DEF RInv

(* Passing over one's own clauses preserves it.                            *)
LEMMA ImportNoneRInv ==
  ASSUME IInv, RInv, NEW t \in Threads, ImportNone(t)
  PROVE  RInv'
<1> DEFINE n == Len(log)
<1>1. /\ n \in Nat /\ base \in 0..n
      /\ cur' = [cur EXCEPT ![t] = n] /\ cur \in [Threads -> base..n]
      /\ log' = log /\ base' = base /\ got' = got
      /\ \A i \in (cur[t] + 1)..n : log[i] = t
  BY LenProperties DEF IInv, TypeOK, ImportNone, Foreign
<1>2. LiveClausesAreRead'
  <2> SUFFICES ASSUME ~WhenFullRemoveOlder,
                      NEW k \in (base + 1)..n, NEW u \in Threads,
                      ~Local(k), k <= cur'[u]
               PROVE  k \in got[u]
    BY <1>1 DEF LiveClausesAreRead, Local
  <2>1. k <= cur[u]
    BY <1>1 DEF Local
  <2> QED BY <2>1 DEF RInv, LiveClausesAreRead
<1>3. RemoteClauseMissedByOne'
  BY <1>1 DEF RInv, RemoteClauseMissedByOne, Local
<1> QED BY <1>2, <1>3 DEF RInv

(* Without -removeolder, a clause of another worker leaves the FIFO having *)
(* been imported by all the threads but one.                               *)
THEOREM RemoteClausesMissOneThread == Spec => []RemoteClauseMissedByOne
<1>1. Init => RInv
  BY InitInv DEF Init, RInv, LiveClausesAreRead, RemoteClauseMissedByOne
<1>2. IInv /\ RInv /\ [Next]_vars => RInv'
  <2> SUFFICES ASSUME IInv, RInv, [Next]_vars PROVE RInv'
    OBVIOUS
  <2>1. CASE UNCHANGED vars
    BY <2>1 DEF vars, RInv, LiveClausesAreRead, RemoteClauseMissedByOne, Local
  <2> QED BY <2>1, PushRInv, ImportNextRInv, ImportNoneRInv DEF Next, Import
<1>3. RInv => RemoteClauseMissedByOne
  BY DEF RInv
<1> QED BY <1>1, <1>2, <1>3, InvariantHolds, PTL DEF Spec
=============================================================================
