----------------------------- MODULE UnitsProofs -----------------------------
(***************************************************************************)
(* That no unit is lost between workers, for any number of workers and of  *)
(* threads, any formula and any room in MPI, and what a thread knows at    *)
(* level 0: only what follows from the formula, without contradiction, and *)
(* all of it on its way to everybody.                                      *)
(***************************************************************************)
EXTENDS Units, FiniteSetTheorems, SequenceTheorems, TLAPS

(* What travels: a unit of the formula, or nothing.                        *)
Known == formula \cup {None}

(* Everything on a list, at level 0 of a thread or in a message follows    *)
(* from the formula: nobody makes up a unit.  This implies TypeOK.         *)
UnitsFollow ==
  /\ formula \in Formulas
  /\ unitLit \in [Workers -> Seq(formula)]
  /\ received \in [Workers -> Known]
  /\ nextUnit = [w \in Workers |-> nextUnit[w]]
  /\ level0 = [w \in Workers |-> level0[w]]
  /\ holder = [w \in Workers |-> holder[w]]
  /\ sending \in [Workers -> [lit : Known, to : SUBSET Workers]]
  /\ network \in [Workers -> [Workers -> Seq(Known)]]
  /\ \A w \in Workers :
       /\ nextUnit[w] \in [Threads(w) -> 0..Len(unitLit[w])]
       /\ level0[w] \in [Threads(w) -> SUBSET formula]
       /\ holder[w] \in Threads(w) \cup {None}

(* A list has no variable twice, whatever the signs.                       *)
ListedOnce ==
  \A w \in Workers : \A i, j \in DOMAIN unitLit[w] :
    Var(unitLit[w][i]) = Var(unitLit[w][j]) => i = j

(* What a thread has fixed is on the list of its worker, and it has fixed  *)
(* every variable of the list up to its cursor.                            *)
FixedIsListed ==
  \A w \in Workers : \A t \in Threads(w), v \in Vars :
    Assigned(w, t, v) => IsUnary(w, v)
PassedIsFixed ==
  \A w \in Workers : \A t \in Threads(w) : \A i \in 1..nextUnit[w][t] :
    Assigned(w, t, Var(unitLit[w][i]))

(* No thread has fixed a variable both ways, although two threads may have *)
(* learnt it with different signs and export it at the same time.          *)
FixedOneWay ==
  \A w \in Workers : \A t \in Threads(w), v \in Vars :
    ~({v, -v} \subseteq level0[w][t])

(* What is on its way is on the list of some worker: when it comes to one  *)
(* more, the others have it or will hear of it from the first.             *)
SentByOne ==
  \A u \in Workers, v \in Vars : OnItsWay(v, u) => \E f \in Workers : IsUnary(f, v)

IInv ==
  /\ UnitsFollow /\ ListedOnce /\ FixedIsListed /\ PassedIsFixed /\ FixedOneWay
  /\ NoUnitLost /\ SentByOne

-----------------------------------------------------------------------------
(* A set of naturals that is not empty has a least element.  Of the        *)
(* intervals that start at 0 and end in it, one contains no other.         *)
LEMMA LeastNatural ==
  ASSUME NEW T \in SUBSET Nat, T # {}
  PROVE  \E x \in T : \A y \in T : x <= y
<1> DEFINE Starts == {0..m : m \in T}
<1>1. ASSUME NEW m \in T PROVE 0..m \in FiniteSubsetsOf(Nat)
  <2>1. IsFiniteSet(0..m) /\ 0..m \in SUBSET Nat
    BY FS_Interval
  <2> QED
    BY <2>1 DEF FiniteSubsetsOf
<1>2. Starts \subseteq FiniteSubsetsOf(Nat) /\ Starts # {}
  BY <1>1
<1> HIDE DEF Starts
<1>3. PICK A \in Starts : \A B \in Starts : <<B, A>> \notin StrictSubsetOrdering(Nat)
  BY <1>2, FS_StrictSubsetOrderingWellFounded, WFMin, Zenon
<1>4. PICK m \in T : A = 0..m
  BY <1>3 DEF Starts
<1>5. ASSUME NEW y \in T, y < m PROVE FALSE
  <2>1. 0..y \in Starts
    BY DEF Starts
  <2>2. m \in 0..m /\ m \notin 0..y
    BY <1>5
  <2>3. 0..y \subseteq 0..m /\ 0..y \in SUBSET Nat /\ 0..m \in SUBSET Nat
    BY <1>5
  <2> QED
    BY <1>3, <1>4, <2>1, <2>2, <2>3 DEF StrictSubsetOrdering
<1> QED
  BY <1>4, <1>5

(* Literals are integers, and a variable has two.                          *)
LEMMA LiteralFacts ==
  ASSUME UnitsFollow
  PROVE  /\ formula \subseteq -MaxVar..MaxVar /\ formula \subseteq Int
         /\ None \in -MaxVar..MaxVar
         /\ Known \subseteq -MaxVar..MaxVar /\ Known \subseteq Int
         /\ \A l \in Int : Var(l) \in Nat /\ l \in {Var(l), -Var(l)} /\ -Var(l) \in {l, -l}
         /\ \A l \in Int, v \in Vars : Var(l) = v <=> l \in {v, -v}
<1>1. formula \subseteq -MaxVar..MaxVar /\ MaxVar \in Nat
  BY SizesAssumption DEF UnitsFollow
<1>2. -MaxVar..MaxVar \subseteq Int /\ 0 \in -MaxVar..MaxVar
  BY <1>1
<1> QED
  BY <1>1, <1>2 DEF Known, None, Var, Vars

(* The worker sendUL sends to next is one of those that wait.              *)
LEMMA NextTarget ==
  ASSUME NEW to \in SUBSET Workers, to # {}
  PROVE  (CHOOSE u \in to : \A x \in to : u <= x) \in to
<1>1. Workers \subseteq Nat
  BY SizesAssumption DEF Workers
<1>2. \E u \in to : \A x \in to : u <= x
  BY <1>1, LeastNatural, Zenon
<1> QED
  BY <1>2

(* What sendUL does, without the choice.                                   *)
LEMMA SendULStep ==
  ASSUME UnitsFollow, NEW w \in Workers, SendUL(w)
  PROVE  \E u \in sending[w].to :
           /\ sending' = [sending EXCEPT ![w].to = @ \ {u}]
           /\ \/ /\ network' = [network EXCEPT ![w][u] = Append(@, sending[w].lit)]
                 /\ UNCHANGED received
              \/ /\ received[u] = None
                 /\ received' = [received EXCEPT ![u] = sending[w].lit]
                 /\ UNCHANGED network
<1>1. sending[w].to \in SUBSET Workers /\ sending[w].to # {}
  BY DEF UnitsFollow, SendUL
<1> QED
  BY <1>1, NextTarget DEF SendUL

-----------------------------------------------------------------------------
(* All travels unchanged: UnitsFollow, action by action.                   *)
LEMMA InitFollows == Init => UnitsFollow
<1> SUFFICES ASSUME Init PROVE UnitsFollow
  OBVIOUS
<1>1. <<>> \in Seq(formula) /\ <<>> \in Seq(Known) /\ Len(<<>>) = 0
  BY EmptySeq
<1> QED
  BY <1>1 DEF Init, UnitsFollow, Known

(* A list that grows leaves the cursors where they may be.                 *)
LEMMA LongerList ==
  ASSUME UnitsFollow, NEW w \in Workers, NEW l \in formula, UNCHANGED nextUnit,
         unitLit' = unitLit \/ unitLit' = [unitLit EXCEPT ![w] = Append(@, l)]
  PROVE  /\ unitLit' \in [Workers -> Seq(formula)]
         /\ \A x \in Workers : nextUnit'[x] \in [Threads(x) -> 0..Len(unitLit'[x])]
<1>1. /\ Append(unitLit[w], l) \in Seq(formula)
      /\ Len(Append(unitLit[w], l)) = Len(unitLit[w]) + 1
  BY AppendProperties DEF UnitsFollow
<1>2. unitLit' \in [Workers -> Seq(formula)]
  BY <1>1 DEF UnitsFollow
<1>3. ASSUME NEW x \in Workers
      PROVE  nextUnit'[x] \in [Threads(x) -> 0..Len(unitLit'[x])]
  <2>1. Len(unitLit[x]) \in Nat
    BY LenProperties DEF UnitsFollow
  <2>2. Len(unitLit'[x]) \in Nat /\ Len(unitLit'[x]) >= Len(unitLit[x])
    <3>1. \/ unitLit'[x] = unitLit[x]
          \/ x = w /\ unitLit'[x] = Append(unitLit[w], l)
      BY DEF UnitsFollow
    <3> QED
      BY <1>1, <2>1, <3>1
  <2>3. 0..Len(unitLit[x]) \subseteq 0..Len(unitLit'[x])
    BY <2>1, <2>2
  <2>4. nextUnit[x] \in [Threads(x) -> 0..Len(unitLit[x])]
    BY DEF UnitsFollow
  <2> QED
    BY <2>3, <2>4
<1> QED
  BY <1>2, <1>3

(* The worker w changes what it sends, or to whom.                         *)
LEMMA SendingType ==
  ASSUME UnitsFollow, NEW w \in Workers, NEW s \in [lit : Known, to : SUBSET Workers],
         sending' = [sending EXCEPT ![w] = s]
  PROVE  sending' \in [Workers -> [lit : Known, to : SUBSET Workers]]
BY DEF UnitsFollow

LEMMA LearnFollows ==
  ASSUME UnitsFollow, NEW w \in Workers, NEW t \in Threads(w), Learn(w, t)
  PROVE  UnitsFollow'
<1>1. PICK l \in formula :
        /\ level0' = [level0 EXCEPT ![w][t] = @ \cup {l}]
        /\ \/ UNCHANGED <<unitLit, holder, sending>>
           \/ /\ unitLit' = [unitLit EXCEPT ![w] = Append(@, l)]
              /\ holder' = [holder EXCEPT ![w] = t]
              /\ sending' = [sending EXCEPT ![w] = [lit |-> l, to |-> Targets(w)]]
  BY DEF Learn
<1>2. /\ Append(unitLit[w], l) \in Seq(formula)
      /\ Len(unitLit[w]) \in Nat /\ Len(Append(unitLit[w], l)) = Len(unitLit[w]) + 1
  BY AppendProperties, LenProperties DEF UnitsFollow
<1>3. UNCHANGED <<formula, nextUnit, network, received>>
  BY DEF Learn
<1>4. Targets(w) \in SUBSET Workers /\ l \in Known
  BY DEF Targets, Known
<1>5. /\ unitLit' \in [Workers -> Seq(formula)]
      /\ \A x \in Workers : nextUnit'[x] \in [Threads(x) -> 0..Len(unitLit'[x])]
  BY <1>1, <1>2, <1>3, LongerList
<1>6. /\ level0' = [x \in Workers |-> level0'[x]]
      /\ \A x \in Workers : level0'[x] \in [Threads(x) -> SUBSET formula]
  BY <1>1 DEF UnitsFollow
<1>7. /\ holder' = [x \in Workers |-> holder'[x]]
      /\ \A x \in Workers : holder'[x] \in Threads(x) \cup {None}
  BY <1>1 DEF UnitsFollow
<1>8. sending' \in [Workers -> [lit : Known, to : SUBSET Workers]]
  <2>1. [lit |-> l, to |-> Targets(w)] \in [lit : Known, to : SUBSET Workers]
    BY <1>4
  <2> QED
    BY <1>1, <2>1, SendingType DEF UnitsFollow
<1> QED
  BY <1>3, <1>5, <1>6, <1>7, <1>8 DEF UnitsFollow, Known

LEMMA SendULFollows ==
  ASSUME UnitsFollow, NEW w \in Workers, SendUL(w)
  PROVE  UnitsFollow'
<1>1. PICK u \in sending[w].to :
        /\ sending' = [sending EXCEPT ![w].to = @ \ {u}]
        /\ \/ /\ network' = [network EXCEPT ![w][u] = Append(@, sending[w].lit)]
              /\ UNCHANGED received
           \/ /\ received' = [received EXCEPT ![u] = sending[w].lit]
              /\ UNCHANGED network
  BY SendULStep
<1>2. u \in Workers /\ sending[w].lit \in Known
  BY DEF UnitsFollow
<1>3. Append(network[w][u], sending[w].lit) \in Seq(Known)
  BY <1>2, AppendProperties DEF UnitsFollow
<1>4. sending' \in [Workers -> [lit : Known, to : SUBSET Workers]]
  <2>1. sending[w] \in [lit : Known, to : SUBSET Workers]
    BY DEF UnitsFollow
  <2>2. [sending[w] EXCEPT !.to = @ \ {u}] \in [lit : Known, to : SUBSET Workers]
    BY <2>1
  <2>3. sending' = [sending EXCEPT ![w] = [sending[w] EXCEPT !.to = @ \ {u}]]
    BY <1>1
  <2> QED
    BY <2>2, <2>3, SendingType
<1>5. network' \in [Workers -> [Workers -> Seq(Known)]]
  <2>1. network[w] \in [Workers -> Seq(Known)]
    BY DEF UnitsFollow
  <2>2. [network[w] EXCEPT ![u] = Append(@, sending[w].lit)] \in [Workers -> Seq(Known)]
    BY <1>2, <1>3, <2>1
  <2> QED
    BY <1>1, <2>2 DEF UnitsFollow
<1>6. received' \in [Workers -> Known]
  BY <1>1, <1>2 DEF UnitsFollow
<1>7. UNCHANGED <<formula, unitLit, nextUnit, level0, holder>>
  BY DEF SendUL
<1> QED
  BY <1>4, <1>5, <1>6, <1>7 DEF UnitsFollow, Known

LEMMA UnlockFollows ==
  ASSUME UnitsFollow, NEW w \in Workers, Unlock(w)
  PROVE  UnitsFollow'
<1>1. sending' \in [Workers -> [lit : Known, to : SUBSET Workers]]
  <2>1. sending[w] \in [lit : Known, to : SUBSET Workers] /\ None \in Known
    BY DEF UnitsFollow, Known
  <2>2. [sending[w] EXCEPT !.lit = None] \in [lit : Known, to : SUBSET Workers]
    BY <2>1
  <2>3. sending' = [sending EXCEPT ![w] = [sending[w] EXCEPT !.lit = None]]
    BY DEF Unlock
  <2> QED
    BY <2>2, <2>3, SendingType
<1>2. /\ holder' = [x \in Workers |-> holder'[x]]
      /\ \A x \in Workers : holder'[x] \in Threads(x) \cup {None}
  BY DEF UnitsFollow, Unlock
<1> QED
  BY <1>1, <1>2 DEF UnitsFollow, Unlock, Known

LEMMA ReceiveFollows ==
  ASSUME UnitsFollow, NEW w \in Workers, NEW f \in Workers, Receive(w, f)
  PROVE  UnitsFollow'
<1>1. Head(network[f][w]) \in Known /\ Tail(network[f][w]) \in Seq(Known)
  BY HeadTailProperties DEF UnitsFollow, Receive
<1>2. network' \in [Workers -> [Workers -> Seq(Known)]]
  BY <1>1 DEF UnitsFollow, Receive
<1>3. received' \in [Workers -> Known]
  BY <1>1 DEF UnitsFollow, Receive
<1> QED
  BY <1>2, <1>3 DEF UnitsFollow, Receive, Known

LEMMA AddLearntFollows ==
  ASSUME UnitsFollow, NEW w \in Workers, AddLearntHightLevel(w)
  PROVE  UnitsFollow'
<1>1. received[w] \in formula /\ received' = [received EXCEPT ![w] = None]
  BY DEF UnitsFollow, AddLearntHightLevel, Known
<1>2. /\ Append(unitLit[w], received[w]) \in Seq(formula)
      /\ Len(unitLit[w]) \in Nat
      /\ Len(Append(unitLit[w], received[w])) = Len(unitLit[w]) + 1
  BY <1>1, AppendProperties, LenProperties DEF UnitsFollow
<1>3. /\ unitLit' \in [Workers -> Seq(formula)]
      /\ \A x \in Workers : nextUnit'[x] \in [Threads(x) -> 0..Len(unitLit'[x])]
  <2>1. /\ unitLit' = unitLit \/ unitLit' = [unitLit EXCEPT ![w] = Append(@, received[w])]
        /\ UNCHANGED nextUnit
    BY DEF AddLearntHightLevel
  <2> QED
    BY <1>1, <1>2, <2>1, LongerList
<1> QED
  BY <1>1, <1>3 DEF UnitsFollow, AddLearntHightLevel, Known

(* The units that an import reads are those of the list behind the cursor. *)
LEMMA UnitsRead ==
  ASSUME UnitsFollow, NEW w \in Workers, NEW t \in Threads(w)
  PROVE  /\ Len(unitLit[w]) \in Nat /\ nextUnit[w][t] \in 0..Len(unitLit[w])
         /\ ToSet(SubSeq(unitLit[w], nextUnit[w][t] + 1, Len(unitLit[w]))) =
              {unitLit[w][i] : i \in (nextUnit[w][t] + 1)..Len(unitLit[w])}
<1> DEFINE list == unitLit[w]
           n == nextUnit[w][t]
           read == SubSeq(list, n + 1, Len(list))
<1>1. list \in Seq(formula) /\ Len(list) \in Nat /\ n \in 0..Len(list)
  BY LenProperties DEF UnitsFollow
<1>2. \A i \in (n + 1)..Len(list) : list[i] \in formula
  BY <1>1, ElementOfSeq
<1> HIDE DEF list, n
<1>3. /\ read \in Seq(formula)
      /\ Len(read) = IF n + 1 <= Len(list) THEN Len(list) - (n + 1) + 1 ELSE 0
      /\ \A i \in 1..(Len(list) - (n + 1) + 1) : read[i] = list[(n + 1) + i - 1]
  BY <1>1, <1>2, SubSeqProperties
<1> HIDE DEF read
<1>4. DOMAIN read = 1..(Len(list) - n)
  BY <1>1, <1>3, LenProperties
<1>5. \A i \in 1..(Len(list) - n) : i + n \in (n + 1)..Len(list) /\ read[i] = list[i + n]
  <2> TAKE i \in 1..(Len(list) - n)
  <2>1. i \in 1..(Len(list) - (n + 1) + 1) /\ (n + 1) + i - 1 = i + n
    BY <1>1
  <2> QED
    BY <1>1, <1>3, <2>1
<1>6. \A i \in (n + 1)..Len(list) : i - n \in 1..(Len(list) - n) /\ (i - n) + n = i
  BY <1>1
<1>7. \A i \in (n + 1)..Len(list) : read[i - n] = list[i]
  BY <1>5, <1>6
<1>8. {read[i] : i \in 1..(Len(list) - n)} = {list[i] : i \in (n + 1)..Len(list)}
  BY <1>5, <1>6, <1>7
<1>9. ToSet(read) = {list[i] : i \in (n + 1)..Len(list)}
  BY <1>4, <1>8 DEF ToSet
<1> QED
  BY <1>1, <1>9 DEF list, n, read

LEMMA ImportFollows ==
  ASSUME UnitsFollow, NEW w \in Workers, NEW t \in Threads(w), Import(w, t)
  PROVE  UnitsFollow'
<1> DEFINE taken == {l \in ToSet(SubSeq(unitLit[w], nextUnit[w][t] + 1, Len(unitLit[w]))) :
                       ~Assigned(w, t, Var(l))}
<1>1. \A i \in (nextUnit[w][t] + 1)..Len(unitLit[w]) : unitLit[w][i] \in formula
  <2>1. unitLit[w] \in Seq(formula)
    BY DEF UnitsFollow
  <2> QED
    BY <2>1, UnitsRead, ElementOfSeq
<1>2. taken \subseteq formula
  <2>1. taken \subseteq {unitLit[w][i] : i \in (nextUnit[w][t] + 1)..Len(unitLit[w])}
    BY UnitsRead
  <2> QED
    BY <1>1, <2>1
<1>3. /\ nextUnit' = [nextUnit EXCEPT ![w][t] = Len(unitLit[w])]
      /\ level0' = [level0 EXCEPT ![w][t] = @ \cup taken]
      /\ UNCHANGED <<formula, unitLit, holder, sending, network, received>>
  BY DEF Import, NbUnits
<1> HIDE DEF taken
<1>4. /\ nextUnit' = [x \in Workers |-> nextUnit'[x]]
      /\ \A x \in Workers : nextUnit'[x] \in [Threads(x) -> 0..Len(unitLit'[x])]
  <2>1. Len(unitLit[w]) \in 0..Len(unitLit[w])
    BY UnitsRead
  <2> QED
    BY <1>3, <2>1 DEF UnitsFollow
<1>5. /\ level0' = [x \in Workers |-> level0'[x]]
      /\ \A x \in Workers : level0'[x] \in [Threads(x) -> SUBSET formula]
  BY <1>2, <1>3 DEF UnitsFollow
<1> QED
  BY <1>3, <1>4, <1>5 DEF UnitsFollow, Known

LEMMA NextFollows == UnitsFollow /\ [Next]_vars => UnitsFollow'
<1> SUFFICES ASSUME UnitsFollow, [Next]_vars PROVE UnitsFollow'
  OBVIOUS
<1>1. CASE UNCHANGED vars
  BY <1>1 DEF UnitsFollow, Known, vars
<1>2. ASSUME NEW w \in Workers, Listen(w) PROVE UnitsFollow'
  BY <1>2, ReceiveFollows, AddLearntFollows DEF Listen
<1> QED
  BY <1>1, <1>2, LearnFollows, SendULFollows, UnlockFollows, ImportFollows DEF Next

(* Units as typed by TypeOK are a special case.                            *)
LEMMA FollowsTypeOK == UnitsFollow => TypeOK
<1> SUFFICES ASSUME UnitsFollow PROVE TypeOK
  OBVIOUS
<1>1. formula \subseteq -MaxVar..MaxVar /\ Known \subseteq -MaxVar..MaxVar
  BY LiteralFacts
<1>2. ASSUME NEW w \in Workers
      PROVE  /\ unitLit[w] \in Seq(-MaxVar..MaxVar)
             /\ network[w] \in [Workers -> Seq(-MaxVar..MaxVar)]
  <2>1. unitLit[w] \in Seq(formula) /\ network[w] \in [Workers -> Seq(Known)]
    BY DEF UnitsFollow
  <2>2. ASSUME NEW u \in Workers PROVE network[w][u] \in Seq(-MaxVar..MaxVar)
    BY <1>1, <2>1, SeqMonotonic
  <2> QED
    BY <1>1, <2>1, <2>2, SeqMonotonic
<1>3. ASSUME NEW w \in Workers
      PROVE  /\ sending[w] \in [lit : -MaxVar..MaxVar, to : SUBSET Workers]
             /\ received[w] \in -MaxVar..MaxVar
             /\ level0[w] \in [Threads(w) -> SUBSET (-MaxVar..MaxVar)]
  BY <1>1 DEF UnitsFollow
<1> QED
  BY <1>2, <1>3 DEF UnitsFollow, TypeOK

-----------------------------------------------------------------------------
(* A list that gets a unit of a new variable, pointwise.                   *)
LEMMA Listing ==
  ASSUME UnitsFollow, NEW w \in Workers, NEW l \in formula, ~IsUnary(w, Var(l)),
         unitLit' = [unitLit EXCEPT ![w] = Append(@, l)]
  PROVE  /\ \A x \in Workers \ {w} : unitLit'[x] = unitLit[x]
         /\ Len(unitLit[w]) \in Nat /\ DOMAIN unitLit[w] = 1..Len(unitLit[w])
         /\ DOMAIN unitLit'[w] = 1..(Len(unitLit[w]) + 1)
         /\ \A i \in 1..Len(unitLit[w]) : unitLit'[w][i] = unitLit[w][i]
         /\ unitLit'[w][Len(unitLit[w]) + 1] = l
         /\ \A x \in Workers : \A v :
              IsUnary(x, v)' <=> IsUnary(x, v) \/ (x = w /\ v = Var(l))
<1>1. unitLit'[w] = Append(unitLit[w], l) /\ unitLit[w] \in Seq(formula)
  BY DEF UnitsFollow
<1>2. /\ Len(unitLit[w]) \in Nat /\ DOMAIN unitLit[w] = 1..Len(unitLit[w])
      /\ DOMAIN unitLit'[w] = 1..(Len(unitLit[w]) + 1)
      /\ \A i \in 1..Len(unitLit[w]) : unitLit'[w][i] = unitLit[w][i]
      /\ unitLit'[w][Len(unitLit[w]) + 1] = l
  BY <1>1, AppendProperties, LenProperties
<1>3. \A x \in Workers \ {w} : unitLit'[x] = unitLit[x]
  BY DEF UnitsFollow
<1>4. ASSUME NEW v PROVE IsUnary(w, v)' <=> IsUnary(w, v) \/ v = Var(l)
  <2>1. ASSUME IsUnary(w, v) PROVE IsUnary(w, v)'
    BY <1>2, <2>1 DEF IsUnary
  <2>2. ASSUME v = Var(l) PROVE IsUnary(w, v)'
    BY <1>2, <2>2 DEF IsUnary
  <2>3. ASSUME IsUnary(w, v)', v # Var(l) PROVE IsUnary(w, v)
    <3>1. PICK i \in 1..(Len(unitLit[w]) + 1) : Var(unitLit'[w][i]) = v
      BY <1>2, <2>3 DEF IsUnary
    <3>2. i \in 1..Len(unitLit[w])
      BY <1>2, <2>3, <3>1
    <3> QED
      BY <1>2, <3>1, <3>2 DEF IsUnary
  <2> QED
    BY <2>1, <2>2, <2>3
<1>5. \A x \in Workers \ {w} : \A v : IsUnary(x, v)' <=> IsUnary(x, v)
  BY <1>3 DEF IsUnary
<1> QED
  BY <1>2, <1>3, <1>4, <1>5

(* A list that gets a unit of a new variable still has none twice, and the *)
(* cursors still point behind units that are fixed.                        *)
LEMMA ListingKeeps ==
  ASSUME IInv, NEW w \in Workers, NEW l \in formula, ~IsUnary(w, Var(l)),
         unitLit' = [unitLit EXCEPT ![w] = Append(@, l)]
  PROVE  /\ ListedOnce'
         /\ \A x \in Workers : \A t \in Threads(x) : \A i \in 1..nextUnit[x][t] :
              unitLit'[x][i] = unitLit[x][i]
<1>1. UnitsFollow /\ ListedOnce
  BY DEF IInv
<1>2. ListedOnce'
  <2> SUFFICES ASSUME NEW x \in Workers,
                      NEW i \in DOMAIN unitLit'[x], NEW j \in DOMAIN unitLit'[x],
                      Var(unitLit'[x][i]) = Var(unitLit'[x][j])
               PROVE  i = j
    BY DEF ListedOnce
  <2>1. CASE x # w
    BY <1>1, <2>1, Listing DEF ListedOnce
  <2>2. CASE x = w
    <3> DEFINE n == Len(unitLit[w])
    <3>0. /\ n \in Nat /\ DOMAIN unitLit[w] = 1..n /\ DOMAIN unitLit'[w] = 1..(n + 1)
          /\ \A k \in 1..n : unitLit'[w][k] = unitLit[w][k]
          /\ unitLit'[w][n + 1] = l
      BY <1>1, Listing
    <3> HIDE DEF n
    <3>1. /\ n \in Nat /\ DOMAIN unitLit[w] = 1..n /\ i \in 1..(n + 1) /\ j \in 1..(n + 1)
          /\ \A k \in 1..n : unitLit'[w][k] = unitLit[w][k]
          /\ unitLit'[w][n + 1] = l
      BY <2>2, <3>0
    <3>2. \A k \in 1..n : Var(unitLit'[w][k]) # Var(l)
      BY <3>1 DEF IsUnary
    <3>3. CASE i \in 1..n /\ j \in 1..n
      BY <1>1, <2>2, <3>1, <3>3 DEF ListedOnce
    <3>4. CASE i = n + 1 \/ j = n + 1
      BY <2>2, <3>1, <3>2, <3>4
    <3> QED
      BY <3>1, <3>3, <3>4
  <2> QED
    BY <2>1, <2>2
<1>3. ASSUME NEW x \in Workers, NEW t \in Threads(x), NEW i \in 1..nextUnit[x][t]
      PROVE  unitLit'[x][i] = unitLit[x][i]
  <2>1. nextUnit[x][t] \in 0..Len(unitLit[x])
    BY <1>1 DEF UnitsFollow
  <2> QED
    BY <1>1, <2>1, Listing
<1> QED
  BY <1>2, <1>3

(* A thread that fixes more, pointwise.                                    *)
FixesMore(w, t, more) ==
  /\ level0'[w][t] = level0[w][t] \cup more
  /\ \A x \in Workers : \A y \in Threads(x) :
       x # w \/ y # t => level0'[x][y] = level0[x][y]
  /\ \A x \in Workers : \A y \in Threads(x) : \A v :
       Assigned(x, y, v) => Assigned(x, y, v)'
  /\ \A x \in Workers : \A y \in Threads(x) : \A v \in Vars :
       Assigned(x, y, v)' =>
         \/ Assigned(x, y, v)
         \/ x = w /\ y = t /\ \E l \in more : Var(l) = v

LEMMA Fixing ==
  ASSUME UnitsFollow, NEW w \in Workers, NEW t \in Threads(w), NEW more \in SUBSET formula,
         level0' = [level0 EXCEPT ![w][t] = @ \cup more]
  PROVE  FixesMore(w, t, more)
<1>1. level0[w] \in [Threads(w) -> SUBSET formula] /\ level0 = [x \in Workers |-> level0[x]]
  BY DEF UnitsFollow
<1>2. level0'[w] = [level0[w] EXCEPT ![t] = @ \cup more]
  BY <1>1
<1>3. level0'[w][t] = level0[w][t] \cup more
  BY <1>1, <1>2
<1>4. \A x \in Workers : \A y \in Threads(x) :
        x # w \/ y # t => level0'[x][y] = level0[x][y]
  BY <1>1, <1>2
<1>5. ASSUME NEW x \in Workers, NEW y \in Threads(x), NEW v, Assigned(x, y, v)
      PROVE  Assigned(x, y, v)'
  BY <1>3, <1>4, <1>5 DEF Assigned
<1>6. ASSUME NEW x \in Workers, NEW y \in Threads(x), NEW v \in Vars, Assigned(x, y, v)',
             ~Assigned(x, y, v)
      PROVE  x = w /\ y = t /\ \E l \in more : Var(l) = v
  <2>1. x = w /\ y = t
    BY <1>4, <1>6 DEF Assigned
  <2>2. PICK l \in {v, -v} : l \in more
    BY <1>3, <1>6, <2>1 DEF Assigned
  <2> QED
    BY <2>1, <2>2, LiteralFacts
<1> QED
  BY <1>3, <1>4, <1>5, <1>6 DEF FixesMore

(* What a thread fixes stays what its worker has listed, on either action. *)
LEMMA LearnKeeps ==
  ASSUME IInv, NEW w \in Workers, NEW t \in Threads(w), Learn(w, t)
  PROVE  ListedOnce' /\ FixedIsListed' /\ PassedIsFixed' /\ FixedOneWay'
<1>1. PICK l \in formula :
        /\ ~Assigned(w, t, Var(l))
        /\ level0' = [level0 EXCEPT ![w][t] = @ \cup {l}]
        /\ \/ IsUnary(w, Var(l)) /\ UNCHANGED unitLit
           \/ ~IsUnary(w, Var(l)) /\ unitLit' = [unitLit EXCEPT ![w] = Append(@, l)]
  BY DEF Learn
<1>2. UnitsFollow /\ nextUnit' = nextUnit /\ {l} \in SUBSET formula
  BY DEF IInv, Learn
<1>0. FixesMore(w, t, {l})
  BY <1>1, <1>2, Fixing
<1>3. /\ \A x \in Workers : \A v : IsUnary(x, v) => IsUnary(x, v)'
      /\ IsUnary(w, Var(l))'
  BY <1>1, <1>2, Listing DEF IsUnary
<1>4. /\ ListedOnce'
      /\ \A x \in Workers : \A y \in Threads(x) : \A i \in 1..nextUnit[x][y] :
           unitLit'[x][i] = unitLit[x][i]
  BY <1>1, ListingKeeps DEF IInv, ListedOnce
<1>5. FixedIsListed'
  <2> SUFFICES ASSUME NEW x \in Workers, NEW y \in Threads(x), NEW v \in Vars, Assigned(x, y, v)'
               PROVE  IsUnary(x, v)'
    BY DEF FixedIsListed
  <2>1. CASE Assigned(x, y, v)
    BY <1>3, <2>1 DEF IInv, FixedIsListed
  <2>2. CASE x = w /\ v = Var(l)
    BY <1>3, <2>2
  <2>3. \/ Assigned(x, y, v)
        \/ x = w /\ y = t /\ \E k \in {l} : Var(k) = v
    BY <1>0 DEF FixesMore
  <2> QED
    BY <2>1, <2>2, <2>3
<1>6. PassedIsFixed'
  <2> SUFFICES ASSUME NEW x \in Workers, NEW y \in Threads(x), NEW i \in 1..nextUnit[x][y]
               PROVE  Assigned(x, y, Var(unitLit[x][i]))'
    BY <1>2 DEF PassedIsFixed
  <2>1. PICK v : v = Var(unitLit[x][i]) /\ Assigned(x, y, v)
    BY DEF IInv, PassedIsFixed
  <2>2. Assigned(x, y, v)'
    BY <1>0, <2>1 DEF FixesMore
  <2>3. v = Var(unitLit'[x][i])
    BY <1>4, <2>1
  <2> QED
    BY <2>2, <2>3
<1>7. FixedOneWay'
  <2> SUFFICES ASSUME NEW x \in Workers, NEW y \in Threads(x), NEW v \in Vars,
                      {v, -v} \subseteq level0'[x][y]
               PROVE  FALSE
    BY DEF FixedOneWay
  <2>1. v # -v /\ (l \in {v, -v} => Var(l) = v)
    BY <1>2, LiteralFacts DEF Vars
  <2>2. CASE x = w /\ y = t
    <3>1. {v, -v} \subseteq level0[w][t] \cup {l}
      BY <1>0, <2>2 DEF FixesMore
    <3>2. l \in {v, -v} => {v, -v} \cap level0[w][t] = {}
      BY <1>1, <2>1 DEF Assigned
    <3> QED
      BY <2>1, <2>2, <3>1, <3>2 DEF IInv, FixedOneWay
  <2>3. CASE x # w \/ y # t
    BY <1>0, <2>3 DEF IInv, FixedOneWay, FixesMore
  <2> QED
    BY <2>2, <2>3
<1> QED
  BY <1>4, <1>5, <1>6, <1>7

LEMMA ImportKeeps ==
  ASSUME IInv, NEW w \in Workers, NEW t \in Threads(w), Import(w, t)
  PROVE  ListedOnce' /\ FixedIsListed' /\ PassedIsFixed' /\ FixedOneWay' /\ NoUnitLost' /\ SentByOne'
<1> DEFINE n == nextUnit[w][t]
           len == Len(unitLit[w])
           taken == {l \in ToSet(SubSeq(unitLit[w], n + 1, len)) : ~Assigned(w, t, Var(l))}
<1>1. /\ nextUnit' = [nextUnit EXCEPT ![w][t] = len]
      /\ level0' = [level0 EXCEPT ![w][t] = @ \cup taken]
      /\ UNCHANGED <<formula, unitLit, holder, sending, network, received>>
  BY DEF Import, NbUnits
<1>2. UnitsFollow
  BY DEF IInv
<1>3. /\ len \in Nat /\ n \in 0..len /\ DOMAIN unitLit[w] = 1..len
      /\ \A i \in 1..len : unitLit[w][i] \in formula
      /\ taken = {l \in {unitLit[w][i] : i \in (n + 1)..len} : ~Assigned(w, t, Var(l))}
  <2>1. unitLit[w] \in Seq(formula)
    BY <1>2 DEF UnitsFollow
  <2> QED
    BY <1>2, <2>1, UnitsRead, LenProperties, ElementOfSeq
<1> HIDE DEF n, len, taken
<1>4. /\ taken \subseteq formula
      /\ \A l \in taken : ~Assigned(w, t, Var(l)) /\ \E i \in 1..len : l = unitLit[w][i]
  BY <1>3
<1>0. FixesMore(w, t, taken)
  BY <1>1, <1>2, <1>4, Fixing
<1>5. ListedOnce' /\ NoUnitLost' /\ SentByOne'
  <2>1. \A x \in Workers, v \in Vars : IsUnary(x, v)' <=> IsUnary(x, v)
    BY <1>1 DEF IsUnary
  <2>2. \A x \in Workers, v \in Vars : OnItsWay(v, x)' <=> OnItsWay(v, x)
    BY <1>1 DEF OnItsWay
  <2>3. NoUnitLost' /\ SentByOne'
    BY <2>1, <2>2 DEF IInv, NoUnitLost, SentByOne
  <2> QED
    BY <1>1, <2>3 DEF IInv, ListedOnce
<1>6. FixedIsListed'
  <2> SUFFICES ASSUME NEW x \in Workers, NEW y \in Threads(x), NEW v \in Vars, Assigned(x, y, v)'
               PROVE  IsUnary(x, v)
    BY <1>1 DEF FixedIsListed, IsUnary
  <2>1. \/ Assigned(x, y, v)
        \/ x = w /\ y = t /\ \E l \in taken : Var(l) = v
    BY <1>0 DEF FixesMore
  <2>2. CASE Assigned(x, y, v)
    BY <2>2 DEF IInv, FixedIsListed
  <2>3. CASE x = w /\ \E l \in taken : Var(l) = v
    BY <1>3, <1>4, <2>3 DEF IsUnary
  <2> QED
    BY <2>1, <2>2, <2>3
<1>7. PassedIsFixed'
  <2> SUFFICES ASSUME NEW x \in Workers, NEW y \in Threads(x), NEW i \in 1..nextUnit'[x][y]
               PROVE  Assigned(x, y, Var(unitLit[x][i]))'
    BY DEF PassedIsFixed
  <2>1. PICK v : v = Var(unitLit[x][i])
    OBVIOUS
  <2>2. CASE i \in 1..nextUnit[x][y]
    <3>1. Assigned(x, y, v)
      BY <2>1, <2>2 DEF IInv, PassedIsFixed
    <3>2. Assigned(x, y, v)'
      BY <1>0, <3>1 DEF FixesMore
    <3> QED
      BY <1>1, <2>1, <3>2
  <2>3. CASE i \notin 1..nextUnit[x][y]
    <3>1. x = w /\ y = t /\ i \in (n + 1)..len
      <4>1. CASE x = w /\ y = t
        <5>1. nextUnit'[w][t] = len
          BY <1>1, <1>2 DEF UnitsFollow
        <5> QED
          BY <1>3, <2>3, <4>1, <5>1 DEF n
      <4>2. CASE x # w \/ y # t
        <5>1. nextUnit'[x][y] = nextUnit[x][y]
          BY <1>1, <1>2, <4>2 DEF UnitsFollow
        <5> QED
          BY <2>3, <5>1
      <4> QED
        BY <4>1, <4>2
    <3>2. CASE Assigned(w, t, v)
      <4>1. Assigned(w, t, v)'
        BY <1>0, <3>2 DEF FixesMore
      <4> QED
        BY <1>1, <2>1, <3>1, <4>1
    <3>3. CASE ~Assigned(w, t, v)
      <4>1. unitLit[w][i] \in taken /\ unitLit[w][i] \in formula
        BY <1>3, <2>1, <3>1, <3>3
      <4>2. unitLit[w][i] \in level0'[w][t]
        BY <1>0, <4>1 DEF FixesMore
      <4>3. unitLit[w][i] \in {v, -v}
        BY <1>2, <2>1, <3>1, <4>1, LiteralFacts
      <4>4. Assigned(w, t, v)'
        BY <4>2, <4>3 DEF Assigned
      <4> QED
        BY <1>1, <2>1, <3>1, <4>4
    <3> QED
      BY <3>2, <3>3
  <2> QED
    BY <2>2, <2>3
<1>8. FixedOneWay'
  <2> SUFFICES ASSUME NEW x \in Workers, NEW y \in Threads(x), NEW v \in Vars,
                      {v, -v} \subseteq level0'[x][y]
               PROVE  FALSE
    BY DEF FixedOneWay
  <2>1. v # -v /\ \A l \in formula : l \in {v, -v} => Var(l) = v
    BY <1>2, LiteralFacts DEF Vars
  <2>2. CASE x = w /\ y = t
    <3>1. {v, -v} \subseteq level0[w][t] \cup taken
      BY <1>0, <2>2 DEF FixesMore
    <3>2. \A l \in taken : l \in {v, -v} => {v, -v} \cap level0[w][t] = {}
      BY <1>4, <2>1 DEF Assigned
    <3>3. CASE v \in taken /\ -v \in taken
      <4>1. PICK i \in 1..len, j \in 1..len : v = unitLit[w][i] /\ -v = unitLit[w][j]
        BY <1>4, <3>3
      <4>2. i = j
        BY <1>3, <1>4, <2>1, <3>3, <4>1 DEF IInv, ListedOnce
      <4> QED
        BY <2>1, <4>1, <4>2
    <3> QED
      BY <2>2, <3>1, <3>2, <3>3 DEF IInv, FixedOneWay
  <2>3. CASE x # w \/ y # t
    BY <1>0, <2>3 DEF IInv, FixedOneWay, FixesMore
  <2> QED
    BY <2>2, <2>3
<1> QED
  BY <1>5, <1>6, <1>7, <1>8

-----------------------------------------------------------------------------
(* A variable that is new on the list of w is on its way to all others,    *)
(* who hear of it from the thread that holds the mutex.                    *)
LEMMA LearnLosesNone ==
  ASSUME IInv, NEW w \in Workers, NEW t \in Threads(w), Learn(w, t)
  PROVE  NoUnitLost' /\ SentByOne'
<1>1. PICK l \in formula :
        \/ UNCHANGED <<unitLit, holder, sending>>
        \/ /\ ~IsUnary(w, Var(l)) /\ unitLit' = [unitLit EXCEPT ![w] = Append(@, l)]
           /\ holder' = [holder EXCEPT ![w] = t]
           /\ sending' = [sending EXCEPT ![w] = [lit |-> l, to |-> Workers \ {w}]]
  BY DEF Learn, Targets
<1>2. UnitsFollow /\ holder[w] = None /\ UNCHANGED <<network, received>>
  BY DEF IInv, Learn
<1>3. CASE UNCHANGED <<unitLit, holder, sending>>
  <2>1. \A x \in Workers, v \in Vars : IsUnary(x, v)' <=> IsUnary(x, v)
    BY <1>3 DEF IsUnary
  <2>2. \A x \in Workers, v \in Vars : OnItsWay(v, x)' <=> OnItsWay(v, x)
    BY <1>2, <1>3 DEF OnItsWay
  <2> QED
    BY <2>1, <2>2 DEF IInv, NoUnitLost, SentByOne
<1>4. CASE /\ ~IsUnary(w, Var(l)) /\ unitLit' = [unitLit EXCEPT ![w] = Append(@, l)]
           /\ holder' = [holder EXCEPT ![w] = t]
           /\ sending' = [sending EXCEPT ![w] = [lit |-> l, to |-> Workers \ {w}]]
  <2>1. \A x \in Workers : \A v : IsUnary(x, v)' <=> IsUnary(x, v) \/ (x = w /\ v = Var(l))
    BY <1>2, <1>4, Listing
  <2>2. /\ holder'[w] = t /\ t # None
        /\ sending'[w] = [lit |-> l, to |-> Workers \ {w}]
    BY <1>2, <1>4, SizesAssumption DEF UnitsFollow, None, Threads
  <2>3. \A f \in Workers \ {w} : holder'[f] = holder[f] /\ sending'[f] = sending[f]
    BY <1>2, <1>4 DEF UnitsFollow
  <2>4. ASSUME NEW v \in Vars, NEW u \in Workers, OnItsWay(v, u) PROVE OnItsWay(v, u)'
    <3>1. CASE received[u] \in {v, -v}
      BY <1>2, <3>1 DEF OnItsWay
    <3>2. ASSUME NEW f \in Workers, {v, -v} \cap ToSet(network[f][u]) # {}
          PROVE  OnItsWay(v, u)'
      BY <1>2, <3>2 DEF OnItsWay
    <3>3. ASSUME NEW f \in Workers, holder[f] # None, Var(sending[f].lit) = v, u \in sending[f].to
          PROVE  OnItsWay(v, u)'
      <4>1. f # w
        BY <1>2, <3>3
      <4> QED
        BY <2>3, <3>3, <4>1 DEF OnItsWay
    <3> QED
      BY <2>4, <3>1, <3>2, <3>3 DEF OnItsWay
  <2>5. \A u \in Workers \ {w} : OnItsWay(Var(l), u)'
    BY <2>2 DEF OnItsWay
  <2>6. NoUnitLost'
    <3> SUFFICES ASSUME NEW x \in Workers, NEW u \in Workers, NEW v \in Vars, IsUnary(x, v)'
                 PROVE  IsUnary(u, v)' \/ OnItsWay(v, u)'
      BY DEF NoUnitLost
    <3>1. CASE IsUnary(x, v)
      <4>1. IsUnary(u, v) \/ OnItsWay(v, u)
        BY <3>1 DEF IInv, NoUnitLost
      <4> QED
        BY <2>1, <2>4, <4>1
    <3>2. CASE x = w /\ v = Var(l)
      BY <2>1, <2>5, <3>2
    <3> QED
      BY <2>1, <3>1, <3>2
  <2>7. ASSUME NEW v \in Vars, NEW u \in Workers, OnItsWay(v, u)'
        PROVE  OnItsWay(v, u) \/ v = Var(l)
    BY <1>2, <2>2, <2>3, <2>7 DEF OnItsWay
  <2>8. SentByOne'
    BY <2>1, <2>7 DEF IInv, SentByOne
  <2> QED
    BY <2>6, <2>8
<1> QED
  BY <1>1, <1>3, <1>4

(* What is in a sequence after a message is appended, or taken.            *)
LEMMA AppendToSet ==
  ASSUME NEW S, NEW s \in Seq(S), NEW e \in S
  PROVE  ToSet(Append(s, e)) = ToSet(s) \cup {e}
<1>1. /\ Len(s) \in Nat /\ DOMAIN s = 1..Len(s)
      /\ DOMAIN Append(s, e) = 1..(Len(s) + 1)
      /\ \A i \in 1..Len(s) : Append(s, e)[i] = s[i]
      /\ Append(s, e)[Len(s) + 1] = e
  BY AppendProperties, LenProperties
<1> QED
  <2>1. \A i \in 1..(Len(s) + 1) : i \in 1..Len(s) \/ i = Len(s) + 1
    BY <1>1
  <2> QED
    BY <1>1, <2>1 DEF ToSet

LEMMA TailToSet ==
  ASSUME NEW S, NEW s \in Seq(S), s # <<>>
  PROVE  ToSet(s) = ToSet(Tail(s)) \cup {Head(s)}
<1>1. /\ Len(s) \in Nat /\ DOMAIN s = 1..Len(s) /\ DOMAIN Tail(s) = 1..(Len(s) - 1)
      /\ \A i \in 1..(Len(s) - 1) : Tail(s)[i] = s[i + 1]
      /\ Head(s) = s[1]
  BY HeadTailProperties, LenProperties
<1>2. ASSUME NEW i \in 1..Len(s), i # 1 PROVE s[i] \in ToSet(Tail(s))
  <2>1. i - 1 \in 1..(Len(s) - 1) /\ (i - 1) + 1 = i
    BY <1>1, <1>2
  <2>2. Tail(s)[i - 1] = s[i]
    BY <1>1, <2>1
  <2> QED
    BY <1>1, <2>1, <2>2 DEF ToSet
<1>3. ASSUME NEW i \in 1..(Len(s) - 1) PROVE Tail(s)[i] \in ToSet(s)
  BY <1>1 DEF ToSet
<1>4. Head(s) \in ToSet(s)
  <2>1. 1 \in 1..Len(s)
    BY <1>1, EmptySeq
  <2> QED
    BY <1>1, <2>1 DEF ToSet
<1> QED
  BY <1>1, <1>2, <1>3, <1>4 DEF ToSet

(* The message takes the place of the thread that owes it.                 *)
LEMMA SendULLosesNone ==
  ASSUME IInv, NEW w \in Workers, SendUL(w)
  PROVE  NoUnitLost' /\ SentByOne'
<1>1. UnitsFollow
  BY DEF IInv
<1>2. PICK u \in sending[w].to :
        /\ sending' = [sending EXCEPT ![w].to = @ \ {u}]
        /\ \/ /\ network' = [network EXCEPT ![w][u] = Append(@, sending[w].lit)]
              /\ UNCHANGED received
           \/ /\ received[u] = None
              /\ received' = [received EXCEPT ![u] = sending[w].lit]
              /\ UNCHANGED network
  BY <1>1, SendULStep
<1>3. /\ u \in Workers /\ sending[w].lit \in Known
      /\ network[w] \in [Workers -> Seq(Known)] /\ network[w][u] \in Seq(Known)
      /\ UNCHANGED <<unitLit, holder>>
  BY <1>1, <1>2 DEF UnitsFollow, SendUL
<1>4. /\ sending'[w].lit = sending[w].lit /\ sending'[w].to = sending[w].to \ {u}
      /\ \A f \in Workers \ {w} : sending'[f] = sending[f]
  BY <1>1, <1>2 DEF UnitsFollow
<1>5. \A f \in Workers, x \in Workers : ToSet(network[f][x]) \subseteq ToSet(network'[f][x])
  <2> SUFFICES ASSUME NEW f \in Workers, NEW x \in Workers
               PROVE  ToSet(network[f][x]) \subseteq ToSet(network'[f][x])
    OBVIOUS
  <2>1. CASE network'[f][x] = network[f][x]
    BY <2>1
  <2>2. CASE f = w /\ x = u /\ network'[w][u] = Append(network[w][u], sending[w].lit)
    <3>1. ToSet(network[w][u]) \subseteq ToSet(Append(network[w][u], sending[w].lit))
      BY <1>3, AppendToSet
    <3> QED
      BY <2>2, <3>1
  <2>3. CASE network' = [network EXCEPT ![w][u] = Append(@, sending[w].lit)]
    <3>1. network'[w] = [network[w] EXCEPT ![u] = Append(@, sending[w].lit)]
      BY <1>1, <2>3 DEF UnitsFollow
    <3>2. f # w => network'[f] = network[f]
      BY <1>1, <2>3 DEF UnitsFollow
    <3> QED
      BY <1>3, <2>1, <2>2, <3>1, <3>2
  <2> QED
    BY <1>2, <2>1, <2>3
<1>5a. \A f \in Workers, x \in Workers :
         ToSet(network'[f][x]) \subseteq
           ToSet(network[f][x]) \cup (IF x = u THEN {sending[w].lit} ELSE {})
  <2> SUFFICES ASSUME NEW f \in Workers, NEW x \in Workers
               PROVE  ToSet(network'[f][x]) \subseteq
                        ToSet(network[f][x]) \cup (IF x = u THEN {sending[w].lit} ELSE {})
    OBVIOUS
  <2>1. CASE network'[f][x] = network[f][x]
    BY <2>1
  <2>2. CASE f = w /\ x = u /\ network'[w][u] = Append(network[w][u], sending[w].lit)
    BY <1>3, <2>2, AppendToSet
  <2>3. CASE network' = [network EXCEPT ![w][u] = Append(@, sending[w].lit)]
    <3>1. network'[w] = [network[w] EXCEPT ![u] = Append(@, sending[w].lit)]
      BY <1>1, <2>3 DEF UnitsFollow
    <3>2. f # w => network'[f] = network[f]
      BY <1>1, <2>3 DEF UnitsFollow
    <3> QED
      BY <1>3, <2>1, <2>2, <3>1, <3>2
  <2> QED
    BY <1>2, <2>1, <2>3
<1>6. ASSUME NEW v \in Vars, Var(sending[w].lit) = v PROVE OnItsWay(v, u)'
  <2>1. sending[w].lit \in {v, -v}
    BY <1>1, <1>3, <1>6, LiteralFacts
  <2>2. CASE network' = [network EXCEPT ![w][u] = Append(@, sending[w].lit)]
    <3>1. network'[w][u] = Append(network[w][u], sending[w].lit)
      BY <1>1, <1>3, <2>2 DEF UnitsFollow
    <3>2. sending[w].lit \in ToSet(Append(network[w][u], sending[w].lit))
      BY <1>3, AppendToSet
    <3> QED
      BY <2>1, <3>1, <3>2 DEF OnItsWay
  <2>3. CASE received' = [received EXCEPT ![u] = sending[w].lit]
    <3>1. received'[u] = sending[w].lit
      BY <1>1, <1>3, <2>3 DEF UnitsFollow
    <3> QED
      BY <2>1, <3>1 DEF OnItsWay
  <2> QED
    BY <1>2, <2>2, <2>3
<1>7. ASSUME NEW v \in Vars, NEW x \in Workers, OnItsWay(v, x) PROVE OnItsWay(v, x)'
  <2>1. CASE received[x] \in {v, -v}
    <3>1. received[x] # None
      BY <2>1 DEF Vars, None
    <3>2. received'[x] = received[x]
      BY <1>1, <1>2, <1>3, <3>1 DEF UnitsFollow
    <3> QED
      BY <2>1, <3>2 DEF OnItsWay
  <2>2. ASSUME NEW f \in Workers, {v, -v} \cap ToSet(network[f][x]) # {}
        PROVE  OnItsWay(v, x)'
    BY <1>5, <2>2 DEF OnItsWay
  <2>3. ASSUME NEW f \in Workers, holder[f] # None, Var(sending[f].lit) = v, x \in sending[f].to
        PROVE  OnItsWay(v, x)'
    <3>1. CASE f = w /\ x = u
      BY <1>6, <2>3, <3>1
    <3>2. CASE f # w \/ x # u
      <4>1. holder'[f] # None /\ Var(sending'[f].lit) = v /\ x \in sending'[f].to
        BY <1>3, <1>4, <2>3, <3>2
      <4> QED
        BY <4>1 DEF OnItsWay
    <3> QED
      BY <3>1, <3>2
  <2> QED
    BY <1>7, <2>1, <2>2, <2>3 DEF OnItsWay
<1>8. \A x \in Workers, v \in Vars : IsUnary(x, v)' <=> IsUnary(x, v)
  BY <1>3 DEF IsUnary
<1>9. ASSUME NEW v \in Vars, NEW x \in Workers, OnItsWay(v, x)' PROVE OnItsWay(v, x)
  <2>1. CASE sending[w].lit \in {v, -v} /\ x = u
    <3>1. Var(sending[w].lit) = v
      BY <1>1, <1>3, <2>1, LiteralFacts
    <3> QED
      BY <2>1, <3>1 DEF OnItsWay, SendUL
  <2>2. CASE ~(sending[w].lit \in {v, -v} /\ x = u)
    <3>1. CASE received'[x] \in {v, -v}
      <4>1. received'[x] = received[x]
        BY <1>1, <1>2, <1>3, <2>2, <3>1 DEF UnitsFollow
      <4> QED
        BY <3>1, <4>1 DEF OnItsWay
    <3>2. ASSUME NEW f \in Workers, {v, -v} \cap ToSet(network'[f][x]) # {}
          PROVE  OnItsWay(v, x)
      <4>1. {v, -v} \cap ToSet(network[f][x]) # {}
        BY <1>5a, <2>2, <3>2
      <4> QED
        BY <4>1 DEF OnItsWay
    <3>3. ASSUME NEW f \in Workers, holder'[f] # None, Var(sending'[f].lit) = v, x \in sending'[f].to
          PROVE  OnItsWay(v, x)
      BY <1>3, <1>4, <3>3 DEF OnItsWay
    <3> QED
      BY <1>9, <3>1, <3>2, <3>3 DEF OnItsWay
  <2> QED
    BY <2>1, <2>2
<1> QED
  BY <1>7, <1>8, <1>9 DEF IInv, NoUnitLost, SentByOne

(* Unlock, when nobody is left to send to.                                 *)
LEMMA UnlockLosesNone ==
  ASSUME IInv, NEW w \in Workers, Unlock(w)
  PROVE  NoUnitLost' /\ SentByOne'
<1>1. UnitsFollow /\ sending[w].to = {} /\ UNCHANGED <<unitLit, network, received>>
  BY DEF IInv, Unlock
<1>2. \A f \in Workers \ {w} : holder'[f] = holder[f] /\ sending'[f] = sending[f]
  BY <1>1 DEF UnitsFollow, Unlock
<1>3. ASSUME NEW v \in Vars, NEW u \in Workers, OnItsWay(v, u) PROVE OnItsWay(v, u)'
  BY <1>1, <1>2, <1>3 DEF OnItsWay
<1>4. \A x \in Workers, v \in Vars : IsUnary(x, v)' <=> IsUnary(x, v)
  BY <1>1 DEF IsUnary
<1>5. ASSUME NEW v \in Vars, NEW u \in Workers, OnItsWay(v, u)' PROVE OnItsWay(v, u)
  <2>1. holder'[w] = None
    BY <1>1 DEF UnitsFollow, Unlock
  <2> QED
    BY <1>1, <1>2, <1>5, <2>1 DEF OnItsWay
<1> QED
  BY <1>3, <1>4, <1>5 DEF IInv, NoUnitLost, SentByOne

(* The message goes from the network to the listener.                      *)
LEMMA ReceiveLosesNone ==
  ASSUME IInv, NEW w \in Workers, NEW f \in Workers, Receive(w, f)
  PROVE  NoUnitLost' /\ SentByOne'
<1>1. /\ UnitsFollow /\ received[w] = None /\ UNCHANGED <<unitLit, holder, sending>>
      /\ network[f][w] # <<>> /\ network[f][w] \in Seq(Known)
  BY DEF IInv, Receive, UnitsFollow
<1>2. received'[w] = Head(network[f][w]) /\ \A x \in Workers \ {w} : received'[x] = received[x]
  BY <1>1 DEF UnitsFollow, Receive
<1>3. \A g \in Workers, x \in Workers :
        /\ ToSet(network'[g][x]) \subseteq ToSet(network[g][x])
        /\ \/ ToSet(network[g][x]) = ToSet(network'[g][x])
           \/ x = w /\ ToSet(network[g][x]) = ToSet(network'[g][x]) \cup {received'[w]}
  <2> SUFFICES ASSUME NEW g \in Workers, NEW x \in Workers
               PROVE  /\ ToSet(network'[g][x]) \subseteq ToSet(network[g][x])
                      /\ \/ ToSet(network[g][x]) = ToSet(network'[g][x])
                         \/ x = w /\ ToSet(network[g][x]) = ToSet(network'[g][x]) \cup {received'[w]}
    OBVIOUS
  <2>1. /\ network'[f] = [network[f] EXCEPT ![w] = Tail(@)]
        /\ g # f => network'[g] = network[g]
        /\ network[f] \in [Workers -> Seq(Known)]
    BY <1>1 DEF UnitsFollow, Receive
  <2>2. CASE g = f /\ x = w
    <3>1. network'[f][w] = Tail(network[f][w])
      BY <2>1
    <3> QED
      BY <1>1, <1>2, <2>2, <3>1, TailToSet
  <2>3. CASE ~(g = f /\ x = w)
    BY <2>1, <2>3
  <2> QED
    BY <2>2, <2>3
<1>4. ASSUME NEW v \in Vars, NEW u \in Workers, OnItsWay(v, u) PROVE OnItsWay(v, u)'
  <2>1. CASE received[u] \in {v, -v}
    <3>1. u # w
      BY <1>1, <2>1 DEF Vars, None
    <3> QED
      BY <1>2, <2>1, <3>1 DEF OnItsWay
  <2>2. ASSUME NEW g \in Workers, {v, -v} \cap ToSet(network[g][u]) # {}
        PROVE  OnItsWay(v, u)'
    <3>1. CASE ToSet(network[g][u]) = ToSet(network'[g][u])
      BY <2>2, <3>1 DEF OnItsWay
    <3>2. CASE u = w /\ received'[w] \in {v, -v}
      BY <3>2 DEF OnItsWay
    <3>3. CASE u = w /\ ToSet(network[g][u]) = ToSet(network'[g][u]) \cup {received'[w]}
               /\ received'[w] \notin {v, -v}
      BY <2>2, <3>3 DEF OnItsWay
    <3> QED
      BY <1>3, <3>1, <3>2, <3>3
  <2>3. ASSUME NEW g \in Workers, holder[g] # None, Var(sending[g].lit) = v, u \in sending[g].to
        PROVE  OnItsWay(v, u)'
    BY <1>1, <2>3 DEF OnItsWay
  <2> QED
    BY <1>4, <2>1, <2>2, <2>3 DEF OnItsWay
<1>5. \A x \in Workers, v \in Vars : IsUnary(x, v)' <=> IsUnary(x, v)
  BY <1>1 DEF IsUnary
<1>6. ASSUME NEW v \in Vars, NEW u \in Workers, OnItsWay(v, u)' PROVE OnItsWay(v, u)
  <2>1. CASE received'[u] \in {v, -v} /\ u = w
    <3>1. received'[w] \in ToSet(network[f][w])
      BY <1>1, <1>2, TailToSet
    <3> QED
      BY <2>1, <3>1 DEF OnItsWay
  <2>2. CASE received'[u] \in {v, -v} /\ u # w
    BY <1>2, <2>2 DEF OnItsWay
  <2>3. ASSUME NEW g \in Workers, {v, -v} \cap ToSet(network'[g][u]) # {}
        PROVE  OnItsWay(v, u)
    BY <1>3, <2>3 DEF OnItsWay
  <2>4. ASSUME NEW g \in Workers, holder'[g] # None, Var(sending'[g].lit) = v, u \in sending'[g].to
        PROVE  OnItsWay(v, u)
    BY <1>1, <2>4 DEF OnItsWay
  <2> QED
    BY <1>6, <2>1, <2>2, <2>3, <2>4 DEF OnItsWay
<1> QED
  BY <1>4, <1>5, <1>6 DEF IInv, NoUnitLost, SentByOne

(* The listener puts the unit on the list, or one of its variable is there *)
(* already; nobody else knows more than before.                            *)
LEMMA AddLearntKeeps ==
  ASSUME IInv, NEW w \in Workers, AddLearntHightLevel(w)
  PROVE  ListedOnce' /\ FixedIsListed' /\ PassedIsFixed' /\ NoUnitLost' /\ SentByOne'
<1>1. PICK l : l = received[w]
  OBVIOUS
<1>2. /\ UnitsFollow /\ l \in formula /\ received' = [received EXCEPT ![w] = None]
      /\ UNCHANGED <<formula, nextUnit, level0, holder, sending, network>>
      /\ \/ IsUnary(w, Var(l)) /\ UNCHANGED unitLit
         \/ ~IsUnary(w, Var(l)) /\ unitLit' = [unitLit EXCEPT ![w] = Append(@, l)]
  BY <1>1 DEF IInv, UnitsFollow, AddLearntHightLevel, Known
<1>3. \A x \in Workers : \A v : IsUnary(x, v)' <=> IsUnary(x, v) \/ (x = w /\ v = Var(l))
  <2>1. CASE IsUnary(w, Var(l)) /\ UNCHANGED unitLit
    BY <2>1 DEF IsUnary
  <2>2. CASE ~IsUnary(w, Var(l)) /\ unitLit' = [unitLit EXCEPT ![w] = Append(@, l)]
    BY <1>2, <2>2, Listing
  <2> QED
    BY <1>2, <2>1, <2>2
<1>4. /\ ListedOnce'
      /\ \A x \in Workers : \A y \in Threads(x) : \A i \in 1..nextUnit[x][y] :
           unitLit'[x][i] = unitLit[x][i]
  BY <1>2, ListingKeeps DEF IInv, ListedOnce
<1>5. \A x \in Workers : \A y \in Threads(x) : \A v : Assigned(x, y, v)' <=> Assigned(x, y, v)
  BY <1>2 DEF Assigned
<1>6. FixedIsListed'
  BY <1>3, <1>5 DEF IInv, FixedIsListed
<1>7. PassedIsFixed'
  <2> SUFFICES ASSUME NEW x \in Workers, NEW y \in Threads(x), NEW i \in 1..nextUnit[x][y]
               PROVE  Assigned(x, y, Var(unitLit[x][i]))'
    BY <1>2 DEF PassedIsFixed
  <2>1. PICK v : v = Var(unitLit[x][i]) /\ Assigned(x, y, v)
    BY DEF IInv, PassedIsFixed
  <2>2. Assigned(x, y, v)' /\ v = Var(unitLit'[x][i])
    BY <1>4, <1>5, <2>1
  <2> QED
    BY <2>2
<1>8. NoUnitLost' /\ SentByOne'
  <2>1. received'[w] = None /\ \A x \in Workers \ {w} : received'[x] = received[x]
    BY <1>2 DEF UnitsFollow
  <2>2. ASSUME NEW v \in Vars, NEW u \in Workers, OnItsWay(v, u)
        PROVE  OnItsWay(v, u)' \/ (u = w /\ v = Var(l))
    <3>1. CASE received[u] \in {v, -v} /\ u = w
      BY <1>1, <1>2, <3>1, LiteralFacts
    <3>2. CASE received[u] \in {v, -v} /\ u # w
      BY <2>1, <3>2 DEF OnItsWay
    <3>3. CASE received[u] \notin {v, -v}
      BY <1>2, <2>2, <3>3 DEF OnItsWay
    <3> QED
      BY <3>1, <3>2, <3>3
  <2>3. Var(l) \in Vars => \E f \in Workers : IsUnary(f, Var(l))
    <3> HAVE Var(l) \in Vars
    <3>1. l \in {Var(l), -Var(l)}
      BY <1>2, LiteralFacts
    <3>2. OnItsWay(Var(l), w)
      BY <1>1, <3>1 DEF OnItsWay
    <3> QED
      BY <3>2 DEF IInv, SentByOne
  <2>4. NoUnitLost'
    <3> SUFFICES ASSUME NEW x \in Workers, NEW u \in Workers, NEW v \in Vars, IsUnary(x, v)'
                 PROVE  IsUnary(u, v)' \/ OnItsWay(v, u)'
      BY DEF NoUnitLost
    <3>1. PICK f \in Workers : IsUnary(f, v)
      BY <1>3, <2>3
    <3>2. IsUnary(u, v) \/ OnItsWay(v, u)
      BY <3>1 DEF IInv, NoUnitLost
    <3> QED
      BY <1>3, <2>2, <3>2
  <2>5. ASSUME NEW v \in Vars, NEW u \in Workers, OnItsWay(v, u)' PROVE OnItsWay(v, u)
    <3>1. CASE received'[u] \in {v, -v}
      <4>1. received'[u] = received[u]
        BY <2>1, <3>1 DEF Vars, None
      <4> QED
        BY <3>1, <4>1 DEF OnItsWay
    <3>2. CASE received'[u] \notin {v, -v}
      BY <1>2, <2>5, <3>2 DEF OnItsWay
    <3> QED
      BY <3>1, <3>2
  <2>6. SentByOne'
    BY <1>3, <2>5 DEF IInv, SentByOne
  <2> QED
    BY <2>4, <2>6
<1> QED
  BY <1>4, <1>6, <1>7, <1>8

-----------------------------------------------------------------------------
LEMMA InitIInv == Init => IInv
<1> SUFFICES ASSUME Init PROVE IInv
  OBVIOUS
<1>1. UnitsFollow
  BY InitFollows
<1>2. \A w \in Workers : DOMAIN unitLit[w] = {}
  BY DEF Init
<1>3. ListedOnce /\ NoUnitLost
  BY <1>2 DEF ListedOnce, NoUnitLost, IsUnary
<1>4. \A w \in Workers : \A t \in Threads(w) : level0[w][t] = {} /\ nextUnit[w][t] = 0
  BY DEF Init
<1>5. FixedIsListed /\ PassedIsFixed /\ FixedOneWay
  BY <1>4 DEF FixedIsListed, PassedIsFixed, FixedOneWay, Assigned
<1>6. \A u \in Workers, v \in Vars : ~OnItsWay(v, u)
  <2>1. \A f, u \in Workers : ToSet(network[f][u]) = {}
    BY DEF Init, ToSet
  <2>2. \A u \in Workers : received[u] = None /\ holder[u] = None
    BY DEF Init
  <2> QED
    BY <2>1, <2>2 DEF OnItsWay, Vars, None
<1> QED
  BY <1>1, <1>3, <1>5, <1>6 DEF IInv, SentByOne

(* Steps that leave the lists and what is fixed alone.                     *)
LEMMA QuietKeeps ==
  ASSUME IInv, UNCHANGED <<unitLit, nextUnit, level0>>
  PROVE  ListedOnce' /\ FixedIsListed' /\ PassedIsFixed' /\ FixedOneWay'
BY DEF IInv, ListedOnce, FixedIsListed, PassedIsFixed, FixedOneWay, IsUnary, Assigned

LEMMA NextIInv == IInv /\ [Next]_vars => IInv'
<1> SUFFICES ASSUME IInv, [Next]_vars PROVE IInv'
  OBVIOUS
<1>1. UnitsFollow'
  BY NextFollows DEF IInv
<1>2. ASSUME NEW w \in Workers, NEW t \in Threads(w), Learn(w, t) PROVE IInv'
  BY <1>1, <1>2, LearnKeeps, LearnLosesNone DEF IInv
<1>3. ASSUME NEW w \in Workers, NEW t \in Threads(w), Import(w, t) PROVE IInv'
  BY <1>1, <1>3, ImportKeeps DEF IInv
<1>4. ASSUME NEW w \in Workers, SendUL(w) PROVE IInv'
  <2>1. UNCHANGED <<unitLit, nextUnit, level0>>
    BY <1>4 DEF SendUL
  <2> QED
    BY <1>1, <1>4, <2>1, QuietKeeps, SendULLosesNone DEF IInv
<1>5. ASSUME NEW w \in Workers, Unlock(w) PROVE IInv'
  <2>1. UNCHANGED <<unitLit, nextUnit, level0>>
    BY <1>5 DEF Unlock
  <2> QED
    BY <1>1, <1>5, <2>1, QuietKeeps, UnlockLosesNone DEF IInv
<1>6. ASSUME NEW w \in Workers, NEW f \in Workers, Receive(w, f) PROVE IInv'
  <2>1. UNCHANGED <<unitLit, nextUnit, level0>>
    BY <1>6 DEF Receive
  <2> QED
    BY <1>1, <1>6, <2>1, QuietKeeps, ReceiveLosesNone DEF IInv
<1>7. ASSUME NEW w \in Workers, AddLearntHightLevel(w) PROVE IInv'
  <2>1. FixedOneWay'
    BY <1>7 DEF IInv, FixedOneWay, AddLearntHightLevel
  <2> QED
    BY <1>1, <1>7, <2>1, AddLearntKeeps DEF IInv
<1>8. CASE UNCHANGED vars
  <2>1. \A x \in Workers, v \in Vars : IsUnary(x, v)' <=> IsUnary(x, v)
    BY <1>8 DEF IsUnary, vars
  <2>2. \A x \in Workers, v \in Vars : OnItsWay(v, x)' <=> OnItsWay(v, x)
    BY <1>8 DEF OnItsWay, vars
  <2>3. NoUnitLost' /\ SentByOne'
    BY <2>1, <2>2 DEF IInv, NoUnitLost, SentByOne
  <2> QED
    BY <1>1, <1>8, <2>3, QuietKeeps DEF IInv, vars
<1> QED
  BY <1>2, <1>3, <1>4, <1>5, <1>6, <1>7, <1>8 DEF Next, Listen

LEMMA InductiveInvariant == Spec => []IInv
BY InitIInv, NextIInv, PTL DEF Spec

(* Lists, cursors, levels, messages and the mutex keep their types; what   *)
(* is on them is a literal of the formula's variables.                     *)
THEOREM TypeCorrect == Spec => []TypeOK
BY InductiveInvariant, FollowsTypeOK, PTL DEF IInv

(* A worker knows no variable that another one neither knows nor will hear *)
(* of: sendUL and addLearntHightLevel lose no unit.                        *)
THEOREM NoUnitLostHolds == Spec => []NoUnitLost
BY InductiveInvariant, PTL DEF IInv

(* Whatever a thread has fixed at level 0 follows from the formula; it has *)
(* fixed no variable both ways, although units of both signs may cross.    *)
THEOREM LevelZeroIsSound ==
  Spec => [](/\ \A w \in Workers : \A t \in Threads(w) : level0[w][t] \subseteq formula
             /\ FixedOneWay)
<1>1. IInv => /\ \A w \in Workers : \A t \in Threads(w) : level0[w][t] \subseteq formula
              /\ FixedOneWay
  BY DEF IInv, UnitsFollow
<1> QED
  BY <1>1, InductiveInvariant, PTL

(* What one thread has fixed, every worker has on its list or will hear    *)
(* of; and a thread that has read its list to the end has fixed all of it. *)
FixedIsShared ==
  \A w, u \in Workers : \A t \in Threads(w), v \in Vars :
    Assigned(w, t, v) => IsUnary(u, v) \/ OnItsWay(v, u)

THEOREM FixedIsSharedHolds == Spec => [](FixedIsShared /\ PassedIsFixed)
<1>1. IInv => FixedIsShared /\ PassedIsFixed
  BY DEF IInv, FixedIsListed, NoUnitLost, FixedIsShared
<1> QED
  BY <1>1, InductiveInvariant, PTL
==============================================================================
