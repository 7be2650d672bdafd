--------------------------- MODULE ActionTasksProofs ---------------------------
(***************************************************************************)
(* What the two operations on the resend list do, for lists of any length.  *)
(***************************************************************************)
EXTENDS ActionTasks, SequenceTheorems, WellFoundedInduction, TLAPS

(* A non-empty set of naturals has the minimum FiniteSetsExt!Min chooses.   *)
LEMMA MinOfNaturals ==
  ASSUME NEW S \in SUBSET Nat, S # {}
  PROVE  Min(S) \in S /\ \A y \in S : Min(S) <= y
<1> DEFINE R == OpToRel(<, Nat)
<1>1. \A x, y \in Nat : <<y, x>> \in R <=> y < x
  BY SMT DEF OpToRel
<1>2. IsWellFoundedOn(R, Nat)
  BY NatLessThanWellFounded
<1> HIDE DEF R
<1>3. PICK x \in S : \A y \in S : ~ (<<y, x>> \in R)
  BY <1>2, WFMin, Zenon
<1>4. ASSUME NEW y \in S
      PROVE  x <= y
  <2>1. x \in Nat /\ y \in Nat
    OBVIOUS
  <2>2. ~ (y < x)
    BY <1>1, <1>3, <2>1, Zenon
  <2> QED
    BY <2>1, <2>2
<1> QED
  BY <1>4 DEF Min

(* apiRemoveTask erases exactly one task, the first with that key, and      *)
(* keeps the order of the others; without such a task the list is as it was.*)
THEOREM RemoveTaskEffect ==
  ASSUME NEW T, NEW tasks \in Seq(T), NEW key
  PROVE  LET rest == RemoveTask(tasks, key) IN
         \/ /\ \A i \in DOMAIN tasks : tasks[i].key # key
            /\ rest = tasks
         \/ \E k \in DOMAIN tasks :
              /\ tasks[k].key = key
              /\ \A i \in 1..(k-1) : tasks[i].key # key
              /\ rest \in Seq(T) /\ Len(rest) = Len(tasks) - 1
              /\ \A i \in DOMAIN rest : rest[i] = tasks[IF i < k THEN i ELSE i + 1]
<1> DEFINE I == {i \in 1..Len(tasks) : tasks[i].key = key}
<1>1. CASE I = {}
  <2>1. \A i \in 1..Len(tasks) : ~ tasks[i].key = key
    BY <1>1
  <2>2. RemoveTask(tasks, key) = tasks
    BY <2>1 DEF RemoveTask, RemoveFirstMatch
  <2> QED
    BY <2>1, <2>2, LenProperties
<1>2. CASE I # {}
  <2> DEFINE k == Min(I)
  <2>1. k \in 1..Len(tasks) /\ tasks[k].key = key /\ \A i \in I : k <= i
    <3>1. I \in SUBSET Nat
      OBVIOUS
    <3>2. k \in I /\ \A i \in I : k <= i
      BY <1>2, <3>1, MinOfNaturals
    <3> QED
      BY <3>2
  <2>2. RemoveTask(tasks, key) = SubSeq(tasks, 1, k-1) \o SubSeq(tasks, k+1, Len(tasks))
    BY <1>2 DEF RemoveTask, RemoveFirstMatch, SelectInSeq, RemoveAt
  <2> DEFINE front == SubSeq(tasks, 1, k-1)
             back  == SubSeq(tasks, k+1, Len(tasks))
             rest  == front \o back
  <2> HIDE DEF k
  <2>3. front \in Seq(T) /\ Len(front) = k-1 /\ \A i \in 1..(k-1) : front[i] = tasks[i]
    BY <2>1, SubSeqProperties, ElementOfSeq
  <2>4. /\ back \in Seq(T) /\ Len(back) = Len(tasks) - k
        /\ \A i \in 1..(Len(tasks)-k) : back[i] = tasks[k+i]
    BY <2>1, SubSeqProperties, ElementOfSeq
  <2>5. /\ k \in Nat \ {0} /\ Len(tasks) \in Nat /\ k <= Len(tasks)
        /\ DOMAIN tasks = 1..Len(tasks)
    BY <2>1, LenProperties
  <2> HIDE DEF front, back
  <2>6. /\ rest \in Seq(T) /\ Len(rest) = Len(front) + Len(back)
        /\ \A i \in 1..(Len(front) + Len(back)) :
             rest[i] = IF i <= Len(front) THEN front[i] ELSE back[i - Len(front)]
    BY <2>3, <2>4, ConcatProperties
  <2> HIDE DEF rest
  <2>7. Len(rest) = Len(tasks) - 1 /\ DOMAIN rest = 1..(Len(tasks)-1)
    BY <2>3, <2>4, <2>5, <2>6, LenProperties
  <2>8. ASSUME NEW i \in DOMAIN rest
        PROVE  rest[i] = tasks[IF i < k THEN i ELSE i + 1]
    <3>1. CASE i < k
      <4>1. i \in 1..(k-1) /\ i <= Len(front) /\ i \in 1..(Len(front) + Len(back))
        BY <2>3, <2>4, <2>5, <2>7, <3>1
      <4> QED
        BY <2>3, <2>6, <3>1, <4>1
    <3>2. CASE ~ (i < k)
      <4>1. i - (k-1) \in 1..(Len(tasks)-k) /\ k + (i - (k-1)) = i + 1 /\ ~ (i <= k-1)
        BY <2>5, <2>7, <3>2
      <4> QED
        BY <2>3, <2>4, <2>5, <2>6, <2>7, <3>2, <4>1
    <3> QED
      BY <3>1, <3>2
  <2>9. \A i \in 1..(k-1) : tasks[i].key # key
    BY <2>1, <2>5
  <2>10. RemoveTask(tasks, key) = rest
    BY <2>2 DEF rest, front, back
  <2> QED
    BY <2>1, <2>5, <2>6, <2>7, <2>8, <2>9, <2>10
<1> QED
  BY <1>1, <1>2
================================================================================
