--------------------------- MODULE QueueTheorems ---------------------------
(***************************************************************************)
(* Facts about the queues of the kernel (lib/kernel/list.c used as a FIFO  *)
(* or as an ordered list), which the proofs about the scheduler and about  *)
(* semaphores share.  The kernel's lists are intrusive: an element is in a *)
(* list at most once, so a queue is described by the set it holds.         *)
(***************************************************************************)
EXTENDS Integers, SequencesExt, SequenceTheorems, WellFoundedInduction, TLAPS

(* The queue q holds the members of S, each once.                            *)
Queues(q, S) == IsInjective(q) /\ ToSet(q) = S

(* Loops that search a list from the front find the first match.             *)
LEMMA LeastNat ==
    ASSUME NEW S, S \subseteq Nat, S # {}
    PROVE  \E m \in S : \A k \in S : m <= k
<1>1. IsWellFoundedOn(OpToRel(<, Nat), Nat)
  BY NatLessThanWellFounded
<1>2. PICK m \in S : \A y \in S : ~ (<<y, m>> \in OpToRel(<, Nat))
  BY <1>1, WFMin
<1>3. ASSUME NEW y \in S PROVE ~(y < m)
  BY <1>2 DEF OpToRel
<1> QED BY <1>3

(* Membership and injectivity by index.                                      *)
LEMMA ToSetByIndex ==
    ASSUME NEW T, NEW q \in Seq(T)
    PROVE  \A x : x \in ToSet(q) <=> \E i \in 1 .. Len(q) : q[i] = x
BY LenProperties DEF ToSet

(* A sequence without repetition, position by position.                      *)
LEMMA InjectiveByIndex ==
    ASSUME NEW T, NEW q \in Seq(T)
    PROVE  IsInjective(q) <=>
             \A i, j \in 1 .. Len(q) : q[i] = q[j] => i = j
BY LenProperties DEF IsInjective

(* A sequence of members of T holds members of T.                            *)
LEMMA ToSetSubset ==
    ASSUME NEW T, NEW q \in Seq(T)
    PROVE  ToSet(q) \subseteq T
<1>1. ASSUME NEW i \in 1 .. Len(q) PROVE q[i] \in T
  BY ElementOfSeq
<1> QED BY <1>1, ToSetByIndex

(* An empty queue holds nothing, and one that holds nothing is empty.        *)
LEMMA QueuesEmpty ==
    ASSUME NEW T, NEW q \in Seq(T), NEW S, Queues(q, S)
    PROVE  q = <<>> <=> S = {}
<1>1. ASSUME q = <<>>, NEW x \in S PROVE FALSE
  <2>1. PICK i \in 1 .. Len(q) : q[i] = x
    BY ToSetByIndex DEF Queues
  <2>2. Len(q) = 0
    BY <1>1
  <2> QED BY <2>1, <2>2
<1>2. ASSUME q # <<>> PROVE q[1] \in S
  BY <1>2, ToSetByIndex, EmptySeq, LenProperties DEF Queues
<1> QED BY <1>1, <1>2

(* list_push_back() of a new element.                                        *)
LEMMA QueuesAppend ==
    ASSUME NEW T, NEW q \in Seq(T), NEW a \in T, NEW S,
           Queues(q, S), a \notin S
    PROVE  /\ Append(q, a) \in Seq(T)
           /\ Queues(Append(q, a), S \cup {a})
<1> DEFINE r == Append(q, a)
<1>1. /\ r \in Seq(T)
      /\ Len(r) = Len(q) + 1
      /\ \A i \in 1 .. Len(q) : r[i] = q[i]
      /\ r[Len(q) + 1] = a
  BY AppendProperties
<1>2. Len(q) \in Nat
  BY LenProperties
<1> HIDE DEF r
<1>3. \A i \in 1 .. Len(q) : q[i] # a
  BY ToSetByIndex DEF Queues
<1>4. \A i, j \in 1 .. Len(r) : r[i] = r[j] => i = j
  <2>1. \A i, j \in 1 .. Len(q) : q[i] = q[j] => i = j
    BY InjectiveByIndex DEF Queues
  <2> QED BY <1>1, <1>2, <1>3, <2>1
<1>5. ASSUME NEW x PROVE x \in ToSet(r) <=> x \in S \cup {a}
  <2>1. (\E i \in 1 .. Len(r) : r[i] = x) <=> x = a \/ \E i \in 1 .. Len(q) : q[i] = x
    BY <1>1, <1>2
  <2> QED BY <1>1, <2>1, ToSetByIndex DEF Queues
<1>6. IsInjective(r) /\ ToSet(r) = S \cup {a}
  BY <1>1, <1>4, <1>5, InjectiveByIndex
<1> QED BY <1>1, <1>6 DEF r, Queues

(* list_pop_front().                                                         *)
LEMMA QueuesPop ==
    ASSUME NEW T, NEW q \in Seq(T), NEW S, Queues(q, S), q # <<>>
    PROVE  /\ Head(q) \in T
           /\ Head(q) \in S
           /\ Tail(q) \in Seq(T)
           /\ Queues(Tail(q), S \ {Head(q)})
<1> DEFINE r == Tail(q)
           h == Head(q)
<1>1. /\ h \in T
      /\ r \in Seq(T)
      /\ Len(r) = Len(q) - 1
      /\ \A i \in 1 .. Len(r) : r[i] = q[i + 1]
  BY HeadTailProperties
<1>2. Len(q) \in Nat \ {0}
  BY LenProperties, EmptySeq
<1>3. h = q[1]
  BY <1>2
<1> HIDE DEF r, h
<1>4. \A i, j \in 1 .. Len(q) : q[i] = q[j] => i = j
  BY InjectiveByIndex DEF Queues
<1>5. \A i, j \in 1 .. Len(r) : r[i] = r[j] => i = j
  BY <1>1, <1>2, <1>4
<1>6. ASSUME NEW x PROVE x \in ToSet(r) <=> x \in S /\ x # h
  <2>1. ASSUME NEW i \in 1 .. Len(r), r[i] = x PROVE x # h /\ \E j \in 1 .. Len(q) : q[j] = x
    <3>1. i + 1 \in 1 .. Len(q) /\ 1 \in 1 .. Len(q) /\ i + 1 # 1 /\ q[i + 1] = x
      BY <1>1, <1>2, <2>1
    <3> QED BY <3>1, <1>3, <1>4
  <2>2. ASSUME NEW j \in 1 .. Len(q), q[j] = x, x # h PROVE \E i \in 1 .. Len(r) : r[i] = x
    <3>1. j # 1
      BY <2>2, <1>3
    <3>2. j - 1 \in 1 .. Len(r) /\ r[j - 1] = q[(j - 1) + 1] /\ (j - 1) + 1 = j
      BY <1>1, <1>2, <3>1
    <3> QED BY <3>2, <2>2
  <2> QED BY <1>1, <2>1, <2>2, ToSetByIndex DEF Queues
<1>7. IsInjective(r) /\ ToSet(r) = S \ {h}
  BY <1>1, <1>5, <1>6, InjectiveByIndex
<1>8. h \in S
  BY <1>2, <1>3, ToSetByIndex DEF Queues
<1> QED BY <1>1, <1>7, <1>8 DEF r, h, Queues

(* The threads that timer_interrupt() moves from one queue to another.       *)
LEMMA QueuesConcat ==
    ASSUME NEW T, NEW q \in Seq(T), NEW r \in Seq(T), NEW Q, NEW R,
           Queues(q, Q), Queues(r, R), Q \cap R = {}
    PROVE  /\ q \o r \in Seq(T)
           /\ Queues(q \o r, Q \cup R)
<1> DEFINE s == q \o r
           n == Len(q)
           m == Len(r)
<1>1. /\ s \in Seq(T)
      /\ Len(s) = n + m
      /\ \A i \in 1 .. n + m : s[i] = IF i <= n THEN q[i] ELSE r[i - n]
  BY ConcatProperties
<1>2. n \in Nat /\ m \in Nat
  BY LenProperties
<1>3. /\ \A i, j \in 1 .. n : q[i] = q[j] => i = j
      /\ \A i, j \in 1 .. m : r[i] = r[j] => i = j
      /\ \A x : x \in Q <=> \E i \in 1 .. n : q[i] = x
      /\ \A x : x \in R <=> \E i \in 1 .. m : r[i] = x
  BY InjectiveByIndex, ToSetByIndex DEF Queues
<1> HIDE DEF s, n, m
<1>4. \A i \in 1 .. n : s[i] = q[i] /\ i \in 1 .. n + m
  BY <1>1, <1>2
<1>5. \A i \in 1 .. m : s[n + i] = r[i] /\ n + i \in 1 .. n + m
  BY <1>1, <1>2
<1>6. \A i \in 1 .. n + m : \/ i \in 1 .. n
                            \/ i - n \in 1 .. m /\ s[i] = r[i - n]
  BY <1>1, <1>2
<1>7. ASSUME NEW i \in 1 .. Len(s), NEW j \in 1 .. Len(s), s[i] = s[j]
      PROVE  i = j
  <2>1. CASE i \in 1 .. n /\ j \in 1 .. n
    BY <2>1, <1>3, <1>4, <1>7
  <2>2. CASE i \in 1 .. n /\ j \notin 1 .. n
    <3>1. s[i] \in Q /\ s[j] \in R
      BY <2>2, <1>1, <1>3, <1>4, <1>6
    <3> QED BY <3>1, <1>7
  <2>3. CASE i \notin 1 .. n /\ j \in 1 .. n
    <3>1. s[i] \in R /\ s[j] \in Q
      BY <2>3, <1>1, <1>3, <1>4, <1>6
    <3> QED BY <3>1, <1>7
  <2>4. CASE i \notin 1 .. n /\ j \notin 1 .. n
    <3>1. i - n = j - n
      BY <2>4, <1>1, <1>3, <1>6, <1>7
    <3> QED BY <3>1, <1>1, <1>2
  <2> QED BY <2>1, <2>2, <2>3, <2>4
<1>8. ASSUME NEW x PROVE x \in ToSet(s) <=> x \in Q \cup R
  <2>1. ASSUME NEW i \in 1 .. Len(s), s[i] = x PROVE x \in Q \cup R
    BY <2>1, <1>1, <1>3, <1>4, <1>6
  <2>2. ASSUME x \in Q \cup R PROVE \E i \in 1 .. Len(s) : s[i] = x
    BY <2>2, <1>1, <1>3, <1>4, <1>5
  <2> QED BY <1>1, <2>1, <2>2, ToSetByIndex
<1>9. IsInjective(s) /\ ToSet(s) = Q \cup R
  BY <1>1, <1>7, <1>8, InjectiveByIndex
<1> QED BY <1>1, <1>9 DEF s, Queues

(* The queue q of members of T, which holds S, is cut after its k-th element *)
(* into front and back.                                                      *)
Splits(front, back, q, k, T, S) ==
    /\ front \in Seq(T) /\ back \in Seq(T)
    /\ Len(front) = k /\ Len(back) = Len(q) - k
    /\ \A i \in 1 .. k : front[i] = q[i]
    /\ \A i \in 1 .. Len(q) - k : back[i] = q[i + k]
    /\ Queues(front, ToSet(front))
    /\ Queues(back, ToSet(back))
    /\ ToSet(front) \cup ToSet(back) = S
    /\ ToSet(front) \cap ToSet(back) = {}

(* Cutting a queue in two: what the loop of timer_interrupt() pops, and what *)
(* it leaves.                                                                *)
LEMMA QueuesSplit ==
    ASSUME NEW T, NEW q \in Seq(T), NEW S, Queues(q, S), NEW k \in 0 .. Len(q)
    PROVE  Splits(SubSeq(q, 1, k), SubSeq(q, k + 1, Len(q)), q, k, T, S)
<1> DEFINE front == SubSeq(q, 1, k)
           back  == SubSeq(q, k + 1, Len(q))
           n == Len(q)
<1>1. n \in Nat /\ k \in 0 .. n /\ k + 1 \in Int /\ \A i \in 1 .. n : q[i] \in T
  BY LenProperties, ElementOfSeq
<1>2. /\ front \in Seq(T)
      /\ Len(front) = IF 1 <= k THEN k - 1 + 1 ELSE 0
      /\ \A i \in 1 .. k - 1 + 1 : front[i] = q[1 + i - 1]
  <2>1. 1 \in Int /\ k \in Int /\ \A i \in 1 .. k : q[i] \in T
    BY <1>1
  <2> QED BY <2>1, SubSeqProperties
<1>3. /\ back \in Seq(T)
      /\ Len(back) = IF k + 1 <= n THEN n - (k + 1) + 1 ELSE 0
      /\ \A i \in 1 .. n - (k + 1) + 1 : back[i] = q[(k + 1) + i - 1]
  <2>1. k + 1 \in Int /\ n \in Int /\ \A i \in k + 1 .. n : q[i] \in T
    BY <1>1
  <2> QED BY <2>1, SubSeqProperties
<1>4. /\ \A i, j \in 1 .. n : q[i] = q[j] => i = j
      /\ \A x : x \in S <=> \E i \in 1 .. n : q[i] = x
  BY InjectiveByIndex, ToSetByIndex DEF Queues
<1> HIDE DEF front, back, n
<1>5. Len(front) = k /\ \A i \in 1 .. k : front[i] = q[i]
  <2>1. ASSUME NEW i \in 1 .. k PROVE i \in 1 .. k - 1 + 1 /\ 1 + i - 1 = i
    BY <1>1
  <2> QED BY <2>1, <1>1, <1>2
<1>6. Len(back) = n - k /\ \A i \in 1 .. n - k : back[i] = q[i + k]
  <2>1. ASSUME NEW i \in 1 .. n - k
        PROVE  i \in 1 .. n - (k + 1) + 1 /\ (k + 1) + i - 1 = i + k
    BY <1>1
  <2> QED BY <2>1, <1>1, <1>3
<1>7. IsInjective(front)
  <2>1. \A i, j \in 1 .. Len(front) : front[i] = front[j] => i = j
    BY <1>1, <1>4, <1>5
  <2> QED BY <2>1, <1>2, InjectiveByIndex
<1>8. IsInjective(back)
  <2>1. ASSUME NEW i \in 1 .. Len(back), NEW j \in 1 .. Len(back),
               back[i] = back[j]
        PROVE  i = j
    <3>1. i + k \in 1 .. n /\ j + k \in 1 .. n /\ q[i + k] = q[j + k]
      BY <2>1, <1>1, <1>6
    <3>2. i + k = j + k
      BY <3>1, <1>4
    <3> QED BY <3>2, <1>1
  <2> QED BY <2>1, <1>3, InjectiveByIndex
<1>9. ASSUME NEW x
      PROVE  /\ x \in ToSet(front) <=> \E i \in 1 .. k : q[i] = x
             /\ x \in ToSet(back) <=> \E i \in k + 1 .. n : q[i] = x
  <2>1. x \in ToSet(front) <=> \E i \in 1 .. k : q[i] = x
    <3>1. x \in ToSet(front) <=> \E i \in 1 .. Len(front) : front[i] = x
      BY <1>2, ToSetByIndex
    <3> QED BY <3>1, <1>5
  <2>2. x \in ToSet(back) <=> \E i \in 1 .. Len(back) : back[i] = x
    BY <1>3, ToSetByIndex
  <2>3. ASSUME NEW i \in 1 .. Len(back), back[i] = x
        PROVE  \E j \in k + 1 .. n : q[j] = x
    <3>1. i + k \in k + 1 .. n /\ q[i + k] = x
      BY <2>3, <1>1, <1>6
    <3> QED BY <3>1
  <2>4. ASSUME NEW j \in k + 1 .. n, q[j] = x
        PROVE  \E i \in 1 .. Len(back) : back[i] = x
    <3>1. j - k \in 1 .. n - k /\ (j - k) + k = j
      BY <1>1
    <3>2. back[j - k] = x /\ j - k \in 1 .. Len(back)
      BY <3>1, <2>4, <1>6
    <3> QED BY <3>2
  <2> QED BY <2>1, <2>2, <2>3, <2>4
<1>10. ToSet(front) \cup ToSet(back) = S
  <2>1. ASSUME NEW x PROVE x \in S <=> x \in ToSet(front) \/ x \in ToSet(back)
    <3>1. \A i : i \in 1 .. n <=> i \in 1 .. k \/ i \in k + 1 .. n
      BY <1>1
    <3> QED BY <3>1, <1>4, <1>9
  <2> QED BY <2>1
<1>11. ToSet(front) \cap ToSet(back) = {}
  <2>1. \A i \in 1 .. k, j \in k + 1 .. n : i \in 1 .. n /\ j \in 1 .. n /\ i # j
    BY <1>1
  <2> QED BY <2>1, <1>4, <1>9
<1> QED
  BY <1>2, <1>3, <1>5, <1>6, <1>7, <1>8, <1>10, <1>11 DEF front, back, n, Queues, Splits

(* A queue with one element.                                                 *)
LEMMA QueuesOne ==
    ASSUME NEW T, NEW a \in T
    PROVE  <<a>> \in Seq(T) /\ Queues(<<a>>, {a})
BY DEF Queues, IsInjective, ToSet

(* list_insert_ordered(), once it has found the position p.                  *)
LEMMA QueuesInsert ==
    ASSUME NEW T, NEW q \in Seq(T), NEW S, Queues(q, S),
           NEW a \in T, a \notin S, NEW p \in 1 .. Len(q) + 1
    PROVE  LET r == InsertAt(q, p, a)
           IN  /\ r \in Seq(T)
               /\ Len(r) = Len(q) + 1
               /\ \A i \in 1 .. p - 1 : r[i] = q[i]
               /\ r[p] = a
               /\ \A i \in p + 1 .. Len(q) + 1 : r[i] = q[i - 1]
               /\ Queues(r, S \cup {a})
<1> DEFINE k == p - 1
           front == SubSeq(q, 1, k)
           back  == SubSeq(q, k + 1, Len(q))
           left  == front \o <<a>>
           r == left \o back
           n == Len(q)
<1>1. n \in Nat /\ k \in 0 .. n /\ k + 1 = p
  BY LenProperties
<1>2. /\ front \in Seq(T) /\ back \in Seq(T)
      /\ Len(front) = k /\ Len(back) = n - k
      /\ \A i \in 1 .. k : front[i] = q[i]
      /\ \A i \in 1 .. n - k : back[i] = q[i + k]
      /\ Queues(front, ToSet(front))
      /\ Queues(back, ToSet(back))
      /\ ToSet(front) \cup ToSet(back) = S
      /\ ToSet(front) \cap ToSet(back) = {}
  <2> HIDE DEF k
  <2>1. Splits(front, back, q, k, T, S)
    BY <1>1, QueuesSplit
  <2> QED BY <2>1 DEF Splits
<1>3. InsertAt(q, p, a) = r
  BY <1>1 DEF InsertAt
<1>4. <<a>> \in Seq(T) /\ Queues(<<a>>, {a}) /\ Len(<<a>>) = 1 /\ <<a>>[1] = a
  BY QueuesOne
<1> HIDE DEF front, back, n
<1>5. left \in Seq(T) /\ Queues(left, ToSet(front) \cup {a})
  <2>1. ToSet(front) \cap {a} = {}
    BY <1>2
  <2> QED BY <2>1, <1>2, <1>4, QueuesConcat
<1>6. /\ Len(left) = k + 1
      /\ \A i \in 1 .. k : left[i] = q[i]
      /\ left[k + 1] = a
  <2>1. /\ Len(left) = k + 1
        /\ \A i \in 1 .. k + 1 :
             left[i] = IF i <= k THEN front[i] ELSE <<a>>[i - k]
    BY <1>2, <1>4, ConcatProperties
  <2>2. k + 1 \in 1 .. k + 1 /\ ~(k + 1 <= k) /\ (k + 1) - k = 1
    BY <1>1
  <2>3. left[k + 1] = a
    BY <2>1, <2>2
  <2> QED BY <2>1, <2>3, <1>1, <1>2
<1> HIDE DEF left
<1>7. /\ r \in Seq(T)
      /\ Len(r) = (k + 1) + (n - k)
      /\ \A i \in 1 .. (k + 1) + (n - k) :
           r[i] = IF i <= k + 1 THEN left[i] ELSE back[i - (k + 1)]
  <2>1. /\ r \in Seq(T)
        /\ Len(r) = Len(left) + Len(back)
        /\ \A i \in 1 .. Len(left) + Len(back) :
             r[i] = IF i <= Len(left) THEN left[i] ELSE back[i - Len(left)]
    BY <1>2, <1>5, ConcatProperties
  <2>2. Len(left) = k + 1 /\ Len(back) = n - k
    BY <1>2, <1>6
  <2> HIDE DEF r, k
  <2> QED BY <2>1, <2>2
<1>8. Queues(r, S \cup {a})
  <2>1. (ToSet(front) \cup {a}) \cap ToSet(back) = {}
    BY <1>2
  <2>2. (ToSet(front) \cup {a}) \cup ToSet(back) = S \cup {a}
    BY <1>2
  <2>3. Queues(r, (ToSet(front) \cup {a}) \cup ToSet(back))
    BY <2>1, <1>2, <1>5, QueuesConcat
  <2> QED BY <2>2, <2>3
<1> HIDE DEF r
<1>9. Len(r) = n + 1 /\ (k + 1) + (n - k) = n + 1
  BY <1>1, <1>7
<1>10. \A i \in 1 .. p - 1 : r[i] = q[i]
  BY <1>1, <1>6, <1>7, <1>9
<1>11. r[p] = a
  BY <1>1, <1>6, <1>7, <1>9
<1>12. ASSUME NEW i \in p + 1 .. n + 1 PROVE r[i] = q[i - 1]
  <2>1. /\ i \in 1 .. n + 1 /\ ~(i <= k + 1)
        /\ i - (k + 1) \in 1 .. n - k /\ (i - (k + 1)) + k = i - 1
    BY <1>1
  <2>2. r[i] = back[i - (k + 1)]
    BY <2>1, <1>7, <1>9
  <2>3. back[i - (k + 1)] = q[i - 1]
    BY <2>1, <1>2
  <2> QED BY <2>2, <2>3
<1> QED BY <1>3, <1>7, <1>8, <1>9, <1>10, <1>11, <1>12 DEF n
=============================================================================
