------------------------ MODULE MainNavigationProofs ------------------------
(***************************************************************************)
(* The safety invariants of MainNavigation, for any items of the bottom    *)
(* bar and the drawer, any number of fragments and any length of queue.    *)
(*                                                                         *)
(* Executing the queue is a fold over a sequence, so what it does for a    *)
(* queue of any length takes an induction: LeastNat states it with a set   *)
(* of numbers in place of a predicate.                                     *)
(***************************************************************************)
EXTENDS MainNavigation, SequenceTheorems, FiniteSetTheorems, TLAPS

Entry == [added : Fragment, removed : SUBSET Fragment]
Transaction == [fragment : Fragment, back : BOOLEAN]
ContainerState == [added : SUBSET Fragment, backStack : Seq(Entry)]

\* A state of the container mentions a fragment.
Knows(s, f) ==
  \/ f \in s.added
  \/ \E i \in DOMAIN s.backStack : f = s.backStack[i].added \/ f \in s.backStack[i].removed

\* Popping a state never finds a fragment where it adds it.
Apart(s) ==
  \A i \in DOMAIN s.backStack :
    /\ s.backStack[i].removed \intersect s.added = {}
    /\ \A j \in DOMAIN s.backStack :
         i # j => s.backStack[i].removed \intersect s.backStack[j].removed = {}

\* A fragment that no entry of the stack added stays when it is popped.
Lasting(s, f) == \A k \in DOMAIN s.backStack : s.backStack[k].added # f

\* However often a state is popped, something is shown: an entry that removed
\* nothing has a lasting fragment above it.
Rooted(s) ==
  /\ s.added # {}
  /\ \A i \in DOMAIN s.backStack : s.backStack[i].removed = {} =>
       \E f : /\ Lasting(s, f)
              /\ \/ f \in s.added
                 \/ \E j \in DOMAIN s.backStack : i < j /\ f \in s.backStack[j].removed

Holds(messages, m) == \E i \in DOMAIN messages : messages[i] = m
Waiting(m) == Holds(looper, m)
Replaces(t) == ~t.back

\* The types of the sequences that NavTypeOK leaves open.
SequencesOK ==
  /\ backStack \in Seq(Entry)
  /\ queue \in Seq(Transaction)

\* Fragments under way are new, and the numbers of all are bounded.
AllNew ==
  /\ \A k \in DOMAIN queue :
       /\ ~Knows(State, queue[k].fragment)
       /\ \A l \in DOMAIN queue : k # l => queue[k].fragment # queue[l].fragment
  /\ \E n \in Nat : \A f \in added \union InStack \union Queued : f.id <= n

\* All that NavInv says of the container and its transactions.
ContainerOK ==
  /\ added \subseteq Fragment
  /\ SequencesOK
  /\ TagNamesKind
  /\ NothingTwice
  /\ AllNew

\* The two static fields agree whenever a handler has ended.
FieldsAgree == navItemIndex = CURRENT_TAG

\* A queue is executed some time, and a container that is not rooted will be,
\* by a load that is posted or by one that is queued.
Expected ==
  /\ queue # <<>> => Waiting("exec")
  /\ ~finished /\ ~dropped =>
       \/ Rooted(State)
       \/ Waiting("load")
       \/ \E k \in DOMAIN queue : Replaces(queue[k])

\* The item that was chosen is under way, or last in the queue, or shown.
ChosenComes ==
  chosen # {} =>
    /\ chosen = {navItemIndex}
    /\ \/ Waiting("load")
       \/ /\ queue # <<>>
          /\ Replaces(Last(queue))
          /\ Last(queue).fragment.kind = navItemIndex
       \/ queue = <<>> /\ {f.kind : f \in added} = {navItemIndex}

\* The inductive invariant.
NavInv ==
  /\ NavTypeOK
  /\ ContainerOK
  /\ FieldsAgree
  /\ Expected
  /\ ChosenComes
-----------------------------------------------------------------------------
\* Numbers in their order: a set of numbers that is not empty has a least one,
\* and one that holds 0 and the successors of its members holds all.
Less == {ss \in Nat \X Nat : ss[1] < ss[2]}

\* There is no infinite descent in the numbers.
LEMMA LessWellFounded == IsWellFoundedOn(Less, Nat)
BY NatLessThanWellFounded, Zenon DEF OpToRel, Less

\* The least-number principle.
LEMMA LeastNat ==
  ASSUME NEW T, T \subseteq Nat, T # {}
  PROVE  \E n \in T : \A m \in T : n <= m
<1>1. PICK n \in T : \A m \in T : ~(<<m, n>> \in Less)
  BY LessWellFounded, WFMin
<1>2. \A m \in T : ~(m < n)
  BY <1>1 DEF Less
<1> QED
  BY <1>2

\* Induction.
LEMMA NatInduct ==
  ASSUME NEW T, 0 \in T, \A n \in T : n \in Nat => n + 1 \in T
  PROVE  Nat \subseteq T
<1> SUFFICES ASSUME Nat \ T # {} PROVE FALSE
  OBVIOUS
<1>1. PICK n \in Nat \ T : \A m \in Nat \ T : n <= m
  BY LeastNat
<1>2. n # 0 /\ n - 1 \in Nat /\ (n - 1) + 1 = n
  BY <1>1
<1>3. n - 1 \in T
  BY <1>1, <1>2
<1> QED
  BY <1>1, <1>2, <1>3

\* Max is the greatest member of a set of numbers up to a bound.
LEMMA MaxFacts ==
  ASSUME NEW n \in Nat, NEW k \in SUBSET (1..n), k # {}
  PROVE  Max(k) \in k /\ \A m \in k : Max(k) >= m
<1> DEFINE T == {l \in Nat : n - l \in k}
<1>1. T \subseteq Nat /\ T # {}
  <2>1. PICK m \in k : TRUE
    OBVIOUS
  <2>2. n - m \in Nat /\ n - (n - m) = m
    OBVIOUS
  <2> QED BY <2>1, <2>2
<1>2. PICK l \in T : \A m \in T : l <= m
  BY <1>1, LeastNat
<1>3. n - l \in k
  BY <1>2
<1>4. ASSUME NEW j \in k
      PROVE  n - l >= j
  <2>1. n - j \in T
    <3>1. n - j \in Nat /\ n - (n - j) = j
      OBVIOUS
    <3> QED BY <3>1
  <2>2. l <= n - j /\ l \in Nat
    BY <1>2, <2>1
  <2> QED BY <2>2
<1> QED
  BY <1>3, <1>4, Zenon DEF Max

-----------------------------------------------------------------------------
\* The recursive function of FoldLeft (MapThenFoldSet), which executes the
\* transactions with the numbers in k, the greatest of them last.
IsRun(run, n) ==
  run = [k \in SUBSET (1..n) |->
          IF k = {} THEN State ELSE Executed(run[k \ {Max(k)}], queue[Max(k)])]

\* There is such a function for every length of queue: a longer one extends it.
LEMMA RunsExist == \A n \in Nat : \E run : IsRun(run, n)
<1> DEFINE T == {n \in Nat : \E run : IsRun(run, n)}
<1>1. 0 \in T
  <2> DEFINE g == [k \in SUBSET (1..0) |-> State]
  <2>1. IsRun(g, 0)
    BY DEF IsRun
  <2> QED BY <2>1
<1>2. ASSUME NEW n \in Nat, NEW f, IsRun(f, n)
      PROVE  \E run : IsRun(run, n + 1)
  <2> DEFINE g == [k \in SUBSET (1..(n + 1)) |->
                     IF k = {} THEN State
                     ELSE IF n + 1 \in k THEN Executed(f[k \ {n + 1}], queue[n + 1]) ELSE f[k]]
  <2>1. ASSUME NEW k \in SUBSET (1..(n + 1)), k # {}
        PROVE  g[k] = Executed(g[k \ {Max(k)}], queue[Max(k)])
    <3>0. n + 1 \in Nat
      OBVIOUS
    <3>1. Max(k) \in k /\ (\A m \in k : Max(k) >= m) /\ Max(k) \in 1..(n + 1)
      BY <2>1, <3>0, MaxFacts
    <3>2. ASSUME NEW j \in SUBSET (1..n)
          PROVE  g[j] = f[j]
      <4>1. n + 1 \notin j /\ j \in SUBSET (1..(n + 1))
        OBVIOUS
      <4>2. f[j] = IF j = {} THEN State ELSE Executed(f[j \ {Max(j)}], queue[Max(j)])
        BY <1>2, Zenon DEF IsRun
      <4>3. j = {} => f[j] = State
        BY <4>2
      <4> QED BY <4>1, <4>3
    <3>3. CASE n + 1 \in k
      <4>1. Max(k) = n + 1
        <5>1. Max(k) >= n + 1
          BY <3>1, <3>3
        <5> QED BY <3>1, <5>1
      <4>2. k \ {n + 1} \in SUBSET (1..n)
        OBVIOUS
      <4> QED BY <3>2, <3>3, <4>1, <4>2
    <3>4. CASE n + 1 \notin k
      <4>1. k \in SUBSET (1..n) /\ k \ {Max(k)} \in SUBSET (1..n)
        <5>1. \A m \in k : m \in 1..n
          BY <3>4
        <5> QED BY <5>1
      <4>2. f[k] = Executed(f[k \ {Max(k)}], queue[Max(k)])
        BY <1>2, <2>1, <4>1, Zenon DEF IsRun
      <4> QED BY <3>2, <4>1, <4>2
    <3> QED BY <3>3, <3>4
  <2>2. g = [k \in SUBSET (1..(n + 1)) |->
          IF k = {} THEN State ELSE Executed(g[k \ {Max(k)}], queue[Max(k)])]
    BY <2>1
  <2>3. IsRun(g, n + 1)
    BY <2>2, Zenon DEF IsRun
  <2> QED BY <2>3
<1>3. \A n \in T : n \in Nat => n + 1 \in T
  BY <1>2
<1> HIDE DEF T
<1>4. Nat \subseteq T
  BY <1>1, <1>3, NatInduct
<1> QED BY <1>4 DEF T

\* What the fold of the module stands for.
LEMMA FoldIsIter ==
  AllExecuted =
    (CHOOSE run : run = [k \in SUBSET (DOMAIN queue) |->
        IF k = {} THEN State ELSE Executed(run[k \ {Max(k)}], queue[Max(k)])])[DOMAIN queue]
BY Zenon DEF AllExecuted, FoldLeft, MapThenFoldSet

\* Executing the queue goes through a state after each transaction.
LEMMA Runs ==
  ASSUME NEW S, queue \in Seq(S)
  PROVE  \E run : /\ run[0] = State
                  /\ \A k \in 1..Len(queue) : run[k] = Executed(run[k - 1], queue[k])
                  /\ AllExecuted = run[Len(queue)]
<1>1. Len(queue) \in Nat /\ DOMAIN queue = 1..Len(queue)
  BY LenProperties
<1> DEFINE it == CHOOSE run : IsRun(run, Len(queue))
           run == [k \in 0..Len(queue) |-> it[1..k]]
<1>2. IsRun(it, Len(queue))
  BY <1>1, RunsExist
<1>3. AllExecuted = it[1..Len(queue)]
  BY <1>1, FoldIsIter, Zenon DEF IsRun
<1> HIDE DEF it
<1>4. run[0] = State
  <2>1. it[{}] = State
    BY <1>2, Zenon DEF IsRun
  <2> QED BY <1>1, <2>1
<1>5. ASSUME NEW k \in 1..Len(queue)
      PROVE  run[k] = Executed(run[k - 1], queue[k])
  <2>1. Max(1..k) = k
    <3>0. k \in Nat /\ k \in 1..k /\ 1..k \subseteq 1..k
      BY <1>1
    <3>1. Max(1..k) \in 1..k /\ \A m \in 1..k : Max(1..k) >= m
      BY <3>0, MaxFacts
    <3> QED BY <1>1, <3>1
  <2>2. (1..k) \ {k} = 1..(k - 1) /\ 1..k # {} /\ 1..k \in SUBSET (1..Len(queue))
    <3>1. \A j \in 1..k : j \in 1..Len(queue)
      BY <1>1
    <3>2. \A j : j \in (1..k) \ {k} <=> j \in 1..(k - 1)
      BY <1>1
    <3>3. k \in 1..k
      BY <1>1
    <3> QED BY <3>1, <3>2, <3>3
  <2>3. it[1..k] = Executed(it[(1..k) \ {Max(1..k)}], queue[Max(1..k)])
    BY <1>2, <2>2, Zenon DEF IsRun
  <2> QED BY <1>1, <2>1, <2>2, <2>3
<1>6. AllExecuted = run[Len(queue)]
  BY <1>1, <1>3
<1> QED BY <1>4, <1>5, <1>6

-----------------------------------------------------------------------------
\* What executing a replace does to a state that does not know its fragment.
LEMMA ExecutedKeeps ==
  ASSUME NEW s \in ContainerState, NEW t \in Transaction, ~Knows(s, t.fragment)
  PROVE  /\ Executed(s, t) \in ContainerState
         /\ Executed(s, t).added = {t.fragment}
         /\ \A f : Knows(Executed(s, t), f) => Knows(s, f) \/ f = t.fragment
         /\ Apart(s) => Apart(Executed(s, t))
         /\ Rooted(s) \/ Replaces(t) => Rooted(Executed(s, t))
<1> DEFINE e == Executed(s, t)
           n == Len(s.backStack)
           entry == [added |-> t.fragment, removed |-> s.added]
<1>1. n \in Nat /\ DOMAIN s.backStack = 1..n /\ s.backStack \in Seq(Entry) /\ t.fragment \in Fragment
  BY LenProperties DEF ContainerState, Transaction
<1>2. e.added = {t.fragment} /\ e.backStack = IF t.back THEN Append(s.backStack, entry) ELSE s.backStack
  BY DEF Executed
<1>3. entry \in Entry
  BY DEF ContainerState, Transaction, Entry
<1>4. CASE ~t.back
  <2>1. e.backStack = s.backStack
    BY <1>2, <1>4
  <2>2. e = [added |-> {t.fragment}, backStack |-> s.backStack]
    BY <1>4 DEF Executed
  <2>3. e \in ContainerState
    BY <1>1, <2>2 DEF ContainerState
  <2>4. \A k \in DOMAIN s.backStack : s.backStack[k].added # t.fragment /\ t.fragment \notin s.backStack[k].removed
    BY DEF Knows
  <2>5. Apart(s) => Apart(e)
    BY <1>2, <2>1, <2>4 DEF Apart
  <2>6. Rooted(e)
    BY <1>2, <2>1, <2>4 DEF Rooted, Lasting
  <2> QED BY <1>2, <2>1, <2>3, <2>5, <2>6 DEF Knows
<1>5. CASE t.back
  <2>1. e.backStack = Append(s.backStack, entry)
    BY <1>2, <1>5
  <2>2. e = [added |-> {t.fragment}, backStack |-> Append(s.backStack, entry)]
    BY <1>5 DEF Executed
  <2>3. e \in ContainerState
    BY <1>1, <1>3, <2>2 DEF ContainerState
  <2>4. \A k \in 1..n : s.backStack[k].added # t.fragment /\ t.fragment \notin s.backStack[k].removed
    BY <1>1 DEF Knows
  <2>5. /\ DOMAIN e.backStack = 1..(n + 1)
        /\ \A k \in 1..n : e.backStack[k] = s.backStack[k]
        /\ e.backStack[n + 1].added = t.fragment
        /\ e.backStack[n + 1].removed = s.added
    BY <1>1, <1>3, <2>1, AppendProperties, LenProperties
  <2>6. t.fragment \notin s.added
    BY DEF Knows
  <2> HIDE DEF e, n, entry
  <2>7. \A k \in 1..(n + 1) : k \in 1..n \/ k = n + 1
    BY <1>1
  <2>8. \A f : Knows(e, f) => Knows(s, f) \/ f = t.fragment
    BY <1>1, <1>2, <2>5, <2>7 DEF Knows
  <2>9. Apart(s) => Apart(e)
    <3> SUFFICES ASSUME Apart(s), NEW i \in 1..(n + 1)
                 PROVE  /\ e.backStack[i].removed \intersect e.added = {}
                        /\ \A j \in 1..(n + 1) :
                             i # j => e.backStack[i].removed \intersect e.backStack[j].removed = {}
      BY <2>5 DEF Apart
    <3>1. e.backStack[i].removed \intersect e.added = {}
      BY <1>2, <2>4, <2>5, <2>6, <2>7
    <3>2. ASSUME NEW j \in 1..(n + 1), i # j
          PROVE  e.backStack[i].removed \intersect e.backStack[j].removed = {}
      BY <1>1, <2>5, <2>7, <3>2 DEF Apart
    <3> QED BY <3>1, <3>2
  <2>10. Rooted(s) => Rooted(e)
    <3> SUFFICES ASSUME Rooted(s), NEW i \in 1..(n + 1), e.backStack[i].removed = {}
                 PROVE  \E f : /\ Lasting(e, f)
                               /\ \/ f \in e.added
                                  \/ \E j \in 1..(n + 1) : i < j /\ f \in e.backStack[j].removed
      BY <1>2, <2>5 DEF Rooted
    <3>1. i \in 1..n /\ s.backStack[i].removed = {}
      BY <2>5, <2>7 DEF Rooted
    <3>2. PICK f : /\ Lasting(s, f)
                   /\ \/ f \in s.added
                      \/ \E j \in 1..n : i < j /\ f \in s.backStack[j].removed
      BY <1>1, <3>1 DEF Rooted
    <3>3. f # t.fragment
      BY <2>4, <2>6, <3>2
    <3>4. Lasting(e, f)
      BY <1>1, <2>5, <2>7, <3>2, <3>3 DEF Lasting
    <3>5. \E j \in 1..(n + 1) : i < j /\ f \in e.backStack[j].removed
      <4>1. CASE f \in s.added
        BY <1>1, <2>5, <3>1, <4>1
      <4>2. ASSUME NEW j \in 1..n, i < j, f \in s.backStack[j].removed
            PROVE  j \in 1..(n + 1) /\ f \in e.backStack[j].removed
        BY <1>1, <2>5, <4>2
      <4> QED BY <3>2, <4>1, <4>2
    <3> QED BY <3>4, <3>5
  <2> QED BY <1>2, <1>5, <2>3, <2>8, <2>9, <2>10 DEF e, Replaces
<1> QED BY <1>4, <1>5

\* What a pop does.
LEMMA PoppedKeeps ==
  ASSUME NEW s \in ContainerState, s.backStack # <<>>
  PROVE  /\ Popped(s) \in ContainerState
         /\ \A f : Knows(Popped(s), f) => Knows(s, f)
         /\ Apart(s) => Apart(Popped(s))
         /\ Rooted(s) => Rooted(Popped(s))
<1> DEFINE p == Popped(s)
           n == Len(s.backStack)
           top == s.backStack[n]
<1>1. n \in Nat \ {0} /\ DOMAIN s.backStack = 1..n /\ s.backStack \in Seq(Entry) /\ n \in 1..n
  BY LenProperties, EmptySeq DEF ContainerState
<1>2. /\ p = [added |-> (s.added \ {top.added}) \union top.removed, backStack |-> SubSeq(s.backStack, 1, n - 1)]
      /\ p.added = (s.added \ {top.added}) \union top.removed
      /\ p.backStack = SubSeq(s.backStack, 1, n - 1)
  BY DEF Popped, Last, Front
<1>3. /\ p.backStack \in Seq(Entry)
      /\ DOMAIN p.backStack = 1..(n - 1)
      /\ \A k \in 1..(n - 1) : k \in 1..n /\ p.backStack[k] = s.backStack[k]
  BY <1>1, <1>2, SubSeqProperties, LenProperties, ElementOfSeq
<1>4. top \in Entry
  BY <1>1, ElementOfSeq
<1>5. p \in ContainerState
  BY <1>2, <1>3, <1>4 DEF ContainerState, Entry
<1> HIDE DEF p, n
<1>6. \A f : Knows(p, f) => Knows(s, f)
  BY <1>1, <1>2, <1>3 DEF Knows
<1>7. ASSUME Apart(s)
      PROVE  Apart(p)
  <2>1. \A i, j \in 1..n : /\ s.backStack[i].removed \intersect s.added = {}
                           /\ i # j => s.backStack[i].removed \intersect s.backStack[j].removed = {}
    BY <1>1, <1>7 DEF Apart
  <2>2. ASSUME NEW i \in 1..(n - 1)
        PROVE  p.backStack[i].removed \intersect p.added = {}
    <3>1. i \in 1..n /\ i # n /\ p.backStack[i] = s.backStack[i]
      BY <1>1, <1>3
    <3> QED BY <1>1, <1>2, <2>1, <3>1
  <2>3. ASSUME NEW i \in 1..(n - 1), NEW j \in 1..(n - 1), i # j
        PROVE  p.backStack[i].removed \intersect p.backStack[j].removed = {}
    BY <1>3, <2>1, <2>3
  <2> QED BY <1>3, <2>2, <2>3 DEF Apart
<1>8. ASSUME Rooted(s)
      PROVE  Rooted(p)
  <2>1. ASSUME NEW f, Lasting(s, f), NEW i \in 1..n,
               f \in s.added \/ \E j \in 1..n : i < j /\ f \in s.backStack[j].removed
        PROVE  /\ Lasting(p, f)
               /\ f \in p.added \/ \E j \in 1..(n - 1) : i < j /\ f \in p.backStack[j].removed
    <3>1. f # top.added
      BY <1>1, <2>1 DEF Lasting
    <3>2. Lasting(p, f)
      BY <1>1, <1>3, <2>1 DEF Lasting
    <3>3. f \in s.added => f \in p.added
      BY <1>2, <3>1
    <3>4. ASSUME NEW j \in 1..n, i < j, f \in s.backStack[j].removed
          PROVE  f \in p.added \/ (j \in 1..(n - 1) /\ f \in p.backStack[j].removed)
      BY <1>1, <1>2, <1>3, <3>4
    <3> QED BY <2>1, <3>2, <3>3, <3>4
  <2>2. p.added # {}
    <3>1. CASE top.removed = {}
      <4>1. PICK f : /\ Lasting(s, f)
                     /\ f \in s.added \/ \E j \in 1..n : n < j /\ f \in s.backStack[j].removed
        BY <1>1, <1>8, <3>1 DEF Rooted
      <4>2. f \in s.added /\ f # top.added
        BY <1>1, <4>1 DEF Lasting
      <4> QED BY <1>2, <4>2
    <3> QED BY <1>2, <3>1
  <2>3. ASSUME NEW i \in 1..(n - 1), p.backStack[i].removed = {}
        PROVE  \E f : /\ Lasting(p, f)
                      /\ f \in p.added \/ \E j \in 1..(n - 1) : i < j /\ f \in p.backStack[j].removed
    <3>1. PICK f : /\ Lasting(s, f)
                   /\ f \in s.added \/ \E j \in 1..n : i < j /\ f \in s.backStack[j].removed
      BY <1>1, <1>3, <1>8, <2>3 DEF Rooted
    <3>2. i \in 1..n
      BY <1>1
    <3> QED BY <2>1, <3>1, <3>2
  <2> QED BY <1>3, <2>2, <2>3 DEF Rooted
<1> QED BY <1>5, <1>6, <1>7, <1>8 DEF p

\* What executing the whole queue does: no fragment but those of the queue
\* appears, the last of them alone is shown, and one replace that leaves no
\* entry is enough to root the container.
LEMMA AllExecutedKeeps ==
  ASSUME State \in ContainerState, SequencesOK, AllNew
  PROVE  /\ AllExecuted \in ContainerState
         /\ \A f : Knows(AllExecuted, f) => Knows(State, f) \/ f \in Queued
         /\ Apart(State) => Apart(AllExecuted)
         /\ Rooted(State) \/ (\E k \in DOMAIN queue : Replaces(queue[k])) => Rooted(AllExecuted)
         /\ queue = <<>> => AllExecuted = State
         /\ queue # <<>> => AllExecuted.added = {Last(queue).fragment}
<1> DEFINE n == Len(queue)
<1>1. n \in Nat /\ DOMAIN queue = 1..n /\ \A k \in 1..n : queue[k] \in Transaction
  BY LenProperties, ElementOfSeq DEF SequencesOK
<1>2. PICK run : /\ run[0] = State
                 /\ \A k \in 1..n : run[k] = Executed(run[k - 1], queue[k])
                 /\ AllExecuted = run[n]
  BY Runs DEF SequencesOK
<1> DEFINE G(k) == /\ run[k] \in ContainerState
                   /\ \A f : Knows(run[k], f) => Knows(State, f) \/ \E j \in 1..k : f = queue[j].fragment
                   /\ Apart(State) => Apart(run[k])
                   /\ Rooted(State) \/ (\E j \in 1..k : Replaces(queue[j])) => Rooted(run[k])
                   /\ k > 0 => run[k].added = {queue[k].fragment}
           T == {k \in Nat : k <= n => G(k)}
<1> HIDE DEF n, G
<1>3. G(0)
  BY <1>2 DEF G
<1>4. ASSUME NEW k \in Nat, G(k), k + 1 <= n
      PROVE  G(k + 1)
  <2> USE DEF G
  <2>1. k + 1 \in 1..n /\ (k + 1) - 1 = k /\ queue[k + 1] \in Transaction
    BY <1>1, <1>4
  <2>2. run[k + 1] = Executed(run[k], queue[k + 1])
    BY <1>2, <2>1
  <2>3. ~Knows(run[k], queue[k + 1].fragment)
    <3>1. ~Knows(State, queue[k + 1].fragment)
      BY <1>1, <2>1 DEF AllNew
    <3>2. ASSUME NEW j \in 1..k
          PROVE  queue[k + 1].fragment # queue[j].fragment
      <4>1. j \in 1..n /\ j # k + 1
        BY <1>1, <2>1
      <4> QED BY <1>1, <2>1, <4>1 DEF AllNew
    <3> QED BY <1>4, <3>1, <3>2
  <2> DEFINE t == queue[k + 1]
             s == run[k]
  <2>4. s \in ContainerState /\ t \in Transaction /\ ~Knows(s, t.fragment)
    BY <1>4, <2>1, <2>3
  <2>5. /\ Executed(s, t) \in ContainerState
        /\ Executed(s, t).added = {t.fragment}
        /\ \A f : Knows(Executed(s, t), f) => Knows(s, f) \/ f = t.fragment
        /\ Apart(s) => Apart(Executed(s, t))
        /\ Rooted(s) \/ Replaces(t) => Rooted(Executed(s, t))
    <3> HIDE DEF s, t
    <3> QED BY <2>4, ExecutedKeeps
  <2>6. \A j \in 1..(k + 1) : j \in 1..k \/ j = k + 1
    OBVIOUS
  <2>7. \A j \in 1..k : j \in 1..(k + 1)
    OBVIOUS
  <2>8. \A f : Knows(run[k + 1], f) => Knows(State, f) \/ \E j \in 1..(k + 1) : f = queue[j].fragment
    <3> SUFFICES ASSUME NEW f, Knows(run[k + 1], f)
                 PROVE  Knows(State, f) \/ \E j \in 1..(k + 1) : f = queue[j].fragment
      OBVIOUS
    <3>1. Knows(run[k], f) \/ f = queue[k + 1].fragment
      BY <2>2, <2>5
    <3> QED BY <1>4, <2>7, <3>1
  <2>9. Rooted(State) \/ (\E j \in 1..(k + 1) : Replaces(queue[j])) => Rooted(run[k + 1])
    BY <1>4, <2>2, <2>5, <2>6
  <2> QED BY <1>4, <2>2, <2>5, <2>8, <2>9
<1>5. G(n)
  <2>1. 0 \in T
    BY <1>3
  <2>2. ASSUME NEW k \in T, k \in Nat
        PROVE  k + 1 \in T
    <3> SUFFICES ASSUME k + 1 <= n PROVE G(k + 1)
      OBVIOUS
    <3>1. G(k)
      BY <1>1, <2>2
    <3> QED BY <1>4, <3>1
  <2> HIDE DEF T
  <2>3. n \in T
    BY <1>1, <2>1, <2>2, NatInduct
  <2> QED BY <1>1, <2>3 DEF T
<1> USE DEF G
<1>6. queue = <<>> <=> n = 0
  BY EmptySeq DEF SequencesOK, n
<1>7. queue = <<>> => AllExecuted = State
  BY <1>2, <1>6
<1>8. queue # <<>> => AllExecuted.added = {Last(queue).fragment}
  BY <1>1, <1>2, <1>5, <1>6 DEF Last, n
<1>9. \A f : Knows(AllExecuted, f) => Knows(State, f) \/ f \in Queued
  BY <1>1, <1>2, <1>5 DEF Queued
<1> QED BY <1>1, <1>2, <1>5, <1>7, <1>8, <1>9

\* A new fragment has the type and is like none that is known.
LEMMA NewFragmentIsNew ==
  ASSUME NavTypeOK, AllNew, NEW kind \in DrawerItems, NEW tag \in DrawerItems \union {NoTag}
  PROVE  /\ NewFragment(kind, tag) \in Fragment
         /\ NewFragment(kind, tag) \notin added \union InStack \union Queued
         /\ NewFragment(kind, tag).kind = kind
         /\ NewFragment(kind, tag).tag = tag
<1> DEFINE known == added \union InStack \union Queued
           used == {f.id : f \in known}
           Free == {n \in Nat \ {0} : n \notin used}
           c == Cardinality(used)
           id == CHOOSE n \in 1..(c + 1) : n \notin used /\ \A m \in 1..(n - 1) : m \in used
<1>1. PICK b \in Nat : \A f \in known : f.id <= b
  BY DEF AllNew
<1>2. known \subseteq Fragment
  BY DEF NavTypeOK, InStack, Queued
<1>3. used \subseteq Nat /\ \A m \in used : m <= b
  BY <1>1, <1>2 DEF Fragment
<1>4. IsFiniteSet(used) /\ c \in Nat
  <2> HIDE DEF used
  <2> QED BY <1>3, FS_BoundedSetOfNaturals, FS_CardinalityType
<1>5. b + 1 \in Free
  BY <1>3
<1>6. PICK n \in Free : \A m \in Free : n <= m
  <2> HIDE DEF used
  <2> QED BY <1>5, LeastNat
<1>7. n \notin used /\ \A m \in 1..(n - 1) : m \in used
  BY <1>6
<1>8. n \in 1..(c + 1)
  <2> HIDE DEF used
  <2>1. 1..(n - 1) \in SUBSET used
    BY <1>7
  <2>2. Cardinality(1..(n - 1)) <= c
    BY <1>4, <2>1, FS_Subset
  <2>3. Cardinality(1..(n - 1)) = n - 1
    BY <1>6, FS_Interval
  <2> QED BY <1>4, <1>6, <2>2, <2>3
<1>9. id \in 1..(c + 1) /\ id \notin used
  <2> HIDE DEF used, c
  <2> QED BY <1>7, <1>8
<1>10. NewFragment(kind, tag) = [id |-> id, kind |-> kind, tag |-> tag]
  BY DEF NewFragment
<1>11. id \in Nat \ {0}
  <2> HIDE DEF id, c
  <2> QED BY <1>4, <1>9
<1> HIDE DEF id
<1> QED BY <1>9, <1>10, <1>11 DEF Fragment

-----------------------------------------------------------------------------
\* The invariants of the module, in terms of the container's state.
LEMMA StateFacts ==
  ASSUME ContainerOK
  PROVE  /\ State \in ContainerState
         /\ State.added = added /\ State.backStack = backStack
         /\ \A f : Knows(State, f) <=> f \in added \union InStack
         /\ Apart(State)
<1>1. State \in ContainerState /\ State.added = added /\ State.backStack = backStack
  BY DEF ContainerOK, SequencesOK, State, ContainerState
<1>2. \A f : Knows(State, f) <=> f \in added \union InStack
  BY <1>1 DEF Knows, InStack
<1> QED BY <1>1, <1>2 DEF Apart, NothingTwice, ContainerOK

\* A handler that commits keeps the container in order.
LEMMA CommitKeeps ==
  ASSUME NavTypeOK, ContainerOK, NEW kind \in DrawerItems, NEW tag \in {NoTag, kind},
         NEW back \in BOOLEAN,
         queue' = Append(queue, [fragment |-> NewFragment(kind, tag), back |-> back]),
         UNCHANGED <<added, backStack>>
  PROVE  ContainerOK'
<1> DEFINE new == NewFragment(kind, tag)
           t == [fragment |-> new, back |-> back]
           n == Len(queue)
<1>1. /\ new \in Fragment
      /\ new \notin added \union InStack \union Queued
      /\ new.kind = kind
      /\ new.tag = tag
  BY NewFragmentIsNew DEF ContainerOK
<1> HIDE DEF new
<1>2. t \in Transaction
  BY <1>1 DEF Transaction
<1>3. queue \in Seq(Transaction) /\ n \in Nat /\ DOMAIN queue = 1..n
  BY LenProperties DEF ContainerOK, SequencesOK
<1>4. /\ queue' \in Seq(Transaction)
      /\ DOMAIN queue' = 1..(n + 1)
      /\ \A k \in 1..n : queue'[k] = queue[k]
      /\ queue'[n + 1] = t
  <2>1. queue' = Append(queue, t)
    BY DEF new
  <2> HIDE DEF t
  <2> QED BY <1>2, <1>3, <2>1, AppendProperties, LenProperties
<1> HIDE DEF n
<1>5. \A k \in 1..(n + 1) : k \in 1..n \/ k = n + 1
  BY <1>3
<1>6. Queued' = Queued \union {new}
  <2>1. \A k \in 1..n : k \in 1..(n + 1)
    BY <1>3
  <2>2. n + 1 \in 1..(n + 1)
    BY <1>3
  <2> QED BY <1>3, <1>4, <1>5, <2>1, <2>2 DEF Queued
<1>7. added' = added /\ backStack' = backStack /\ InStack' = InStack /\ State' = State
  BY DEF InStack, State
<1>8. SequencesOK' /\ (added \subseteq Fragment)'
  BY <1>4, <1>7 DEF ContainerOK, SequencesOK
<1>9. TagNamesKind'
  BY <1>1, <1>6, <1>7 DEF ContainerOK, TagNamesKind
<1>10. NothingTwice'
  BY <1>7 DEF ContainerOK, NothingTwice
<1>11. AllNew'
  <2>1. ASSUME NEW k \in 1..(n + 1)
        PROVE  ~Knows(State, queue'[k].fragment)
    <3>1. ~Knows(State, new)
      BY <1>1, StateFacts
    <3> QED BY <1>3, <1>4, <1>5, <3>1 DEF ContainerOK, AllNew
  <2>2. \A k \in 1..n : queue[k].fragment # new
    BY <1>1, <1>3 DEF Queued
  <2>3. ASSUME NEW k \in 1..(n + 1), NEW l \in 1..(n + 1), k # l
        PROVE  queue'[k].fragment # queue'[l].fragment
    <3>1. \A i, j \in 1..n : i # j => queue[i].fragment # queue[j].fragment
      BY <1>3 DEF ContainerOK, AllNew
    <3>2. CASE k \in 1..n /\ l \in 1..n
      BY <1>4, <2>3, <3>1, <3>2
    <3>3. CASE k = n + 1 /\ l \in 1..n
      BY <1>4, <2>2, <3>3
    <3>4. CASE k \in 1..n /\ l = n + 1
      BY <1>4, <2>2, <3>4
    <3> QED BY <1>5, <2>3, <3>2, <3>3, <3>4
  <2>4. PICK b \in Nat : \A f \in added \union InStack \union Queued : f.id <= b
    BY DEF ContainerOK, AllNew
  <2>5. \A f \in added \union InStack \union Queued : f.id \in Nat
    BY DEF NavTypeOK, InStack, Queued, Fragment
  <2>6. new.id \in Nat
    BY <1>1 DEF Fragment
  <2>7. b + new.id \in Nat /\ \A f \in added \union InStack \union (Queued \union {new}) : f.id <= b + new.id
    BY <2>4, <2>5, <2>6
  <2>8. \E m \in Nat : \A f \in (added \union InStack \union Queued)' : f.id <= m
    BY <1>6, <1>7, <2>7
  <2>9. \A k \in DOMAIN queue' : /\ ~Knows(State', queue'[k].fragment)
                                /\ \A l \in DOMAIN queue' : k # l => queue'[k].fragment # queue'[l].fragment
    BY <1>4, <1>7, <2>1, <2>3
  <2> QED BY <2>8, <2>9 DEF AllNew
<1> QED BY <1>8, <1>9, <1>10, <1>11 DEF ContainerOK

\* So does one that executes the queue, and pops or not.
LEMMA BecomesKeeps ==
  ASSUME ContainerOK, NEW s \in ContainerState, Apart(s),
         \A f : Knows(s, f) => Knows(State, f) \/ f \in Queued,
         Becomes(s), queue' = <<>>
  PROVE  ContainerOK' /\ State' = s
<1>1. State' = s
  BY DEF Becomes, State, ContainerState
<1>2. s.added \subseteq Fragment /\ s.backStack \in Seq(Entry) /\ added' = s.added /\ backStack' = s.backStack
  BY DEF Becomes, ContainerState
<1>3. SequencesOK' /\ (added \subseteq Fragment)'
  BY <1>2 DEF SequencesOK
<1>4. \A f : f \in added' \union InStack' => Knows(s, f)
  BY <1>2 DEF InStack, Knows
<1>5. \A f \in added' \union InStack' : f \in added \union InStack \union Queued
  BY <1>4, StateFacts
<1>6. Queued' = {}
  BY DEF Queued
<1>7. TagNamesKind'
  BY <1>5, <1>6 DEF TagNamesKind, ContainerOK
<1>8. NothingTwice'
  BY <1>2 DEF Apart, NothingTwice
<1>9. AllNew'
  BY <1>5, <1>6 DEF AllNew, ContainerOK
<1> QED BY <1>1, <1>3, <1>7, <1>8, <1>9 DEF ContainerOK

TransactionTypes ==
  /\ \A i \in DOMAIN backStack :
       backStack[i].added \in Fragment /\ backStack[i].removed \subseteq Fragment
  /\ \A i \in DOMAIN queue : queue[i].fragment \in Fragment /\ queue[i].back \in BOOLEAN

\* The types that follow from ContainerOK.
LEMMA ContainerTypes ==
  ASSUME ContainerOK
  PROVE  TransactionTypes
<1>1. \A i \in DOMAIN backStack : backStack[i] \in Entry
  BY LenProperties, ElementOfSeq DEF ContainerOK, SequencesOK
<1>2. \A i \in DOMAIN queue : queue[i] \in Transaction
  BY LenProperties, ElementOfSeq DEF ContainerOK, SequencesOK
<1> QED BY <1>1, <1>2 DEF TransactionTypes, Entry, Transaction

\* What a message added to the looper, or taken from it, changes.
LEMMA LooperFacts ==
  ASSUME NEW S, NEW l \in Seq(S), NEW x \in S
  PROVE  /\ \A m : Holds(Append(l, x), m) <=> Holds(l, m) \/ m = x
         /\ l # <<>> => \A m : Holds(l, m) /\ Head(l) # m => Holds(Tail(l), m)
         /\ ~Holds(<<>>, x)
<1> DEFINE n == Len(l)
<1>1. n \in Nat /\ DOMAIN l = 1..n
  BY LenProperties
<1>2. /\ DOMAIN Append(l, x) = 1..(n + 1)
      /\ \A i \in 1..n : Append(l, x)[i] = l[i]
      /\ Append(l, x)[n + 1] = x
  BY <1>1, AppendProperties, LenProperties
<1>3. \A i \in 1..(n + 1) : i \in 1..n \/ i = n + 1
  BY <1>1
<1>4. n + 1 \in 1..(n + 1) /\ \A i \in 1..n : i \in 1..(n + 1)
  BY <1>1
<1>5. \A m : Holds(Append(l, x), m) <=> Holds(l, m) \/ m = x
  BY <1>1, <1>2, <1>3, <1>4 DEF Holds
<1>6. ASSUME l # <<>>, NEW m, Holds(l, m), Head(l) # m
      PROVE  Holds(Tail(l), m)
  <2>1. PICK i \in 1..n : l[i] = m
    BY <1>1, <1>6 DEF Holds
  <2>2. DOMAIN Tail(l) = 1..(n - 1) /\ \A j \in 1..(n - 1) : Tail(l)[j] = l[j + 1]
    BY <1>1, <1>6, HeadTailProperties, LenProperties
  <2>3. i # 1
    BY <1>6, <2>1
  <2>4. i - 1 \in 1..(n - 1) /\ (i - 1) + 1 = i
    BY <1>1, <2>3
  <2> QED BY <2>1, <2>2, <2>4 DEF Holds
<1> QED BY <1>5, <1>6 DEF Holds

\* What a commit adds to the queue.
LEMMA QueueFacts ==
  ASSUME ContainerOK, NEW t \in Transaction, queue' = Append(queue, t)
  PROVE  /\ queue' # <<>> /\ Last(queue') = t
         /\ \A k \in DOMAIN queue : k \in DOMAIN queue' /\ queue'[k] = queue[k]
         /\ \E k \in DOMAIN queue' : queue'[k] = t
<1>1. queue \in Seq(Transaction) /\ Len(queue) \in Nat /\ DOMAIN queue = 1..Len(queue)
  BY LenProperties DEF ContainerOK, SequencesOK
<1>2. /\ queue' # <<>>
      /\ Len(queue') = Len(queue) + 1
      /\ DOMAIN queue' = 1..(Len(queue) + 1)
      /\ \A k \in 1..Len(queue) : queue'[k] = queue[k]
      /\ queue'[Len(queue) + 1] = t
  BY <1>1, AppendProperties, LenProperties
<1>3. Len(queue) + 1 \in 1..(Len(queue) + 1) /\ \A k \in 1..Len(queue) : k \in 1..(Len(queue) + 1)
  BY <1>1
<1> QED BY <1>1, <1>2, <1>3 DEF Last

\* A handler that commits, and takes nothing from the looper, leaves what is
\* expected expected.
LEMMA CommitExpects ==
  ASSUME ContainerOK, Expected, NEW t \in Transaction, queue' = Append(queue, t),
         UNCHANGED <<added, backStack, finished, dropped>>,
         \A m : Waiting(m) => Waiting(m)', queue = <<>> => Waiting("exec")'
  PROVE  Expected'
<1>1. State' = State
  BY DEF State
<1>2. (\E k \in DOMAIN queue : Replaces(queue[k])) => \E k \in DOMAIN queue' : Replaces(queue'[k])
  BY QueueFacts
<1> QED BY <1>1, <1>2 DEF Expected

\* Selecting an item of the bottom bar.
LEMMA SelectBottomKeeps ==
  ASSUME NavInv, NEW item \in BottomItems, SelectBottom(item)
  PROVE  NavInv'
<1> DEFINE t == [fragment |-> NewFragment(item, NoTag), back |-> TRUE]
<1>1. item \in DrawerItems /\ NavTypeOK /\ ContainerOK /\ looper \in Seq({"load", "exec"})
  BY ItemsAssumption DEF NavInv, NavTypeOK
<1>2. /\ queue' = Append(queue, t)
      /\ looper' = IF queue = <<>> THEN Append(looper, "exec") ELSE looper
      /\ UNCHANGED <<navItemIndex, CURRENT_TAG, drawerOpen, added, backStack, finished, dropped>>
      /\ chosen' = {}
  BY DEF SelectBottom, Commit
<1>3. t \in Transaction
  BY <1>1, NewFragmentIsNew DEF Transaction, ContainerOK
<1>4. ContainerOK'
  BY <1>1, <1>2, CommitKeeps
<1>5. /\ looper' \in Seq({"load", "exec"})
      /\ \A m : Waiting(m) => Waiting(m)'
      /\ queue = <<>> => Waiting("exec")'
  BY <1>1, <1>2, LooperFacts DEF Waiting
<1>6. Expected'
  <2> HIDE DEF t
  <2> QED BY <1>1, <1>2, <1>3, <1>5, CommitExpects DEF NavInv
<1>7. NavTypeOK'
  <2>1. TransactionTypes'
    BY <1>4, ContainerTypes, PTL
  <2> QED BY <1>1, <1>2, <1>4, <1>5, <2>1 DEF NavTypeOK, TransactionTypes, ContainerOK
<1> QED BY <1>2, <1>4, <1>6, <1>7 DEF NavInv, FieldsAgree, ChosenComes

\* loadHomeFragment, when the fields name the item: the types of what it
\* writes, and that it posts unless it finds the tag.
LEMMA LoadHomeFacts ==
  ASSUME NEW item, NEW messages \in Seq({"load", "exec"}), LoadHomeFragment(item, messages)
  PROVE  /\ looper' \in Seq({"load", "exec"})
         /\ drawerOpen' = FALSE
         /\ \A m : Holds(messages, m) => Waiting(m)'
         /\ ~Found(item) => Waiting("load")'
<1>1. drawerOpen' = FALSE /\ looper' = IF Found(item) THEN messages ELSE Append(messages, "load")
  BY DEF LoadHomeFragment
<1>2. /\ Append(messages, "load") \in Seq({"load", "exec"})
      /\ \A m : Holds(Append(messages, "load"), m) <=> Holds(messages, m) \/ m = "load"
  BY LooperFacts
<1> QED BY <1>1, <1>2 DEF Waiting

\* A handler that leaves the container and its transactions alone.
LEMMA ContainerLeft ==
  ASSUME ContainerOK, UNCHANGED <<added, backStack, queue>>
  PROVE  ContainerOK' /\ State' = State
<1>1. State' = State /\ InStack' = InStack /\ Queued' = Queued
  BY DEF State, InStack, Queued
<1> QED BY <1>1 DEF ContainerOK, SequencesOK, TagNamesKind, NothingTwice, AllNew

\* Choosing an item in the drawer, which may press the bottom bar as well.
LEMMA SelectDrawerKeeps ==
  ASSUME NavInv, NEW item \in DrawerItems, SelectDrawer(item)
  PROVE  NavInv'
<1> DEFINE t == [fragment |-> NewFragment(item, NoTag), back |-> TRUE]
<1>1. NavTypeOK /\ ContainerOK /\ looper \in Seq({"load", "exec"})
  BY DEF NavInv, NavTypeOK
<1>2. /\ navItemIndex' = item /\ CURRENT_TAG' = item
      /\ UNCHANGED <<added, backStack, finished, dropped>>
      /\ chosen' = IF Found(item) THEN {} ELSE {item}
  BY DEF SelectDrawer
<1>3. t \in Transaction
  BY <1>1, NewFragmentIsNew DEF Transaction, ContainerOK
<1>4. /\ looper' \in Seq({"load", "exec"}) /\ drawerOpen' = FALSE
      /\ ~Found(item) => Waiting("load")'
      /\ ContainerOK' /\ Expected'
  <2>1. CASE item \in BottomItems
    <3> DEFINE messages == IF queue = <<>> THEN Append(looper, "exec") ELSE looper
    <3>1. queue' = Append(queue, t) /\ LoadHomeFragment(item, messages)
      BY <2>1 DEF SelectDrawer
    <3>2. /\ messages \in Seq({"load", "exec"})
          /\ \A m : Waiting(m) => Holds(messages, m)
          /\ queue = <<>> => Holds(messages, "exec")
      BY <1>1, LooperFacts DEF Waiting
    <3> HIDE DEF messages
    <3>3. /\ looper' \in Seq({"load", "exec"}) /\ drawerOpen' = FALSE
          /\ \A m : Waiting(m) => Waiting(m)'
          /\ queue = <<>> => Waiting("exec")'
          /\ ~Found(item) => Waiting("load")'
      BY <3>1, <3>2, LoadHomeFacts
    <3>4. ContainerOK'
      BY <1>1, <1>2, <3>1, CommitKeeps
    <3>5. Expected'
      <4> HIDE DEF t
      <4> QED BY <1>1, <1>2, <1>3, <3>1, <3>3, CommitExpects DEF NavInv
    <3> QED BY <3>3, <3>4, <3>5
  <2>2. CASE item \notin BottomItems
    <3>1. queue' = queue /\ LoadHomeFragment(item, looper)
      BY <2>2 DEF SelectDrawer
    <3>2. /\ looper' \in Seq({"load", "exec"}) /\ drawerOpen' = FALSE
          /\ \A m : Waiting(m) => Waiting(m)'
          /\ ~Found(item) => Waiting("load")'
      BY <1>1, <3>1, LoadHomeFacts DEF Waiting
    <3>3. ContainerOK' /\ State' = State
      BY <1>1, <1>2, <3>1, ContainerLeft
    <3>4. Expected'
      BY <1>2, <3>1, <3>2, <3>3 DEF NavInv, Expected
    <3> QED BY <3>2, <3>3, <3>4
  <2> QED BY <2>1, <2>2
<1>5. TransactionTypes'
  BY <1>4, ContainerTypes, PTL
<1>6. NavTypeOK'
  BY <1>1, <1>2, <1>4, <1>5 DEF NavTypeOK, TransactionTypes, ContainerOK
<1>7. ChosenComes'
  BY <1>2, <1>4 DEF ChosenComes
<1> QED BY <1>2, <1>4, <1>6, <1>7 DEF NavInv, FieldsAgree

\* Back to the home fragment.
LEMMA BackToHomeKeeps ==
  ASSUME NavInv, BackToHome
  PROVE  NavInv'
<1>1. NavTypeOK /\ ContainerOK /\ looper \in Seq({"load", "exec"}) /\ Home \in DrawerItems
  BY ItemsAssumption DEF NavInv, NavTypeOK
<1>2. /\ navItemIndex' = Home /\ CURRENT_TAG' = Home
      /\ UNCHANGED <<added, backStack, queue, finished, dropped>>
      /\ LoadHomeFragment(Home, looper)
      /\ chosen' = IF Found(Home) THEN {} ELSE {Home}
  BY DEF BackToHome
<1>3. /\ looper' \in Seq({"load", "exec"}) /\ drawerOpen' = FALSE
      /\ \A m : Waiting(m) => Waiting(m)'
      /\ ~Found(Home) => Waiting("load")'
  BY <1>1, <1>2, LoadHomeFacts DEF Waiting
<1>4. ContainerOK' /\ State' = State
  BY <1>1, <1>2, ContainerLeft
<1>5. Expected'
  BY <1>2, <1>3, <1>4 DEF NavInv, Expected
<1>6. NavTypeOK'
  BY <1>1, <1>2, <1>3 DEF NavTypeOK
<1>7. ChosenComes'
  BY <1>2, <1>3 DEF ChosenComes
<1> QED BY <1>2, <1>4, <1>5, <1>6, <1>7 DEF NavInv, FieldsAgree

\* Opening and closing the drawer.
LEMMA DrawerKeeps ==
  ASSUME NavInv, OpenDrawer \/ CloseDrawer
  PROVE  NavInv'
<1>1. /\ UNCHANGED <<navItemIndex, CURRENT_TAG, added, backStack, queue, looper, finished,
                     dropped, chosen>>
      /\ drawerOpen' \in BOOLEAN
  BY DEF OpenDrawer, CloseDrawer
<1>2. ContainerOK' /\ State' = State
  BY <1>1, ContainerLeft DEF NavInv
<1>3. NavTypeOK'
  BY <1>1 DEF NavInv, NavTypeOK
<1> QED BY <1>1, <1>2, <1>3 DEF NavInv, FieldsAgree, Expected, ChosenComes, Waiting

\* Executing the queue and popping what comes of it.
LEMMA BackPopsKeeps ==
  ASSUME NavInv, BackPops
  PROVE  NavInv'
<1>1. /\ UNCHANGED <<navItemIndex, CURRENT_TAG, drawerOpen, looper, dropped>>
      /\ queue' = <<>> /\ chosen' = {} /\ finished' \in BOOLEAN
      /\ ~finished
  BY DEF BackPops, NavInv, NavTypeOK
<1>2. ContainerOK /\ State \in ContainerState /\ Apart(State)
  BY StateFacts DEF NavInv
<1> DEFINE all == AllExecuted
           s == IF all.backStack # <<>> THEN Popped(all) ELSE all
<1>3. /\ all \in ContainerState
      /\ \A f : Knows(all, f) => Knows(State, f) \/ f \in Queued
      /\ Apart(all)
      /\ Rooted(State) \/ (\E k \in DOMAIN queue : Replaces(queue[k])) => Rooted(all)
  BY <1>2, AllExecutedKeeps DEF ContainerOK
<1>4. Becomes(s)
  BY DEF BackPops
<1> HIDE DEF all
<1>5. /\ s \in ContainerState
      /\ \A f : Knows(s, f) => Knows(State, f) \/ f \in Queued
      /\ Apart(s)
      /\ Rooted(State) \/ (\E k \in DOMAIN queue : Replaces(queue[k])) => Rooted(s)
  BY <1>3, PoppedKeeps
<1> HIDE DEF s
<1>6. ContainerOK' /\ State' = s
  BY <1>1, <1>2, <1>4, <1>5, BecomesKeeps
<1>7. Expected'
  BY <1>1, <1>5, <1>6 DEF NavInv, Expected, Waiting
<1>8. TransactionTypes'
  BY <1>6, ContainerTypes, PTL
<1>9. NavTypeOK'
  BY <1>1, <1>6, <1>8 DEF NavInv, NavTypeOK, TransactionTypes, ContainerOK
<1> QED BY <1>1, <1>6, <1>7, <1>9 DEF NavInv, FieldsAgree, ChosenComes

\* The posted Runnable, which reads the fields now.
LEMMA RunLoadKeeps ==
  ASSUME NavInv, RunLoad
  PROVE  NavInv'
<1> DEFINE t == [fragment |-> NewFragment(navItemIndex, CURRENT_TAG), back |-> FALSE]
<1>1. /\ NavTypeOK /\ ContainerOK /\ looper \in Seq({"load", "exec"})
      /\ navItemIndex \in DrawerItems /\ CURRENT_TAG = navItemIndex
  BY DEF NavInv, NavTypeOK, FieldsAgree
<1>2. /\ looper # <<>> /\ Head(looper) = "load"
      /\ queue' = Append(queue, t)
      /\ looper' = IF queue = <<>> THEN Append(Tail(looper), "exec") ELSE Tail(looper)
      /\ UNCHANGED <<navItemIndex, CURRENT_TAG, drawerOpen, added, backStack, finished,
                     dropped, chosen>>
  BY DEF RunLoad
<1>3. t \in Transaction /\ t.fragment.kind = navItemIndex /\ Replaces(t)
  BY <1>1, NewFragmentIsNew DEF Transaction, ContainerOK, Replaces
<1>4. ContainerOK'
  BY <1>1, <1>2, CommitKeeps
<1> HIDE DEF t
<1>5. /\ looper' \in Seq({"load", "exec"})
      /\ Waiting("exec") => Waiting("exec")'
      /\ queue = <<>> => Waiting("exec")'
  <2>1. Tail(looper) \in Seq({"load", "exec"})
    BY <1>1, <1>2, HeadTailProperties
  <2>2. Waiting("exec") => Holds(Tail(looper), "exec")
    BY <1>1, <1>2, LooperFacts DEF Waiting
  <2>3. /\ Append(Tail(looper), "exec") \in Seq({"load", "exec"})
        /\ \A m : Holds(Append(Tail(looper), "exec"), m) <=> Holds(Tail(looper), m) \/ m = "exec"
    <3> DEFINE rest == Tail(looper)
    <3>1. rest \in Seq({"load", "exec"}) /\ "exec" \in {"load", "exec"}
      BY <2>1
    <3> HIDE DEF rest
    <3>2. /\ Append(rest, "exec") \in Seq({"load", "exec"})
          /\ \A m : Holds(Append(rest, "exec"), m) <=> Holds(rest, m) \/ m = "exec"
      BY <3>1, LooperFacts
    <3> QED BY <3>2 DEF rest
  <2> QED BY <1>2, <2>1, <2>2, <2>3 DEF Waiting
<1>6. queue' # <<>> /\ Last(queue') = t /\ \E k \in DOMAIN queue' : Replaces(queue'[k])
  BY <1>1, <1>2, <1>3, QueueFacts
<1>7. Expected'
  BY <1>5, <1>6 DEF NavInv, Expected
<1>8. TransactionTypes'
  BY <1>4, ContainerTypes, PTL
<1>9. NavTypeOK'
  BY <1>1, <1>2, <1>4, <1>5, <1>8 DEF NavTypeOK, TransactionTypes, ContainerOK
<1>10. ChosenComes'
  BY <1>2, <1>3, <1>6 DEF NavInv, ChosenComes
<1> QED BY <1>2, <1>4, <1>7, <1>9, <1>10 DEF NavInv, FieldsAgree

\* The posted execution.
LEMMA RunExecKeeps ==
  ASSUME NavInv, RunExec
  PROVE  NavInv'
<1>1. /\ looper # <<>> /\ Head(looper) = "exec" /\ looper' = Tail(looper)
      /\ UNCHANGED <<navItemIndex, CURRENT_TAG, drawerOpen, finished, dropped, chosen>>
      /\ queue' = <<>> /\ Becomes(AllExecuted)
  BY DEF RunExec
<1>2. ContainerOK /\ State \in ContainerState /\ Apart(State) /\ State.added = added
      /\ looper \in Seq({"load", "exec"})
  BY StateFacts DEF NavInv, NavTypeOK
<1>3. /\ AllExecuted \in ContainerState
      /\ \A f : Knows(AllExecuted, f) => Knows(State, f) \/ f \in Queued
      /\ Apart(AllExecuted)
      /\ Rooted(State) \/ (\E k \in DOMAIN queue : Replaces(queue[k])) => Rooted(AllExecuted)
      /\ queue = <<>> => AllExecuted.added = added
      /\ queue # <<>> => AllExecuted.added = {Last(queue).fragment}
  BY <1>2, AllExecutedKeeps DEF ContainerOK
<1>4. ContainerOK' /\ State' = AllExecuted
  BY <1>1, <1>2, <1>3, BecomesKeeps
<1>5. looper' \in Seq({"load", "exec"}) /\ (Waiting("load") => Waiting("load")')
  BY <1>1, <1>2, HeadTailProperties, LooperFacts DEF Waiting
<1>6. Expected'
  BY <1>1, <1>3, <1>4, <1>5 DEF NavInv, Expected
<1>7. TransactionTypes'
  BY <1>4, ContainerTypes, PTL
<1>8. NavTypeOK'
  BY <1>1, <1>4, <1>5, <1>7 DEF NavInv, NavTypeOK, TransactionTypes, ContainerOK
<1>9. ChosenComes'
  <2>1. added' = AllExecuted.added
    BY <1>1 DEF Becomes
  <2>2. \A f : {g.kind : g \in {f}} = {f.kind}
    OBVIOUS
  <2> QED BY <1>1, <1>3, <1>5, <2>1, <2>2 DEF NavInv, ChosenComes
<1> QED BY <1>1, <1>4, <1>6, <1>8, <1>9 DEF NavInv, FieldsAgree

\* A configuration change.
LEMMA RecreateKeeps ==
  ASSUME NavInv, Recreate
  PROVE  NavInv'
<1>1. /\ looper' = <<>> /\ queue' = <<>> /\ chosen' = {} /\ Becomes(AllExecuted)
      /\ dropped' = (dropped \/ Waiting("load"))
      /\ UNCHANGED <<navItemIndex, CURRENT_TAG, drawerOpen, finished>>
  BY DEF Recreate, Waiting, Holds
<1>2. ContainerOK /\ State \in ContainerState /\ Apart(State)
  BY StateFacts DEF NavInv
<1>3. /\ AllExecuted \in ContainerState
      /\ \A f : Knows(AllExecuted, f) => Knows(State, f) \/ f \in Queued
      /\ Apart(AllExecuted)
      /\ Rooted(State) \/ (\E k \in DOMAIN queue : Replaces(queue[k])) => Rooted(AllExecuted)
  BY <1>2, AllExecutedKeeps DEF ContainerOK
<1>4. ContainerOK' /\ State' = AllExecuted
  BY <1>1, <1>2, <1>3, BecomesKeeps
<1>5. Expected'
  BY <1>1, <1>3, <1>4 DEF NavInv, Expected
<1>6. TransactionTypes'
  BY <1>4, ContainerTypes, PTL
<1>7. NavTypeOK'
  <2>1. looper' \in Seq({"load", "exec"})
    BY <1>1, EmptySeq
  <2>2. dropped' \in BOOLEAN
    BY <1>1 DEF NavInv, NavTypeOK
  <2> QED BY <1>1, <1>4, <1>6, <2>1, <2>2 DEF NavInv, NavTypeOK, TransactionTypes, ContainerOK
<1> QED BY <1>1, <1>4, <1>5, <1>7 DEF NavInv, FieldsAgree, ChosenComes

\* A process that is killed and brought back.
LEMMA RestoreKeeps ==
  ASSUME NavInv, Restore
  PROVE  NavInv'
<1>1. /\ navItemIndex' = Home /\ CURRENT_TAG' = Home /\ chosen' = {}
      /\ UNCHANGED <<drawerOpen, added, backStack, queue, looper, finished, dropped>>
  BY DEF Restore
<1>2. ContainerOK' /\ State' = State
  BY <1>1, ContainerLeft DEF NavInv
<1>3. NavTypeOK'
  BY <1>1, ItemsAssumption DEF NavInv, NavTypeOK
<1> QED BY <1>1, <1>2, <1>3 DEF NavInv, FieldsAgree, Expected, ChosenComes, Waiting

\* An activity that has just been created has its first load posted.
LEMMA InitNavInv == NavInit => NavInv
<1> SUFFICES ASSUME NavInit PROVE NavInv
  OBVIOUS
<1> USE DEF NavInit
<1>1. SequencesOK /\ InStack = {} /\ Queued = {}
  BY EmptySeq DEF SequencesOK, InStack, Queued
<1>2. ContainerOK
  <2>1. AllNew
    BY <1>1 DEF AllNew
  <2> QED BY <1>1, <2>1 DEF ContainerOK, TagNamesKind, NothingTwice
<1>3. NavTypeOK
  <2>1. Home \in DrawerItems
    BY ItemsAssumption
  <2>2. looper \in Seq({"load", "exec"})
    BY AppendProperties, EmptySeq
  <2>3. TransactionTypes
    BY <1>2, ContainerTypes
  <2>4. added \subseteq Fragment /\ chosen \subseteq DrawerItems
    BY <2>1
  <2> QED BY <2>1, <2>2, <2>3, <2>4 DEF NavTypeOK, TransactionTypes
<1>4. Waiting("load")
  BY DEF Waiting, Holds
<1> QED BY <1>2, <1>3, <1>4 DEF NavInv, FieldsAgree, Expected, ChosenComes

\* The activity opened again.
LEMMA ReopenKeeps ==
  ASSUME Reopen
  PROVE  NavInv'
<1>1. NavInit'
  BY DEF Reopen, NavInit
<1> QED BY <1>1, InitNavInv, PTL

\* Every step keeps the invariant.
LEMMA NavStep == NavInv /\ [NavNext]_navVars => NavInv'
<1> SUFFICES ASSUME NavInv, [NavNext]_navVars PROVE NavInv'
  OBVIOUS
<1>1. ASSUME NEW item \in BottomItems, SelectBottom(item) PROVE NavInv'
  BY <1>1, SelectBottomKeeps
<1>2. ASSUME NEW item \in DrawerItems, SelectDrawer(item) PROVE NavInv'
  BY <1>2, SelectDrawerKeeps
<1>3. CASE OpenDrawer \/ CloseDrawer
  BY <1>3, DrawerKeeps
<1>4. CASE BackToHome
  BY <1>4, BackToHomeKeeps
<1>5. CASE BackPops
  BY <1>5, BackPopsKeeps
<1>6. CASE RunLoad
  BY <1>6, RunLoadKeeps
<1>7. CASE RunExec
  BY <1>7, RunExecKeeps
<1>8. CASE Recreate
  BY <1>8, RecreateKeeps
<1>9. CASE Restore
  BY <1>9, RestoreKeeps
<1>10. CASE Reopen
  BY <1>10, ReopenKeeps
<1>11. CASE UNCHANGED navVars
  <2>1. ContainerOK' /\ State' = State
    BY <1>11, ContainerLeft DEF navVars, NavInv
  <2>2. NavTypeOK'
    BY <1>11 DEF navVars, NavInv, NavTypeOK
  <2> QED BY <1>11, <2>1, <2>2 DEF navVars, NavInv, FieldsAgree, Expected, ChosenComes, Waiting
<1> QED BY <1>1, <1>2, <1>3, <1>4, <1>5, <1>6, <1>7, <1>8, <1>9, <1>10, <1>11 DEF NavNext, PressBack

\* The invariant holds always.
LEMMA NavAlways == NavSpec => []NavInv
BY InitNavInv, NavStep, PTL DEF NavSpec

-----------------------------------------------------------------------------
\* Every variable of the navigation keeps its type.
THEOREM NavTypeCorrect == NavSpec => []NavTypeOK
BY NavAlways, PTL DEF NavInv

\* Whatever other handlers write to the two static fields between a post and
\* its run (loadHomeFragment), a tag names the kind of the fragment it is on.
THEOREM TagsTrue == NavSpec => []TagNamesKind
BY NavAlways, PTL DEF NavInv, ContainerOK

\* No pop adds a fragment that is there, for any number of entries.
THEOREM NoPopTwice == NavSpec => []NothingTwice
BY NavAlways, PTL DEF NavInv, ContainerOK

\* With nothing under way the container shows a fragment: it is rooted.
THEOREM ContainerNeverBlank == NavSpec => []NeverBlank
<1>1. ASSUME NavInv PROVE NeverBlank
  <2> SUFFICES ASSUME looper = <<>>, ~finished, ~dropped PROVE added # {}
    BY DEF NeverBlank, Settled
  <2>1. \A m : ~Waiting(m)
    BY DEF Waiting, Holds
  <2>2. queue = <<>>
    BY <1>1, <2>1 DEF NavInv, Expected
  <2>3. Rooted(State)
    BY <1>1, <2>1, <2>2 DEF NavInv, Expected
  <2> QED BY <2>3 DEF Rooted, State
<1> QED BY <1>1, NavAlways, PTL

\* What the drawer chose is what the idle screen shows, alone.
THEOREM ChosenIsShown == NavSpec => []ChosenShown
<1>1. ASSUME NavInv PROVE ChosenShown
  <2> SUFFICES ASSUME looper = <<>>, NEW item \in chosen PROVE {f.kind : f \in added} = {item}
    BY DEF ChosenShown, Settled
  <2>1. \A m : ~Waiting(m)
    BY DEF Waiting, Holds
  <2>2. queue = <<>>
    BY <1>1, <2>1 DEF NavInv, Expected
  <2> QED BY <1>1, <2>1, <2>2 DEF NavInv, ChosenComes
<1> QED BY <1>1, NavAlways, PTL

=============================================================================
