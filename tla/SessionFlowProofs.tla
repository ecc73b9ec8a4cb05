------------------------- MODULE SessionFlowProofs -------------------------
(***************************************************************************)
(* The safety properties of SessionFlow, for any number of activities,     *)
(* requests and timers.                                                    *)
(***************************************************************************)
EXTENDS SessionFlow, SequenceTheorems, FiniteSetTheorems, TLAPS

\* A screen as the system keeps it: the open activities are distinct, nothing
\* is left of one that is gone, and a splash screen is nowhere but on top.
ScreenOK(s) ==
  /\ s \in Screens
  /\ \A i, j \in DOMAIN s.task : s.task[i] = s.task[j] => i = j
  /\ \A i \in DOMAIN s.task :
       /\ s.page[s.task[i]] # Gone
       /\ s.page[s.task[i]] = "splash" => i = Len(s.task)
  /\ s.started \subseteq s.created
  /\ \A a \in Activities : s.page[a] = Gone => a \notin s.created \union s.spinner

\* What is on top of the task runs.
Shown(s) == s.task # <<>> => Last(s.task) \in s.started

\* Main pages are at the top of the task only.
MainLast(s) ==
  \A i \in DOMAIN s.task : s.page[s.task[i]] = "main" => i = Len(s.task)

\* A listener is bound to an activity that has not stopped.
Heard(s, asked) ==
  \A r \in Requests : asked[r].live => asked[r].from \in s.started

\* A signup page that has not stopped spins for a request whose listener is bound.
Spins(s, asked) ==
  \A a \in s.spinner \intersect s.started :
    s.page[a] = "signup" => \E r \in Requests : asked[r].from = a /\ asked[r].live

RequestsOK(asked) ==
  asked \in [Requests -> {Idle} \union [from : Activities, live : BOOLEAN]]

\* The inductive invariant.
FlowInv ==
  /\ ScreenOK(screen)
  /\ front => screen.task # <<>> /\ Shown(screen)
  /\ RequestsOK(requests)
  /\ Heard(screen, requests)
  /\ Spins(screen, requests)
  /\ ~raced => MainLast(screen)
  /\ user \in BOOLEAN /\ loggedOut \in BOOLEAN /\ raced \in BOOLEAN
  /\ timers \in 0..MaxTimers


-----------------------------------------------------------------------------
\* What taking the element at i out of a sequence leaves.
LEMMA RemovedAt ==
  ASSUME NEW S, NEW s \in Seq(S), NEW i \in 1..Len(s)
  PROVE  /\ RemoveAt(s, i) \in Seq(S)
         /\ Len(RemoveAt(s, i)) = Len(s) - 1
         /\ \A k \in 1..(Len(s) - 1) : RemoveAt(s, i)[k] = IF k < i THEN s[k] ELSE s[k + 1]
<1> DEFINE n == Len(s)
           left == SubSeq(s, 1, i - 1)
           right == SubSeq(s, i + 1, n)
<1>1. n \in Nat /\ \A k \in 1..n : s[k] \in S
  BY LenProperties, ElementOfSeq
<1>2. left \in Seq(S) /\ Len(left) = i - 1 /\ \A k \in 1..(i - 1) : left[k] = s[k]
  <2>1. \A k \in 1..(i - 1) : s[k] \in S
    BY <1>1
  <2>2. /\ left \in Seq(S)
        /\ Len(left) = IF 1 <= i - 1 THEN (i - 1) - 1 + 1 ELSE 0
        /\ \A k \in 1..((i - 1) - 1 + 1) : left[k] = s[1 + k - 1]
    <3> HIDE DEF n
    <3> QED BY <2>1, SubSeqProperties
  <2> HIDE DEF left
  <2>3. \A k \in 1..(i - 1) : k \in 1..((i - 1) - 1 + 1) /\ 1 + k - 1 = k
    BY <1>1
  <2> QED BY <1>1, <2>2, <2>3
<1>3. right \in Seq(S) /\ Len(right) = n - i /\ \A k \in 1..(n - i) : right[k] = s[k + i]
  <2>1. \A k \in (i + 1)..n : s[k] \in S
    BY <1>1
  <2>2. /\ right \in Seq(S)
        /\ Len(right) = IF i + 1 <= n THEN n - (i + 1) + 1 ELSE 0
        /\ \A k \in 1..(n - (i + 1) + 1) : right[k] = s[(i + 1) + k - 1]
    BY <1>1, <2>1, SubSeqProperties
  <2> HIDE DEF right
  <2>3. \A k \in 1..(n - i) : k \in 1..(n - (i + 1) + 1) /\ (i + 1) + k - 1 = k + i
    BY <1>1
  <2> QED BY <1>1, <2>2, <2>3
<1> HIDE DEF left, right
<1>4. /\ left \o right \in Seq(S)
      /\ Len(left \o right) = Len(left) + Len(right)
      /\ \A k \in 1..(Len(left) + Len(right)) :
           (left \o right)[k] = IF k <= Len(left) THEN left[k] ELSE right[k - Len(left)]
  BY <1>2, <1>3, ConcatProperties
<1>5. ASSUME NEW k \in 1..(n - 1)
      PROVE  (left \o right)[k] = IF k < i THEN s[k] ELSE s[k + 1]
  <2>1. k \in 1..(Len(left) + Len(right))
    BY <1>1, <1>2, <1>3
  <2>2. CASE k < i
    BY <1>1, <1>2, <1>4, <2>1, <2>2
  <2>3. CASE ~(k < i)
    <3>1. k - (i - 1) \in 1..(n - i) /\ (k - (i - 1)) + i = k + 1 /\ ~(k <= i - 1)
      BY <1>1, <2>3
    <3> QED BY <1>2, <1>3, <1>4, <2>1, <2>3, <3>1
  <2> QED BY <2>2, <2>3
<1>6. RemoveAt(s, i) = left \o right
  BY DEF RemoveAt, left, right
<1> QED BY <1>1, <1>2, <1>3, <1>4, <1>5, <1>6

\* Taking an activity out of the task: the others stay in their order, and the
\* last one stays last.
LEMMA WithoutFacts ==
  ASSUME NEW S, NEW s \in Seq(S), NEW a,
         \A i, j \in DOMAIN s : s[i] = s[j] => i = j
  PROVE  LET w == Without(s, a)
         IN /\ w \in Seq(S)
            /\ \A i, j \in DOMAIN w : w[i] = w[j] => i = j
            /\ \A k \in DOMAIN w :
                 /\ w[k] # a
                 /\ \E j \in DOMAIN s : w[k] = s[j] /\ (j = Len(s) => k = Len(w))
            /\ s # <<>> /\ Last(s) # a => w # <<>> /\ Last(w) = Last(s)
<1> DEFINE n == Len(s)
           w == Without(s, a)
<1>1. n \in Nat /\ DOMAIN s = 1..n
  BY LenProperties
<1>2. CASE a \notin ToSet(s)
  <2>1. w = s
    BY <1>2 DEF Without
  <2>2. \A k \in DOMAIN s : s[k] # a
    BY <1>2 DEF ToSet
  <2> QED BY <2>1, <2>2
<1>3. CASE a \in ToSet(s)
  <2> DEFINE i == CHOOSE k \in DOMAIN s : s[k] = a
  <2>1. i \in 1..n /\ s[i] = a
    BY <1>1, <1>3 DEF ToSet
  <2>2. w = RemoveAt(s, i)
    BY <1>3 DEF Without
  <2> HIDE DEF i
  <2>3. /\ w \in Seq(S)
        /\ Len(w) = n - 1
        /\ \A k \in 1..(n - 1) : w[k] = IF k < i THEN s[k] ELSE s[k + 1]
    <3> HIDE DEF w
    <3>1. i \in 1..Len(s)
      BY <2>1
    <3>2. /\ RemoveAt(s, i) \in Seq(S)
          /\ Len(RemoveAt(s, i)) = Len(s) - 1
          /\ \A k \in 1..(Len(s) - 1) : RemoveAt(s, i)[k] = IF k < i THEN s[k] ELSE s[k + 1]
      BY <3>1, RemovedAt
    <3> QED BY <2>2, <3>2
  <2> HIDE DEF w, n
  <2>4. DOMAIN w = 1..(n - 1) /\ Len(w) = n - 1
    BY <2>3, LenProperties
  <2> DEFINE from(k) == IF k < i THEN k ELSE k + 1
  <2>5. ASSUME NEW k \in 1..(n - 1)
        PROVE  /\ from(k) \in 1..n /\ from(k) # i /\ w[k] = s[from(k)]
               /\ from(k) = n => k = n - 1
    BY <1>1, <2>1, <2>3
  <2>6. \A k, l \in 1..(n - 1) : from(k) = from(l) => k = l
    BY <1>1, <2>1
  <2> HIDE DEF from
  <2>7. \A k, l \in 1..(n - 1) : w[k] = w[l] => k = l
    BY <1>1, <2>5, <2>6
  <2>8. \A k \in 1..(n - 1) : w[k] # a
    BY <1>1, <2>1, <2>5
  <2>9. \A k \in 1..(n - 1) : \E j \in 1..n : w[k] = s[j] /\ (j = n => k = n - 1)
    BY <2>5
  <2>10. ASSUME s # <<>>, s[n] # a
         PROVE  w # <<>> /\ w[n - 1] = s[n]
    <3>1. i < n /\ n - 1 \in 1..(n - 1) /\ ~(n - 1 < i) /\ (n - 1) + 1 = n
      BY <1>1, <2>1, <2>10
    <3>2. w[n - 1] = s[n]
      BY <1>1, <2>3, <3>1
    <3>3. w # <<>>
      BY <2>4, <3>1
    <3> QED BY <3>2, <3>3
  <2> QED BY <1>1, <2>3, <2>4, <2>7, <2>8, <2>9, <2>10 DEF w, n, Last
<1> QED BY <1>2, <1>3

-----------------------------------------------------------------------------
\* A paused screen is the same without a splash screen on top of the task.
LEMMA PausedFacts ==
  ASSUME NEW s, ScreenOK(s)
  PROVE  LET p == Paused(s)
         IN /\ ScreenOK(p)
            /\ MainLast(s) => MainLast(p)
            /\ p.page = s.page /\ p.created = s.created
            /\ p.started = s.started /\ p.spinner = s.spinner
            /\ \A k \in DOMAIN p.task :
                 k \in DOMAIN s.task /\ p.task[k] = s.task[k] /\ s.page[p.task[k]] # "splash"
<1> DEFINE n == Len(s.task)
           p == Paused(s)
<1>1. s \in Screens /\ s.task \in Seq(Activities) /\ n \in Nat /\ DOMAIN s.task = 1..n
  <2>1. s \in Screens /\ s.task \in Seq(Activities)
    BY DEF ScreenOK, Screens
  <2> QED BY <2>1, LenProperties
<1>2. CASE s.task # <<>> /\ s.page[Last(s.task)] = "splash"
  <2>1. p = [s EXCEPT !.task = Front(@)]
    BY <1>2 DEF Paused
  <2>2. Front(s.task) \in Seq(Activities) /\ Len(Front(s.task)) = n - 1
        /\ \A k \in 1..(n - 1) : Front(s.task)[k] = s.task[k]
    <3>1. n - 1 \in Nat
      BY <1>1, <1>2, EmptySeq
    <3>2. \A k \in 1..(n - 1) : s.task[k] \in Activities
      BY <1>1, ElementOfSeq
    <3>3. /\ SubSeq(s.task, 1, n - 1) \in Seq(Activities)
          /\ Len(SubSeq(s.task, 1, n - 1)) = IF 1 <= n - 1 THEN (n - 1) - 1 + 1 ELSE 0
          /\ \A k \in 1..((n - 1) - 1 + 1) : SubSeq(s.task, 1, n - 1)[k] = s.task[1 + k - 1]
      <4> HIDE DEF n
      <4> QED BY <1>1, <3>1, <3>2, SubSeqProperties
    <3>4. \A k \in 1..(n - 1) : k \in 1..((n - 1) - 1 + 1) /\ 1 + k - 1 = k
      BY <1>1
    <3>5. Front(s.task) = SubSeq(s.task, 1, n - 1)
      BY DEF Front
    <3> HIDE DEF n
    <3> QED BY <1>1, <3>1, <3>3, <3>4, <3>5
  <2>3. /\ p \in Screens /\ p.task = Front(s.task)
        /\ p.page = s.page /\ p.created = s.created
        /\ p.started = s.started /\ p.spinner = s.spinner
    BY <1>1, <2>1, <2>2 DEF Screens
  <2>4. DOMAIN p.task = 1..(n - 1) /\ Len(p.task) = n - 1
    BY <2>2, <2>3, LenProperties
  <2> HIDE DEF n, p
  <2>5. ASSUME NEW k \in 1..(n - 1)
        PROVE  k \in 1..n /\ k # n /\ p.task[k] = s.task[k] /\ s.page[p.task[k]] # "splash"
    <3>1. k \in 1..n /\ k # n /\ p.task[k] = s.task[k]
      BY <1>1, <2>2, <2>3
    <3> QED BY <1>1, <3>1 DEF ScreenOK, n
  <2>6. ScreenOK(p)
    BY <1>1, <2>3, <2>4, <2>5 DEF ScreenOK
  <2>7. MainLast(s) => MainLast(p)
    BY <1>1, <2>3, <2>4, <2>5 DEF MainLast, n
  <2> QED BY <1>1, <2>3, <2>4, <2>5, <2>6, <2>7 DEF p
<1>3. CASE s.task = <<>>
  BY <1>1, <1>3 DEF Paused
<1>4. CASE s.task # <<>> /\ s.page[Last(s.task)] # "splash"
  <2>1. p = s
    BY <1>4 DEF Paused
  <2>2. ASSUME NEW k \in 1..n PROVE s.page[s.task[k]] # "splash"
    BY <1>1, <1>4 DEF ScreenOK, Last
  <2> HIDE DEF p
  <2> QED BY <1>1, <2>1, <2>2 DEF p
<1> QED BY <1>2, <1>3, <1>4

\* Page q of a fresh activity a on top of what is left of s.
Opened(s, t, a, q) ==
  /\ a \in Activities /\ s.page[a] = Gone
  /\ t.task # <<>> /\ Last(t.task) = a
  /\ \A k \in DOMAIN t.task :
       k # Len(t.task) => /\ k \in DOMAIN s.task /\ t.task[k] = s.task[k]
                          /\ s.page[t.task[k]] # "splash"
  /\ t.page = [s.page EXCEPT ![a] = q]
  /\ t.started = s.started \union {a}
  /\ t.spinner = s.spinner

\* What starting an activity does to the screen.
LEMMA StartedFacts ==
  ASSUME NEW s, ScreenOK(s), Free(s) # {}, NEW p \in Pages, NEW u \in BOOLEAN
  PROVE  /\ ScreenOK(Started(s, p, u))
         /\ \E a \in Activities :
              Opened(s, Started(s, p, u), a, IF p = "login" /\ u THEN "main" ELSE p)
<1> DEFINE a == CHOOSE n \in Free(s) : TRUE
           q == IF p = "login" /\ u THEN "main" ELSE p
           l == Paused(s)
           n == Len(l.task)
           t == Started(s, p, u)
<1>1. a \in Activities /\ s.page[a] = Gone
  BY DEF Free
<1>2. q \in Pages /\ q # Gone
  BY DEF Pages, Gone
<1>3. /\ ScreenOK(l)
      /\ l.page = s.page /\ l.created = s.created
      /\ l.started = s.started /\ l.spinner = s.spinner
      /\ \A k \in DOMAIN l.task :
           k \in DOMAIN s.task /\ l.task[k] = s.task[k] /\ s.page[l.task[k]] # "splash"
  BY PausedFacts
<1>4. t = [l EXCEPT !.task = Append(@, a), !.page[a] = q,
                    !.created = @ \union {a}, !.started = @ \union {a}]
  BY DEF Started
<1> HIDE DEF a, q, l, t
<1>5. l \in Screens /\ l.task \in Seq(Activities) /\ n \in Nat /\ DOMAIN l.task = 1..n
  <2>1. l \in Screens /\ l.task \in Seq(Activities)
    BY <1>3 DEF ScreenOK, Screens
  <2> QED BY <2>1, LenProperties
<1>6. /\ t \in Screens /\ t.task = Append(l.task, a)
      /\ t.page = [l.page EXCEPT ![a] = q]
      /\ t.created = l.created \union {a} /\ t.started = l.started \union {a}
      /\ t.spinner = l.spinner
  <2>1. Append(l.task, a) \in Seq(Activities)
    BY <1>1, <1>5, AppendProperties
  <2> QED BY <1>1, <1>2, <1>4, <1>5, <2>1 DEF Screens
<1>7. /\ Append(l.task, a) \in Seq(Activities)
      /\ Append(l.task, a) # <<>>
      /\ Len(Append(l.task, a)) = n + 1
      /\ \A k \in 1..n : Append(l.task, a)[k] = l.task[k]
      /\ Append(l.task, a)[n + 1] = a
  BY <1>1, <1>5, AppendProperties
<1> HIDE DEF n
<1>8. /\ DOMAIN t.task = 1..(n + 1) /\ Len(t.task) = n + 1 /\ t.task # <<>>
      /\ \A k \in 1..n : t.task[k] = l.task[k]
      /\ t.task[n + 1] = a
  BY <1>6, <1>7, LenProperties
<1>9. \A k \in 1..n : l.task[k] \in Activities /\ l.task[k] # a
  <2>1. \A k \in 1..n : l.task[k] \in Activities
    BY <1>5, ElementOfSeq DEF n
  <2>2. \A k \in 1..n : l.page[l.task[k]] # Gone
    BY <1>3, <1>5 DEF ScreenOK
  <2> QED BY <1>1, <1>3, <2>1, <2>2
<1>10. /\ t.page[a] = q
       /\ \A b \in Activities : b # a => t.page[b] = l.page[b]
  BY <1>1, <1>5, <1>6 DEF Screens
<1>11. ScreenOK(t)
  <2>1. ASSUME NEW i \in 1..(n + 1), NEW j \in 1..(n + 1), t.task[i] = t.task[j]
        PROVE  i = j
    <3>1. CASE i \in 1..n /\ j \in 1..n
      BY <1>3, <1>5, <1>8, <2>1, <3>1 DEF ScreenOK
    <3>2. CASE ~(i \in 1..n /\ j \in 1..n)
      <4>1. \A k \in 1..n : t.task[k] # a
        BY <1>8, <1>9
      <4>2. i = n + 1 \/ j = n + 1
        BY <1>5, <3>2
      <4>3. \A k \in 1..(n + 1) : t.task[k] = a => k = n + 1
        BY <1>5, <4>1
      <4> QED BY <1>8, <2>1, <4>2, <4>3
    <3> QED BY <3>1, <3>2
  <2>2. ASSUME NEW i \in 1..(n + 1)
        PROVE  t.page[t.task[i]] # Gone /\ (t.page[t.task[i]] = "splash" => i = n + 1)
    <3>1. CASE i = n + 1
      BY <1>2, <1>8, <1>10, <3>1
    <3>2. CASE i # n + 1
      <4>1. i \in 1..n
        BY <1>5, <3>2
      <4>2. t.page[t.task[i]] = l.page[l.task[i]]
        BY <1>8, <1>9, <1>10, <4>1
      <4> QED BY <1>3, <1>5, <4>1, <4>2 DEF ScreenOK
    <3> QED BY <3>1, <3>2
  <2>3. t.started \subseteq t.created
    BY <1>3, <1>6 DEF ScreenOK
  <2>4. ASSUME NEW b \in Activities, t.page[b] = Gone
        PROVE  b \notin t.created \union t.spinner
    BY <1>2, <1>3, <1>6, <1>10, <2>4 DEF ScreenOK
  <2> QED BY <1>6, <1>8, <2>1, <2>2, <2>3, <2>4 DEF ScreenOK
<1>12. Opened(s, t, a, q)
  <2>1. \A k \in 1..(n + 1) : k # n + 1 => k \in 1..n
    BY <1>5
  <2>2. ASSUME NEW k \in DOMAIN t.task, k # Len(t.task)
        PROVE  k \in DOMAIN s.task /\ t.task[k] = s.task[k] /\ s.page[t.task[k]] # "splash"
    <3>1. k \in DOMAIN l.task /\ t.task[k] = l.task[k]
      BY <1>5, <1>8, <2>1, <2>2
    <3> QED BY <1>3, <3>1
  <2>3. Last(t.task) = a
    BY <1>8 DEF Last
  <2> QED BY <1>1, <1>3, <1>6, <1>8, <2>2, <2>3 DEF Opened
<1> QED BY <1>1, <1>11, <1>12 DEF t, q

\* A page opened on top runs, takes nothing from the requests of the others,
\* and covers no main page unless one was on top.
LEMMA OpenedKeeps ==
  ASSUME NEW s, ScreenOK(s), NEW t, ScreenOK(t), NEW a, NEW q, Opened(s, t, a, q),
         NEW asked
  PROVE  /\ Shown(t)
         /\ Heard(s, asked) => Heard(t, asked)
         /\ Spins(s, asked) => Spins(t, asked)
         /\ MainLast(s) /\ (s.task # <<>> => s.page[Last(s.task)] # "main") => MainLast(t)
<1>1. /\ a \in Activities /\ s.page[a] = Gone
      /\ Last(t.task) = a
      /\ t.page = [s.page EXCEPT ![a] = q]
      /\ t.started = s.started \union {a}
      /\ t.spinner = s.spinner
  BY DEF Opened
<1>2. s.page \in [Activities -> Pages \union {Gone}] /\ s.spinner \subseteq Activities
  BY DEF ScreenOK, Screens
<1>3. \A b \in Activities : b # a => t.page[b] = s.page[b]
  BY <1>1, <1>2
<1>4. Shown(t)
  BY <1>1 DEF Shown
<1>5. Heard(s, asked) => Heard(t, asked)
  BY <1>1 DEF Heard
<1>6. Spins(s, asked) => Spins(t, asked)
  <2>1. a \notin s.spinner
    BY <1>1 DEF ScreenOK
  <2>2. ASSUME NEW b \in t.spinner \intersect t.started
        PROVE  b \in s.spinner \intersect s.started /\ t.page[b] = s.page[b]
    BY <1>1, <1>2, <1>3, <2>1
  <2> QED BY <2>2 DEF Spins
<1>7. ASSUME MainLast(s), s.task # <<>> => s.page[Last(s.task)] # "main"
      PROVE  MainLast(t)
  <2> SUFFICES ASSUME NEW k \in DOMAIN t.task, k # Len(t.task)
               PROVE  t.page[t.task[k]] # "main"
    BY DEF MainLast
  <2>1. k \in DOMAIN s.task /\ t.task[k] = s.task[k]
    BY DEF Opened
  <2>2. s.task \in Seq(Activities)
    BY DEF ScreenOK, Screens
  <2>3. s.task[k] \in Activities /\ s.task # <<>>
    BY <2>1, <2>2, ElementOfSeq, LenProperties
  <2>4. s.page[s.task[k]] # "main"
    BY <1>7, <2>1, <2>3 DEF MainLast, Last
  <2>5. s.task[k] # a
    BY <1>1, <2>1 DEF ScreenOK
  <2> QED BY <1>3, <2>1, <2>3, <2>4, <2>5
<1> QED BY <1>4, <1>5, <1>6, <1>7

\* Finishing an activity takes it out of the task and changes nothing else.
LEMMA FinishedFacts ==
  ASSUME NEW s, ScreenOK(s), NEW a
  PROVE  LET f == Finished(s, a)
         IN /\ ScreenOK(f)
            /\ MainLast(s) => MainLast(f)
            /\ f.page = s.page /\ f.started = s.started /\ f.spinner = s.spinner
            /\ s.task # <<>> /\ Last(s.task) # a
                 => f.task # <<>> /\ Last(f.task) = Last(s.task)
            /\ \A k \in DOMAIN f.task :
                 /\ f.task[k] # a
                 /\ \E j \in DOMAIN s.task :
                      f.task[k] = s.task[j] /\ (j = Len(s.task) => k = Len(f.task))
<1> DEFINE w == Without(s.task, a)
           f == Finished(s, a)
<1>1. s \in Screens /\ s.task \in Seq(Activities)
  BY DEF ScreenOK, Screens
<1>2. \A i, j \in DOMAIN s.task : s.task[i] = s.task[j] => i = j
  BY DEF ScreenOK
<1>3. /\ w \in Seq(Activities)
      /\ \A i, j \in DOMAIN w : w[i] = w[j] => i = j
      /\ \A k \in DOMAIN w :
           /\ w[k] # a
           /\ \E j \in DOMAIN s.task : w[k] = s.task[j] /\ (j = Len(s.task) => k = Len(w))
      /\ s.task # <<>> /\ Last(s.task) # a => w # <<>> /\ Last(w) = Last(s.task)
  BY <1>1, <1>2, WithoutFacts
<1>4. f = [s EXCEPT !.task = w]
  BY DEF Finished
<1> HIDE DEF w, f
<1>5. /\ f \in Screens /\ f.task = w /\ f.page = s.page /\ f.created = s.created
      /\ f.started = s.started /\ f.spinner = s.spinner
  BY <1>1, <1>3, <1>4 DEF Screens
<1>6. ScreenOK(f)
  <2>1. ASSUME NEW i \in DOMAIN w
        PROVE  s.page[w[i]] # Gone /\ (s.page[w[i]] = "splash" => i = Len(w))
    BY <1>3 DEF ScreenOK
  <2> QED BY <1>3, <1>5, <2>1 DEF ScreenOK
<1>7. MainLast(s) => MainLast(f)
  BY <1>3, <1>5 DEF MainLast
<1> QED BY <1>3, <1>5, <1>6, <1>7 DEF f

\* The page that comes to the top again runs; a signup page that had stopped
\* does not spin.
LEMMA ResumedFacts ==
  ASSUME NEW s, ScreenOK(s), NEW u, NEW asked
  PROVE  LET t == Resumed(s, u)
         IN /\ ScreenOK(t)
            /\ Shown(t)
            /\ t.task = s.task
            /\ MainLast(s) => MainLast(t)
            /\ Heard(s, asked) => Heard(t, asked)
            /\ Spins(s, asked) => Spins(t, asked)
<1> DEFINE t == Resumed(s, u)
           a == Last(s.task)
           q == IF a \notin s.created /\ s.page[a] = "login" /\ u THEN "main" ELSE s.page[a]
<1>1. CASE s.task = <<>>
  BY <1>1 DEF Resumed, Shown
<1>2. CASE s.task # <<>>
  <2>1. /\ s \in Screens /\ s.task \in Seq(Activities)
        /\ s.page \in [Activities -> Pages \union {Gone}] /\ s.spinner \subseteq Activities
    BY DEF ScreenOK, Screens
  <2>2. /\ Len(s.task) \in DOMAIN s.task /\ a \in Activities
        /\ \A i \in DOMAIN s.task : s.task[i] = a => i = Len(s.task)
    <3>1. Len(s.task) \in DOMAIN s.task
      BY <1>2, <2>1, EmptySeq, LenProperties
    <3>2. a \in Activities
      BY <2>1, <3>1, ElementOfSeq, LenProperties DEF Last
    <3> QED BY <3>1, <3>2 DEF ScreenOK, Last
  <2>3. s.page[a] # Gone
    BY <2>2 DEF ScreenOK, Last
  <2>4. q \in Pages /\ (q # s.page[a] => q = "main")
    BY <2>1, <2>2, <2>3 DEF Pages
  <2>5. t = [s EXCEPT !.page[a] = q, !.created = @ \union {a}, !.started = @ \union {a},
                      !.spinner = IF s.page[a] = "signup" THEN @ \ {a} ELSE @]
    BY <1>2 DEF Resumed
  <2> HIDE DEF a, q, t
  <2>6. /\ t \in Screens /\ t.task = s.task /\ t.page = [s.page EXCEPT ![a] = q]
        /\ t.created = s.created \union {a} /\ t.started = s.started \union {a}
        /\ t.spinner = IF s.page[a] = "signup" THEN s.spinner \ {a} ELSE s.spinner
    BY <2>1, <2>2, <2>4, <2>5 DEF Screens
  <2>7. t.page[a] = q /\ \A b \in Activities : b # a => t.page[b] = s.page[b]
    BY <2>1, <2>2, <2>6
  <2>8. ASSUME NEW i \in DOMAIN s.task
        PROVE  s.task[i] \in Activities /\ (s.task[i] = a => i = Len(s.task))
    BY <2>1, <2>2, ElementOfSeq, LenProperties
  <2>9. Gone \notin Pages /\ "main" # "splash"
    BY DEF Gone, Pages
  <2>10. ScreenOK(t)
    <3>1. ASSUME NEW i \in DOMAIN s.task
          PROVE  t.page[s.task[i]] # Gone /\ (t.page[s.task[i]] = "splash" => i = Len(s.task))
      <4>1. CASE s.task[i] = a
        BY <2>4, <2>7, <2>8, <2>9, <4>1
      <4>2. CASE s.task[i] # a
        BY <2>7, <2>8, <4>2 DEF ScreenOK
      <4> QED BY <4>1, <4>2
    <3>2. ASSUME NEW b \in Activities, t.page[b] = Gone
          PROVE  b \notin t.created \union t.spinner
      <4>1. b # a /\ s.page[b] = Gone
        BY <2>4, <2>7, <2>9, <3>2
      <4>2. b \notin s.created \union s.spinner
        BY <4>1 DEF ScreenOK
      <4> QED BY <2>6, <4>1, <4>2
    <3>3. t.started \subseteq t.created
      BY <2>6 DEF ScreenOK
    <3>4. \A i, j \in DOMAIN t.task : t.task[i] = t.task[j] => i = j
      BY <2>6 DEF ScreenOK
    <3> QED BY <2>6, <3>1, <3>2, <3>3, <3>4 DEF ScreenOK
  <2>11. Shown(t)
    BY <2>6 DEF Shown, a
  <2>12. MainLast(s) => MainLast(t)
    <3> SUFFICES ASSUME MainLast(s), NEW i \in DOMAIN s.task, t.page[s.task[i]] = "main"
                 PROVE  i = Len(s.task)
      BY <2>6 DEF MainLast
    <3>1. CASE s.task[i] = a
      BY <2>8, <3>1
    <3>2. CASE s.task[i] # a
      BY <2>7, <2>8, <3>2 DEF MainLast
    <3> QED BY <3>1, <3>2
  <2>13. Heard(s, asked) => Heard(t, asked)
    BY <2>6 DEF Heard
  <2>14. Spins(s, asked) => Spins(t, asked)
    <3> SUFFICES ASSUME Spins(s, asked), NEW b \in t.spinner \intersect t.started,
                        t.page[b] = "signup"
                 PROVE  b \in s.spinner \intersect s.started /\ s.page[b] = "signup"
      BY DEF Spins
    <3>1. CASE b # a
      BY <2>1, <2>6, <2>7, <3>1
    <3>2. CASE b = a
      <4>1. s.page[a] = "signup"
        BY <2>4, <2>7, <3>2
      <4> QED BY <2>6, <3>2, <4>1
    <3> QED BY <3>1, <3>2
  <2> QED BY <2>6, <2>10, <2>11, <2>12, <2>13, <2>14 DEF t
<1> QED BY <1>1, <1>2

\* An activity starts another and finishes: the new one is on top, and no main
\* page is under it if the one that left was on top.
LEMMA ForwardFacts ==
  ASSUME NEW s, ScreenOK(s), Free(s) # {}, NEW p \in Pages, NEW u \in BOOLEAN,
         NEW a \in Activities, s.page[a] # Gone, NEW asked
  PROVE  LET f == Finished(Started(s, p, u), a)
         IN /\ ScreenOK(f)
            /\ f.task # <<>> /\ Shown(f)
            /\ Last(f.task) \in Activities /\ s.page[Last(f.task)] = Gone
            /\ Heard(s, asked) => Heard(f, asked)
            /\ Spins(s, asked) => Spins(f, asked)
            /\ MainLast(s) /\ a = Last(s.task) => MainLast(f)
<1> DEFINE t == Started(s, p, u)
           f == Finished(t, a)
           q == IF p = "login" /\ u THEN "main" ELSE p
<1>1. ScreenOK(t) /\ \E b \in Activities : Opened(s, t, b, q)
  BY StartedFacts
<1>2. PICK b \in Activities : Opened(s, t, b, q)
  BY <1>1
<1> HIDE DEF q, t
<1>3. /\ ScreenOK(f)
      /\ f.page = t.page /\ f.started = t.started /\ f.spinner = t.spinner
      /\ t.task # <<>> /\ Last(t.task) # a => f.task # <<>> /\ Last(f.task) = Last(t.task)
      /\ \A k \in DOMAIN f.task :
           /\ f.task[k] # a
           /\ \E j \in DOMAIN t.task :
                f.task[k] = t.task[j] /\ (j = Len(t.task) => k = Len(f.task))
  BY <1>1, FinishedFacts
<1> HIDE DEF f
<1>4. /\ Shown(t)
      /\ Heard(s, asked) => Heard(t, asked)
      /\ Spins(s, asked) => Spins(t, asked)
  BY <1>1, <1>2, OpenedKeeps
<1>5. t.task # <<>> /\ Last(t.task) = b /\ s.page[b] = Gone /\ b # a
  BY <1>2 DEF Opened
<1>6. f.task # <<>> /\ Last(f.task) = b
  BY <1>3, <1>5
<1>7. Shown(f) /\ (Heard(s, asked) => Heard(f, asked)) /\ (Spins(s, asked) => Spins(f, asked))
  BY <1>3, <1>4, <1>5, <1>6 DEF Shown, Heard, Spins
<1>8. ASSUME MainLast(s), a = Last(s.task)
      PROVE  MainLast(f)
  <2> SUFFICES ASSUME NEW k \in DOMAIN f.task, f.page[f.task[k]] = "main"
               PROVE  k = Len(f.task)
    BY DEF MainLast
  <2>1. PICK j \in DOMAIN t.task : f.task[k] = t.task[j] /\ (j = Len(t.task) => k = Len(f.task))
    BY <1>3
  <2>2. CASE j = Len(t.task)
    BY <2>1, <2>2
  <2>3. CASE j # Len(t.task)
    <3>1. j \in DOMAIN s.task /\ t.task[j] = s.task[j]
      BY <1>2, <2>3 DEF Opened
    <3>2. s.task[j] \in Activities /\ s.task[j] # b
      <4>1. s.task \in Seq(Activities)
        BY DEF ScreenOK, Screens
      <4>2. s.task[j] \in Activities
        BY <3>1, <4>1, ElementOfSeq, LenProperties
      <4> QED BY <1>5, <3>1, <4>2 DEF ScreenOK
    <3>3. t.page = [s.page EXCEPT ![b] = q] /\ s.page \in [Activities -> Pages \union {Gone}]
      BY <1>2 DEF Opened, ScreenOK, Screens
    <3>4. s.page[s.task[j]] = "main"
      BY <1>3, <2>1, <3>1, <3>2, <3>3
    <3>5. s.task[j] = a
      BY <1>8, <3>1, <3>4 DEF MainLast, Last
    <3> QED BY <1>3, <2>1, <3>1, <3>5
  <2> QED BY <2>2, <2>3
<1> QED BY <1>2, <1>3, <1>5, <1>6, <1>7, <1>8 DEF f, t

-----------------------------------------------------------------------------
\* From a login page one comes to a main page just made, to no older one.
NoReturn == OnTop("login") /\ OnTop("main")' => screen.page[Top'] # "main"

LEMMA TopFacts ==
  ASSUME FlowInv
  PROVE  /\ screen.task # <<>> => Top \in Activities /\ screen.page[Top] # Gone
         /\ \A p : OnTop(p) <=> front /\ screen.page[Top] = p
         /\ \A a : ~Leaving(a) <=> front /\ a = Top
<1>1. ASSUME screen.task # <<>>
      PROVE  Top \in Activities /\ screen.page[Top] # Gone
  <2>1. ScreenOK(screen) /\ screen.task \in Seq(Activities)
    BY DEF FlowInv, ScreenOK, Screens
  <2>2. Len(screen.task) \in DOMAIN screen.task
    BY <1>1, <2>1, EmptySeq, LenProperties
  <2>3. screen.task[Len(screen.task)] \in Activities
    BY <2>1, <2>2, ElementOfSeq, LenProperties
  <2> QED BY <2>1, <2>2, <2>3 DEF ScreenOK, Top, Last
<1>2. \A p : OnTop(p) <=> front /\ screen.page[Top] = p
  BY DEF OnTop, OnScreen
<1>3. \A a : ~Leaving(a) <=> front /\ a = Top
  BY DEF Leaving, OnScreen
<1> QED BY <1>1, <1>2, <1>3

\* A page that is clicked is open.
LEMMA ClickFacts ==
  ASSUME FlowInv, NEW p \in Pages, NEW a \in Clicks(p)
  PROVE  /\ a \in Activities /\ a \in screen.started
         /\ screen.page[a] = p /\ screen.page[a] # Gone
<1>1. a \in screen.started /\ screen.page[a] = p
  BY DEF Clicks
<1>2. screen.started \subseteq Activities
  BY DEF FlowInv, ScreenOK, Screens
<1> QED BY <1>1, <1>2 DEF Pages, Gone

\* An activity just made is on top.
LEMMA FreshTop ==
  ASSUME FlowInv, screen.page[Top'] = Gone
  PROVE  NoReturn
BY DEF NoReturn, Gone

\* The page that was on top is still there, or nothing is.
LEMMA SameTop ==
  ASSUME FlowInv, front' => Top' = Top
  PROVE  NoReturn
<1> SUFFICES ASSUME OnTop("login"), OnTop("main")'
             PROVE  screen.page[Top'] # "main"
  BY DEF NoReturn
<1>1. screen.page[Top] = "login"
  BY TopFacts
<1>2. front'
  BY DEF OnTop, OnScreen
<1> QED BY <1>1, <1>2

\* Starting one page from another and finishing.
LEMMA ForwardStep ==
  ASSUME FlowInv, NEW a \in Activities, screen.page[a] # Gone,
         NEW p \in Pages, NEW u \in BOOLEAN, Forward(a, p, u),
         user' \in BOOLEAN, loggedOut' \in BOOLEAN
  PROVE  FlowInv' /\ NoReturn
<1> DEFINE f == Finished(Started(screen, p, u), a)
<1>1. /\ Free(screen) # {}
      /\ screen' = f /\ front' = (f.task # <<>>)
      /\ raced' = (raced \/ Leaving(a))
      /\ requests' = requests /\ timers' = timers
  BY DEF Forward, Show, HasRoom
<1>2. ScreenOK(screen) /\ Heard(screen, requests) /\ Spins(screen, requests)
  BY DEF FlowInv
<1>3. /\ ScreenOK(f) /\ f.task # <<>> /\ Shown(f)
      /\ screen.page[Last(f.task)] = Gone
      /\ Heard(f, requests) /\ Spins(f, requests)
      /\ MainLast(screen) /\ a = Last(screen.task) => MainLast(f)
  BY <1>1, <1>2, ForwardFacts
<1> HIDE DEF f
<1>4. raced' \in BOOLEAN
  BY <1>1 DEF FlowInv
<1>5. ~raced' => MainLast(f)
  BY <1>1, <1>3, TopFacts DEF FlowInv, Top
<1>6. FlowInv'
  BY <1>1, <1>3, <1>4, <1>5 DEF FlowInv
<1>7. NoReturn
  BY <1>1, <1>3, FreshTop DEF Top
<1> QED BY <1>6, <1>7

\* Starting one page from another that stays.
LEMMA OpenStep ==
  ASSUME FlowInv, HasRoom, NEW p \in Pages, Show(Started(screen, p, user)),
         requests' = requests, user' = user, loggedOut' = loggedOut,
         raced' \in BOOLEAN, timers' \in 0..MaxTimers,
         ~raced' => ~raced /\ (screen.task # <<>> => screen.page[Top] # "main")
  PROVE  FlowInv' /\ NoReturn
<1> DEFINE t == Started(screen, p, user)
           q == IF p = "login" /\ user THEN "main" ELSE p
<1>1. ScreenOK(screen) /\ Heard(screen, requests) /\ Spins(screen, requests) /\ user \in BOOLEAN
  BY DEF FlowInv
<1>2. ScreenOK(t) /\ \E a \in Activities : Opened(screen, t, a, q)
  BY <1>1, StartedFacts DEF HasRoom
<1>3. screen' = t /\ front' = (t.task # <<>>)
  BY DEF Show
<1> HIDE DEF t, q
<1>4. PICK a \in Activities : Opened(screen, t, a, q)
  BY <1>2
<1>5. /\ Shown(t) /\ Heard(t, requests) /\ Spins(t, requests)
      /\ MainLast(screen) /\ (screen.task # <<>> => screen.page[Last(screen.task)] # "main")
           => MainLast(t)
  BY <1>1, <1>2, <1>4, OpenedKeeps
<1>6. ~raced' => MainLast(t)
  BY <1>5 DEF FlowInv, Top
<1>7. FlowInv'
  BY <1>1, <1>2, <1>3, <1>5, <1>6 DEF FlowInv
<1>8. screen.page[Top'] = Gone
  BY <1>3, <1>4 DEF Opened, Top
<1> QED BY <1>7, <1>8, FreshTop

\* The task as it is left comes to the screen.
LEMMA ResumeStep ==
  ASSUME FlowInv, NEW s, ScreenOK(s), Show(Resumed(s, user)),
         NEW asked, requests' = asked, RequestsOK(asked), Heard(s, asked), Spins(s, asked),
         MainLast(screen) => MainLast(s),
         UNCHANGED <<user, timers, loggedOut, raced>>
  PROVE  FlowInv'
<1> DEFINE t == Resumed(s, user)
<1>1. screen' = t /\ front' = (t.task # <<>>)
  BY DEF Show
<1>2. /\ ScreenOK(t) /\ Shown(t)
      /\ MainLast(s) => MainLast(t)
      /\ Heard(t, asked) /\ Spins(t, asked)
  BY ResumedFacts
<1> HIDE DEF t
<1> QED BY <1>1, <1>2 DEF FlowInv

-----------------------------------------------------------------------------
\* One lemma for each kind of step.
LEMMA OpenAppStep ==
  ASSUME FlowInv, OpenApp
  PROVE  FlowInv' /\ NoReturn
<1>1. ~front /\ UNCHANGED <<user, requests, loggedOut, raced>>
  BY DEF OpenApp
<1>2. CASE screen.task # <<>>
  <2>1. Show(Resumed(screen, user)) /\ UNCHANGED timers
    BY <1>2 DEF OpenApp
  <2>2. FlowInv'
    BY <1>1, <2>1, ResumeStep DEF FlowInv
  <2>3. NoReturn
    BY <1>1, TopFacts DEF NoReturn
  <2> QED BY <2>2, <2>3
<1>3. CASE screen.task = <<>>
  <2>1. HasRoom /\ timers < MaxTimers /\ timers' = timers + 1
        /\ Show(Started(screen, "splash", user))
    BY <1>3 DEF OpenApp
  <2>2. timers' \in 0..MaxTimers /\ raced' \in BOOLEAN
    BY <1>1, <2>1, FlowAssumption DEF FlowInv
  <2> QED BY <1>1, <1>3, <2>1, <2>2, OpenStep DEF Pages
<1> QED BY <1>2, <1>3

LEMMA TimerStep ==
  ASSUME FlowInv, TimerFires
  PROVE  FlowInv' /\ NoReturn
<1>1. /\ timers > 0 /\ HasRoom /\ timers' = timers - 1
      /\ Show(Started(screen, "welcome", user))
      /\ raced' = (raced \/ ~OnTop("splash") \/ timers > 1)
      /\ UNCHANGED <<user, requests, loggedOut>>
  BY DEF TimerFires
<1>2. timers' \in 0..MaxTimers
  BY <1>1, FlowAssumption DEF FlowInv
<1>3. raced' \in BOOLEAN
  BY <1>1 DEF FlowInv
<1>4. ~raced' => ~raced /\ screen.page[Top] = "splash"
  BY <1>1, TopFacts
<1> QED BY <1>1, <1>2, <1>3, <1>4, OpenStep DEF Pages

LEMMA ButtonStep ==
  ASSUME FlowInv, LeaveWelcome \/ Skip \/ Logout \/ Pair
  PROVE  FlowInv' /\ NoReturn
<1>1. user \in BOOLEAN /\ loggedOut \in BOOLEAN
  BY DEF FlowInv
<1>2. CASE LeaveWelcome
  <2>1. PICK a \in Clicks("welcome") : Forward(a, "login", user)
    BY <1>2 DEF LeaveWelcome
  <2>2. user' \in BOOLEAN /\ loggedOut' \in BOOLEAN
    BY <1>1, <1>2 DEF LeaveWelcome
  <2> QED BY <1>1, <2>1, <2>2, ClickFacts, ForwardStep DEF Pages
<1>3. CASE Skip
  <2>1. PICK a \in Clicks("login") : Forward(a, "main", user)
    BY <1>3 DEF Skip
  <2>2. user' \in BOOLEAN /\ loggedOut' \in BOOLEAN
    BY <1>1, <1>3 DEF Skip
  <2> QED BY <1>1, <2>1, <2>2, ClickFacts, ForwardStep DEF Pages
<1>4. CASE Logout
  <2>1. PICK a \in Clicks("main") : Forward(a, "login", FALSE)
    BY <1>4 DEF Logout
  <2>2. user' \in BOOLEAN /\ loggedOut' \in BOOLEAN
    BY <1>4 DEF Logout
  <2> QED BY <2>1, <2>2, ClickFacts, ForwardStep DEF Pages
<1>5. CASE Pair
  <2>1. PICK a \in Clicks("main") : Forward(a, "welcome", user)
    BY <1>5 DEF Pair
  <2>2. user' \in BOOLEAN /\ loggedOut' \in BOOLEAN
    BY <1>1, <1>5 DEF Pair
  <2> QED BY <1>1, <2>1, <2>2, ClickFacts, ForwardStep DEF Pages
<1> QED BY <1>2, <1>3, <1>4, <1>5

LEMMA OpenPageStep ==
  ASSUME FlowInv, OpenPage
  PROVE  FlowInv' /\ NoReturn
<1>1. HasRoom /\ UNCHANGED <<user, requests, timers, loggedOut>>
  BY DEF OpenPage
<1>2. PICK p \in {"signup", "reset"} :
         \E a \in Clicks("login") \union (IF p = "reset" THEN Clicks("signup") ELSE {}) :
           Show(Started(screen, p, user)) /\ raced' = (raced \/ Leaving(a))
  BY DEF OpenPage
<1>3. PICK a \in Clicks("login") \union (IF p = "reset" THEN Clicks("signup") ELSE {}) :
         Show(Started(screen, p, user)) /\ raced' = (raced \/ Leaving(a))
  BY <1>2
<1>4. screen.page[a] # "main"
  BY <1>3 DEF Clicks
<1>5. p \in Pages
  BY DEF Pages
<1>6. raced' \in BOOLEAN /\ timers' \in 0..MaxTimers
  BY <1>1, <1>3 DEF FlowInv
<1>7. ~raced' => ~raced /\ screen.page[Top] # "main"
  BY <1>3, <1>4, TopFacts
<1> QED BY <1>1, <1>3, <1>5, <1>6, <1>7, OpenStep

LEMMA AskStep ==
  ASSUME FlowInv, NEW p \in Pages, Ask(p)
  PROVE  FlowInv' /\ NoReturn
<1>1. PICK a \in Clicks(p), r \in Requests \ InFlight :
         /\ screen' = [screen EXCEPT !.spinner = @ \union {a}]
         /\ requests' = [requests EXCEPT ![r] = [from |-> a, live |-> TRUE]]
         /\ raced' = (raced \/ Leaving(a))
  BY DEF Ask
<1>2. loggedOut' = FALSE /\ front' = front /\ user' = user /\ timers' = timers
  BY DEF Ask
<1>3. /\ ScreenOK(screen) /\ screen \in Screens /\ RequestsOK(requests)
      /\ Heard(screen, requests) /\ Spins(screen, requests)
  BY DEF FlowInv, ScreenOK
<1>4. a \in Activities /\ a \in screen.started /\ screen.page[a] # Gone
  BY ClickFacts
<1>5. /\ screen' \in Screens /\ screen'.task = screen.task /\ screen'.page = screen.page
      /\ screen'.created = screen.created /\ screen'.started = screen.started
      /\ screen'.spinner = screen.spinner \union {a}
  BY <1>1, <1>3, <1>4 DEF Screens
<1>6. ScreenOK(screen')
  BY <1>3, <1>4, <1>5 DEF ScreenOK
<1>7. /\ requests'[r] = [from |-> a, live |-> TRUE]
      /\ \A o \in Requests : o # r => requests'[o] = requests[o]
      /\ RequestsOK(requests')
  BY <1>1, <1>3, <1>4 DEF RequestsOK
<1>8. ~requests[r].live
  BY DEF InFlight, Idle
<1>9. Heard(screen', requests')
  BY <1>3, <1>4, <1>5, <1>7 DEF Heard
<1>10. Spins(screen', requests')
  <2> SUFFICES ASSUME NEW b \in screen'.spinner \intersect screen'.started,
                      screen'.page[b] = "signup"
               PROVE  \E o \in Requests : requests'[o].from = b /\ requests'[o].live
    BY DEF Spins
  <2>1. CASE b = a
    BY <1>7, <2>1
  <2>2. CASE b # a
    <3>1. PICK o \in Requests : requests[o].from = b /\ requests[o].live
      BY <1>3, <1>5, <2>2 DEF Spins
    <3> QED BY <1>7, <1>8, <3>1
  <2> QED BY <2>1, <2>2
<1>11. raced' \in BOOLEAN /\ (~raced' => MainLast(screen'))
  BY <1>1, <1>5 DEF FlowInv, MainLast
<1>12. FlowInv'
  <2>1. front => screen.task # <<>> /\ Shown(screen')
    BY <1>5 DEF FlowInv, Shown
  <2> QED BY <1>2, <1>5, <1>6, <1>7, <1>9, <1>10, <1>11, <2>1 DEF FlowInv
<1>13. NoReturn
  BY <1>5, SameTop DEF Top
<1> QED BY <1>12, <1>13

LEMMA PressBackStep ==
  ASSUME FlowInv, PressBack
  PROVE  FlowInv' /\ NoReturn
<1>1. front /\ UNCHANGED <<user, requests, timers, loggedOut, raced>>
  BY DEF PressBack
<1>2. CASE screen.page[Top] = "login"
  <2>1. front' = FALSE /\ screen' = screen
    BY <1>2 DEF PressBack
  <2>2. FlowInv'
    BY <1>1, <2>1 DEF FlowInv
  <2> QED BY <2>1, <2>2, SameTop
<1>3. CASE screen.page[Top] # "login"
  <2> DEFINE s == Finished(screen, Top)
  <2>1. Show(Resumed(s, user))
    BY <1>3 DEF PressBack
  <2>2. /\ ScreenOK(screen) /\ RequestsOK(requests)
        /\ Heard(screen, requests) /\ Spins(screen, requests)
    BY DEF FlowInv
  <2>3. /\ ScreenOK(s)
        /\ MainLast(screen) => MainLast(s)
        /\ s.page = screen.page /\ s.started = screen.started /\ s.spinner = screen.spinner
    BY <2>2, FinishedFacts
  <2> HIDE DEF s
  <2>4. Heard(s, requests) /\ Spins(s, requests)
    BY <2>2, <2>3 DEF Heard, Spins
  <2>5. FlowInv'
    BY <1>1, <2>1, <2>2, <2>3, <2>4, ResumeStep DEF s
  <2>6. NoReturn
    BY <1>3, TopFacts DEF NoReturn
  <2> QED BY <2>5, <2>6
<1> QED BY <1>2, <1>3

\* The requests that are left wait as before when one is answered.
LEMMA Answered ==
  ASSUME FlowInv, NEW r \in Requests, NEW s, NEW a,
         s.started = screen.started, s.page = screen.page,
         \/ ~requests[r].live /\ s.spinner = screen.spinner
         \/ a = requests[r].from /\ s.spinner = screen.spinner \ {a}
  PROVE  LET left == [requests EXCEPT ![r] = Idle]
         IN RequestsOK(left) /\ Heard(s, left) /\ Spins(s, left)
<1> DEFINE left == [requests EXCEPT ![r] = Idle]
<1>1. RequestsOK(requests) /\ Heard(screen, requests) /\ Spins(screen, requests)
  BY DEF FlowInv
<1>2. left[r] = Idle /\ \A o \in Requests : o # r => left[o] = requests[o]
  BY <1>1 DEF RequestsOK
<1>3. RequestsOK(left)
  BY <1>1 DEF RequestsOK
<1> HIDE DEF left
<1>4. Heard(s, left)
  <2> SUFFICES ASSUME NEW o \in Requests, left[o].live
               PROVE  left[o].from \in s.started
    BY DEF Heard
  <2>1. o # r
    BY <1>2 DEF Idle
  <2> QED BY <1>1, <1>2, <2>1 DEF Heard
<1>5. Spins(s, left)
  <2> SUFFICES ASSUME NEW b \in s.spinner \intersect s.started, s.page[b] = "signup"
               PROVE  \E o \in Requests : left[o].from = b /\ left[o].live
    BY DEF Spins
  <2>1. b \in screen.spinner \intersect screen.started /\ screen.page[b] = "signup"
    OBVIOUS
  <2>2. PICK o \in Requests : requests[o].from = b /\ requests[o].live
    BY <1>1, <2>1 DEF Spins
  <2>3. o # r
    BY <2>2
  <2> QED BY <1>2, <2>2, <2>3
<1> QED BY <1>3, <1>4, <1>5 DEF left

\* An answer that is heard takes the page that asked from the screen, and that
\* page is on top unless it was leaving.
LEMMA AnswerStep ==
  ASSUME FlowInv, NEW r \in Requests, NEW successful \in BOOLEAN, Answer(r, successful)
  PROVE  FlowInv' /\ NoReturn
<1> DEFINE a == requests[r].from
           hidden == [screen EXCEPT !.spinner = @ \ {a}]
           left == [requests EXCEPT ![r] = Idle]
<1>1. r \in InFlight /\ requests' = left /\ user' = (user \/ successful)
      /\ timers' = timers /\ loggedOut' = loggedOut
  BY DEF Answer
<1>2. ScreenOK(screen) /\ screen \in Screens /\ user' \in BOOLEAN /\ RequestsOK(requests)
  BY <1>1 DEF FlowInv, ScreenOK
<1>3. CASE ~requests[r].live
  <2>1. UNCHANGED <<screen, front, raced>>
    BY <1>3 DEF Answer
  <2>2. RequestsOK(left) /\ Heard(screen, left) /\ Spins(screen, left)
    BY <1>3, Answered
  <2> HIDE DEF left
  <2>3. FlowInv'
    BY <1>1, <1>2, <2>1, <2>2 DEF FlowInv
  <2> QED BY <2>1, <2>3, SameTop DEF Top
<1>4. CASE requests[r].live
  <2>1. a \in screen.started /\ a \in Activities
    BY <1>4 DEF FlowInv, Heard, ScreenOK, Screens
  <2>2. screen.page[a] # Gone
    BY <1>2, <2>1 DEF ScreenOK
  <2>3. /\ hidden \in Screens /\ hidden.task = screen.task /\ hidden.page = screen.page
        /\ hidden.created = screen.created /\ hidden.started = screen.started
        /\ hidden.spinner = screen.spinner \ {a}
    BY <1>2 DEF Screens
  <2>4. (~successful /\ screen' = hidden /\ UNCHANGED <<front, raced>>)
        \/ (/\ successful /\ HasRoom
            /\ Show(Finished(Started(hidden, "main", TRUE), a))
            /\ raced' = (raced \/ Leaving(a)))
    BY <1>4 DEF Answer
  <2> HIDE DEF hidden
  <2>5. RequestsOK(left) /\ Heard(hidden, left) /\ Spins(hidden, left)
    BY <2>3, Answered
  <2> HIDE DEF left, a
  <2>6. ScreenOK(hidden) /\ (MainLast(screen) => MainLast(hidden))
    BY <1>2, <2>3 DEF ScreenOK, MainLast
  <2>7. CASE ~successful
    <3>1. screen' = hidden /\ UNCHANGED <<front, raced>>
      BY <2>4, <2>7
    <3>2. front => screen.task # <<>> /\ Shown(hidden)
      BY <2>3 DEF FlowInv, Shown
    <3>3. FlowInv'
      BY <1>1, <1>2, <2>3, <2>5, <2>6, <3>1, <3>2 DEF FlowInv
    <3> QED BY <2>3, <3>1, <3>3, SameTop DEF Top
  <2>8. CASE successful
    <3> DEFINE f == Finished(Started(hidden, "main", TRUE), a)
    <3>1. HasRoom /\ screen' = f /\ front' = (f.task # <<>>)
          /\ raced' = (raced \/ Leaving(a))
      BY <2>4, <2>8 DEF Show
    <3>2. Free(hidden) # {}
      BY <2>3, <3>1 DEF Free, HasRoom
    <3>3. /\ ScreenOK(f) /\ f.task # <<>> /\ Shown(f)
          /\ hidden.page[Last(f.task)] = Gone
          /\ Heard(f, left) /\ Spins(f, left)
          /\ MainLast(hidden) /\ a = Last(hidden.task) => MainLast(f)
      <4>1. "main" \in Pages /\ TRUE \in BOOLEAN
        BY DEF Pages
      <4>2. ScreenOK(hidden) /\ hidden.page[a] # Gone /\ Heard(hidden, left) /\ Spins(hidden, left)
        BY <2>2, <2>3, <2>5, <2>6
      <4> QED BY <2>1, <3>2, <4>1, <4>2, ForwardFacts
    <3> HIDE DEF f
    <3>4. raced' \in BOOLEAN /\ (~raced' => MainLast(f))
      <4>1. raced' \in BOOLEAN
        BY <3>1 DEF FlowInv
      <4>2. ~raced' => ~raced /\ a = Last(screen.task)
        BY <3>1, TopFacts DEF Top
      <4> QED BY <2>3, <2>6, <3>3, <4>1, <4>2 DEF FlowInv
    <3>5. FlowInv'
      BY <1>1, <1>2, <2>5, <3>1, <3>3, <3>4 DEF FlowInv
    <3>6. NoReturn
      BY <2>3, <3>1, <3>3, FreshTop DEF Top
    <3> QED BY <3>5, <3>6
  <2> QED BY <2>7, <2>8
<1> QED BY <1>3, <1>4

\* Listeners that are dropped are those of the activity that stops.
LEMMA UnboundFacts ==
  ASSUME FlowInv, NEW a, NEW s,
         a \notin s.started, s.started \subseteq screen.started, s.spinner \subseteq screen.spinner,
         screen.started \subseteq s.started \union {a},
         \A b \in s.started : s.page[b] = screen.page[b]
  PROVE  RequestsOK(Unbound({a})) /\ Heard(s, Unbound({a})) /\ Spins(s, Unbound({a}))
<1>1. RequestsOK(requests) /\ Heard(screen, requests) /\ Spins(screen, requests)
  BY DEF FlowInv
<1>2. ASSUME NEW r \in Requests
      PROVE  /\ Unbound({a})[r] \in {Idle} \union [from : Activities, live : BOOLEAN]
             /\ Unbound({a})[r].live => requests[r].live /\ requests[r].from # a
                                        /\ Unbound({a})[r] = requests[r]
             /\ requests[r].from # a => Unbound({a})[r] = requests[r]
  <2>1. CASE r \in InFlight /\ requests[r].from = a
    <3>1. Unbound({a})[r] = [requests[r] EXCEPT !.live = FALSE]
      BY <2>1 DEF Unbound
    <3>2. requests[r] \in [from : Activities, live : BOOLEAN]
      BY <1>1, <2>1 DEF RequestsOK, InFlight
    <3> QED BY <2>1, <3>1, <3>2
  <2>2. CASE ~(r \in InFlight /\ requests[r].from = a)
    <3>1. Unbound({a})[r] = requests[r]
      BY <2>2 DEF Unbound
    <3>2. requests[r].live => r \in InFlight
      BY DEF InFlight, Idle
    <3> QED BY <1>1, <2>2, <3>1, <3>2 DEF RequestsOK
  <2> QED BY <2>1, <2>2
<1>3. RequestsOK(Unbound({a}))
  BY <1>2 DEF RequestsOK, Unbound
<1>4. Heard(s, Unbound({a}))
  <2> SUFFICES ASSUME NEW r \in Requests, Unbound({a})[r].live
               PROVE  Unbound({a})[r].from \in s.started
    BY DEF Heard
  <2>1. requests[r].live /\ requests[r].from # a /\ Unbound({a})[r] = requests[r]
    BY <1>2
  <2> QED BY <1>1, <2>1 DEF Heard
<1>5. Spins(s, Unbound({a}))
  <2> SUFFICES ASSUME NEW b \in s.spinner \intersect s.started, s.page[b] = "signup"
               PROVE  \E r \in Requests : Unbound({a})[r].from = b /\ Unbound({a})[r].live
    BY DEF Spins
  <2>1. PICK r \in Requests : requests[r].from = b /\ requests[r].live
    BY <1>1 DEF Spins
  <2>2. requests[r].from # a
    BY <2>1
  <2> QED BY <1>2, <2>1, <2>2
<1> QED BY <1>3, <1>4, <1>5

LEMMA StopStep ==
  ASSUME FlowInv, NEW a \in Activities, Stop(a)
  PROVE  FlowInv' /\ NoReturn
<1> DEFINE over == {a} \ ToSet(screen.task)
<1>1. /\ a \in screen.started /\ Leaving(a) /\ requests' = Unbound({a})
      /\ screen' = [screen EXCEPT
                      !.started = @ \ {a},
                      !.created = @ \ over,
                      !.spinner = @ \ over,
                      !.page = [b \in Activities |-> IF b \in over THEN Gone ELSE @[b]]]
      /\ UNCHANGED <<front, user, timers, loggedOut, raced>>
  BY DEF Stop
<1>2. over \subseteq {a} /\ \A i \in DOMAIN screen.task : screen.task[i] \notin over
  BY DEF ToSet
<1>3. ScreenOK(screen) /\ screen \in Screens /\ screen.task \in Seq(Activities)
  BY DEF FlowInv, ScreenOK, Screens
<1> HIDE DEF over
<1>4. /\ screen' \in Screens /\ screen'.task = screen.task
      /\ screen'.started = screen.started \ {a}
      /\ screen'.created = screen.created \ over
      /\ screen'.spinner = screen.spinner \ over
      /\ \A b \in Activities : screen'.page[b] = IF b \in over THEN Gone ELSE screen.page[b]
  BY <1>1, <1>3 DEF Screens
<1>5. \A i \in DOMAIN screen.task : screen.task[i] \in Activities
  BY <1>3, ElementOfSeq, LenProperties
<1>6. \A i \in DOMAIN screen.task : screen'.page[screen.task[i]] = screen.page[screen.task[i]]
  BY <1>2, <1>4, <1>5
<1>7. ScreenOK(screen')
  <2>1. screen'.started \subseteq screen'.created
    BY <1>2, <1>3, <1>4 DEF ScreenOK
  <2>2. \A b \in Activities : screen'.page[b] = Gone => b \notin screen'.created \union screen'.spinner
    BY <1>3, <1>4 DEF ScreenOK
  <2>3. \A i, j \in DOMAIN screen'.task : screen'.task[i] = screen'.task[j] => i = j
    BY <1>3, <1>4 DEF ScreenOK
  <2>4. \A i \in DOMAIN screen'.task :
          /\ screen'.page[screen'.task[i]] # Gone
          /\ screen'.page[screen'.task[i]] = "splash" => i = Len(screen'.task)
    BY <1>3, <1>4, <1>6 DEF ScreenOK
  <2> QED BY <1>4, <2>1, <2>2, <2>3, <2>4 DEF ScreenOK
<1>8. RequestsOK(requests') /\ Heard(screen', requests') /\ Spins(screen', requests')
  <2>1. screen.started \subseteq Activities
    BY <1>3 DEF Screens
  <2>2. \A b \in screen'.started : screen'.page[b] = screen.page[b]
    BY <1>2, <1>4, <2>1
  <2> QED BY <1>1, <1>4, <2>2, UnboundFacts
<1>9. ~raced' => MainLast(screen')
  BY <1>1, <1>4, <1>6 DEF FlowInv, MainLast
<1>10. front' => screen'.task # <<>> /\ Shown(screen')
  <2>1. front => screen.task # <<>> /\ Top \in screen.started /\ a # Top
    BY <1>1, TopFacts DEF FlowInv, Shown, Top
  <2> QED BY <1>1, <1>4, <2>1 DEF Shown, Top
<1>11. FlowInv'
  BY <1>1, <1>7, <1>8, <1>9, <1>10 DEF FlowInv
<1> QED BY <1>4, <1>11, SameTop DEF Top

LEMMA PressHomeStep ==
  ASSUME FlowInv, PressHome
  PROVE  FlowInv' /\ NoReturn
<1> DEFINE p == Paused(screen)
<1>1. front' = FALSE /\ screen' = p /\ UNCHANGED <<user, requests, timers, loggedOut, raced>>
  BY DEF PressHome
<1>2. ScreenOK(screen) /\ Heard(screen, requests) /\ Spins(screen, requests)
  BY DEF FlowInv
<1>3. /\ ScreenOK(p)
      /\ MainLast(screen) => MainLast(p)
      /\ p.page = screen.page /\ p.started = screen.started /\ p.spinner = screen.spinner
  BY <1>2, PausedFacts
<1> HIDE DEF p
<1>4. Heard(p, requests) /\ Spins(p, requests)
  BY <1>2, <1>3 DEF Heard, Spins
<1>5. FlowInv'
  BY <1>1, <1>3, <1>4 DEF FlowInv
<1> QED BY <1>1, <1>5, SameTop

LEMMA RecreateStep ==
  ASSUME FlowInv, Recreate
  PROVE  FlowInv' /\ NoReturn
<1> DEFINE s == [screen EXCEPT !.created = @ \ {Top}, !.started = @ \ {Top}, !.spinner = @ \ {Top}]
<1>1. /\ front /\ screen' = Resumed(s, user) /\ requests' = Unbound({Top})
      /\ UNCHANGED <<front, user, timers, loggedOut, raced>>
  BY DEF Recreate
<1>2. ScreenOK(screen) /\ screen \in Screens /\ screen.task # <<>>
  BY <1>1 DEF FlowInv, ScreenOK
<1>3. /\ s \in Screens /\ s.task = screen.task /\ s.page = screen.page
      /\ s.created = screen.created \ {Top} /\ s.started = screen.started \ {Top}
      /\ s.spinner = screen.spinner \ {Top}
  BY <1>2 DEF Screens
<1> HIDE DEF s
<1>4. ScreenOK(s) /\ (MainLast(screen) => MainLast(s))
  BY <1>2, <1>3 DEF ScreenOK, MainLast
<1>5. RequestsOK(Unbound({Top})) /\ Heard(s, Unbound({Top})) /\ Spins(s, Unbound({Top}))
  BY <1>3, UnboundFacts
<1>6. Resumed(s, user).task = screen.task
  BY <1>3, <1>4, ResumedFacts
<1>7. Show(Resumed(s, user))
  BY <1>1, <1>2, <1>6 DEF FlowInv, Show
<1>8. FlowInv'
  BY <1>1, <1>4, <1>5, <1>7, ResumeStep
<1>9. Top' = Top
  BY <1>1, <1>6 DEF Top
<1> QED BY <1>8, <1>9, SameTop

LEMMA KillStep ==
  ASSUME FlowInv, Kill
  PROVE  FlowInv' /\ NoReturn
<1> DEFINE page == [a \in Activities |-> IF a \in ToSet(screen.task) THEN screen.page[a] ELSE Gone]
<1>1. /\ ~front /\ requests' = [r \in Requests |-> Idle] /\ timers' = 0
      /\ screen' = [screen EXCEPT !.page = page, !.created = {}, !.started = {}, !.spinner = {}]
      /\ UNCHANGED <<front, user, loggedOut, raced>>
  BY DEF Kill
<1>2. ScreenOK(screen) /\ screen \in Screens /\ screen.task \in Seq(Activities)
  BY DEF FlowInv, ScreenOK, Screens
<1>3. page \in [Activities -> Pages \union {Gone}]
  BY <1>2 DEF Screens
<1>4. \A i \in DOMAIN screen.task : page[screen.task[i]] = screen.page[screen.task[i]]
  BY <1>2, ElementOfSeq, LenProperties DEF ToSet
<1> HIDE DEF page
<1>5. /\ screen' \in Screens /\ screen'.task = screen.task /\ screen'.page = page
      /\ screen'.created = {} /\ screen'.started = {} /\ screen'.spinner = {}
  BY <1>1, <1>2, <1>3 DEF Screens
<1>6. ScreenOK(screen') /\ (MainLast(screen) => MainLast(screen'))
  BY <1>2, <1>4, <1>5 DEF ScreenOK, MainLast
<1>7. RequestsOK(requests') /\ Heard(screen', requests')
  BY <1>1 DEF RequestsOK, Heard, Idle
<1>8. Spins(screen', requests')
  BY <1>5 DEF Spins
<1>9. FlowInv'
  BY <1>1, <1>6, <1>7, <1>8, FlowAssumption DEF FlowInv
<1>10. NoReturn
  BY <1>1, TopFacts DEF NoReturn
<1> QED BY <1>9, <1>10

-----------------------------------------------------------------------------
\* Initially nothing is open.
LEMMA FlowInvInit == FlowInit => FlowInv
<1> SUFFICES ASSUME FlowInit PROVE FlowInv
  OBVIOUS
<1>1. /\ screen = Empty /\ front = FALSE /\ user \in BOOLEAN
      /\ requests = [r \in Requests |-> Idle]
      /\ timers = 0 /\ loggedOut = FALSE /\ raced = FALSE
  BY DEF FlowInit
<1>2. <<>> \in Seq(Activities) /\ DOMAIN <<>> = {}
  BY EmptySeq, LenProperties
<1>3. Empty \in Screens
  BY <1>2 DEF Empty, Screens
<1>4. ScreenOK(screen) /\ MainLast(screen)
  BY <1>1, <1>2, <1>3 DEF Empty, ScreenOK, MainLast
<1>5. RequestsOK(requests) /\ Heard(screen, requests)
  BY <1>1 DEF RequestsOK, Heard, Idle
<1>6. Spins(screen, requests)
  BY <1>1 DEF Spins, Empty
<1>7. timers \in 0..MaxTimers
  <2>1. timers = 0
    BY <1>1
  <2> QED BY <2>1, FlowAssumption
<1>8. ~front /\ user \in BOOLEAN /\ loggedOut \in BOOLEAN /\ raced \in BOOLEAN
  BY <1>1, Zenon
<1> QED BY <1>4, <1>5, <1>6, <1>7, <1>8 DEF FlowInv

\* Every step keeps the invariant, and none brings an old main page back over
\* a login page.
LEMMA FlowStep ==
  ASSUME FlowInv, [FlowNext]_flowVars
  PROVE  FlowInv' /\ NoReturn
<1>1. CASE UNCHANGED flowVars
  <2>1. UNCHANGED <<screen, front, user, requests, timers, loggedOut, raced>>
    BY <1>1 DEF flowVars
  <2>2. FlowInv'
    BY <2>1 DEF FlowInv
  <2> QED BY <2>1, <2>2, SameTop DEF Top
<1>2. CASE OpenApp
  BY <1>2, OpenAppStep
<1>3. CASE TimerFires
  BY <1>3, TimerStep
<1>4. CASE LeaveWelcome \/ Skip \/ Logout \/ Pair
  BY <1>4, ButtonStep
<1>5. CASE OpenPage
  BY <1>5, OpenPageStep
<1>6. CASE SignIn \/ SignUp
  BY <1>6, AskStep DEF SignIn, SignUp, Pages
<1>7. CASE PressBack
  BY <1>7, PressBackStep
<1>8. CASE \E r \in Requests : Answer(r, TRUE) \/ Answer(r, FALSE)
  BY <1>8, AnswerStep
<1>9. CASE \E a \in Activities : Stop(a)
  BY <1>9, StopStep
<1>10. CASE PressHome
  BY <1>10, PressHomeStep
<1>11. CASE Recreate
  BY <1>11, RecreateStep
<1>12. CASE Kill
  BY <1>12, KillStep
<1> QED BY <1>1, <1>2, <1>3, <1>4, <1>5, <1>6, <1>7, <1>8, <1>9, <1>10, <1>11, <1>12 DEF FlowNext

\* The invariant in every reachable state.
LEMMA FlowInvariant == FlowSpec => []FlowInv
<1>1. FlowInit => FlowInv
  BY FlowInvInit
<1>2. FlowInv /\ [FlowNext]_flowVars => FlowInv'
  BY FlowStep
<1> QED BY <1>1, <1>2, PTL DEF FlowSpec

\* Whatever is clicked, answered or killed when, no activity is in the task
\* twice or after it was destroyed, a splash screen is only on top (it finishes
\* when it is paused), and what is on the screen runs.
THEOREM FlowTypeCorrect == FlowSpec => []FlowTypeOK
<1>1. FlowInv => FlowTypeOK
  BY DEF FlowInv, FlowTypeOK, ScreenOK, RequestsOK, Shown, Top, IsInjective
<1> QED BY <1>1, FlowInvariant, PTL

\* However many pages are opened, a second main page is never below the first
\* while every click and every listener comes from the page on the screen:
\* launchHomeScreen, logout and pair close the page they leave, and the pages
\* opened over others (signup, reset) are opened from no main page.
THEOREM OneMainPage == FlowSpec => []OneMain
<1>1. ASSUME FlowInv, ~raced
      PROVE  Cardinality(Mains) <= 1
  <2>1. MainLast(screen) /\ screen.task \in Seq(Activities)
    BY <1>1 DEF FlowInv, ScreenOK, Screens
  <2>2. Mains \subseteq {Top}
    BY <2>1 DEF Mains, ToSet, MainLast, Top, Last
  <2>3. Mains = {} \/ Mains = {Top}
    BY <2>2
  <2>4. Cardinality(Mains) = 0 \/ Cardinality(Mains) = 1
    BY <2>3, FS_EmptySet, FS_Singleton
  <2> QED BY <2>4
<1>2. FlowInv => OneMain
  BY <1>1 DEF OneMain
<1> QED BY <1>2, FlowInvariant, PTL

\* The signup page on the screen spins only for an answer it will hear: a
\* request whose listener was dropped by onStop leaves nothing turning, since
\* onResume hides it.
THEOREM SpinsForAnswer == FlowSpec => []SignupSpinsForAnswer
<1>1. ASSUME FlowInv, OnTop("signup"), Top \in screen.spinner
      PROVE  \E r \in InFlight : requests[r].from = Top /\ requests[r].live
  <2>1. Top \in screen.started /\ screen.page[Top] = "signup"
    BY <1>1, TopFacts DEF FlowInv, Shown, Top
  <2>2. PICK r \in Requests : requests[r].from = Top /\ requests[r].live
    BY <1>1, <2>1 DEF FlowInv, Spins
  <2>3. r \in InFlight
    BY <2>2 DEF InFlight, Idle
  <2> QED BY <2>2, <2>3
<1>2. FlowInv => SignupSpinsForAnswer
  BY <1>1 DEF SignupSpinsForAnswer
<1> QED BY <1>2, FlowInvariant, PTL

\* From the login page no step leads to a main page that was open before: the
\* back key leaves the task, and everything else there makes a new activity.
THEOREM NoReturnToMain == FlowSpec => NoWayBackToMain
<1>1. FlowInv /\ [FlowNext]_flowVars => NoReturn
  BY FlowStep
<1>2. NoReturn => [OnTop("login") /\ OnTop("main")' => screen.page[Top'] # "main"]_flowVars
  BY DEF NoReturn
<1> QED BY <1>1, <1>2, FlowInvariant, PTL DEF FlowSpec, NoWayBackToMain
=============================================================================
