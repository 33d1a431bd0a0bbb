---------------------------- MODULE QueueLemmas ----------------------------
(***************************************************************************)
(* What posting a task, in front or at the end of a queue, and taking its  *)
(* first task do to the questions the proofs ask of a queue: is a task in  *)
(* it, is it there only once, does it come before another one.             *)
(***************************************************************************)
EXTENDS Naturals, Sequences, SequenceTheorems, TLAPS

Has(s, x) == \E i \in 1 .. Len(s) : s[i] = x
Once(s, x) == \A i, j \in 1 .. Len(s) : s[i] = x /\ s[j] = x => i = j
Twice(s, x) == \A i, j, k \in 1 .. Len(s) :
                 s[i] = x /\ s[j] = x /\ s[k] = x => i = j \/ j = k \/ i = k
AtEnd(s, x) == \A i \in 1 .. Len(s) : s[i] = x => i = Len(s)
Before(s, x, y) == \A i, j \in 1 .. Len(s) : s[i] = x /\ s[j] = y => i < j

\* The empty queue.
LEMMA EmptyQueue ==
  ASSUME NEW S
  PROVE  /\ << >> \in Seq(S)
         /\ \A x : ~Has(<< >>, x) /\ Once(<< >>, x)
         /\ \A x, y : Before(<< >>, x, y)
  BY DEF Has, Once, Before

\* A task is posted at the end.
LEMMA AppendQueue ==
  ASSUME NEW S, NEW s \in Seq(S), NEW e \in S
  PROVE  /\ Append(s, e) \in Seq(S) /\ Append(s, e) # << >>
         /\ \A x : Has(Append(s, e), x) <=> Has(s, x) \/ x = e
         /\ \A x : Once(s, x) /\ (x = e => ~Has(s, x)) => Once(Append(s, e), x)
         /\ \A x, y : Before(s, x, y) /\ x # e => Before(Append(s, e), x, y)
<1> DEFINE a == Append(s, e)
<1>1. /\ a \in Seq(S) /\ Len(s) \in Nat /\ Len(a) = Len(s) + 1
      /\ a[Len(s) + 1] = e
      /\ \A i \in 1 .. Len(s) : a[i] = s[i]
  OBVIOUS
<1>2. \A i \in 1 .. Len(a) : i \in 1 .. Len(s) \/ i = Len(s) + 1
  BY <1>1
<1>3. \A i \in 1 .. Len(s) : i \in 1 .. Len(a)
  BY <1>1
<1>4. Len(s) + 1 \in 1 .. Len(a) /\ a # << >>
  BY <1>1
<1> HIDE DEF a
<1>5. ASSUME NEW x PROVE Has(a, x) <=> Has(s, x) \/ x = e
  BY <1>1, <1>2, <1>3, <1>4 DEF Has
<1>6. ASSUME NEW x, Once(s, x), x = e => ~Has(s, x) PROVE Once(a, x)
  BY <1>1, <1>2, <1>6 DEF Once, Has
<1>7. ASSUME NEW x, NEW y, Before(s, x, y), x # e PROVE Before(a, x, y)
  BY <1>1, <1>2, <1>7 DEF Before
<1> QED
  BY <1>1, <1>4, <1>5, <1>6, <1>7 DEF a

\* A task is posted in front.
LEMMA ConsQueue ==
  ASSUME NEW S, NEW s \in Seq(S), NEW e \in S
  PROVE  /\ <<e>> \o s \in Seq(S) /\ <<e>> \o s # << >>
         /\ \A x : Has(<<e>> \o s, x) <=> Has(s, x) \/ x = e
         /\ \A x : Once(s, x) /\ (x = e => ~Has(s, x)) => Once(<<e>> \o s, x)
         /\ \A x, y : Before(s, x, y) /\ y # e => Before(<<e>> \o s, x, y)
<1> DEFINE a == <<e>> \o s
<1>1. /\ a \in Seq(S) /\ Len(s) \in Nat /\ Len(a) = Len(s) + 1
      /\ a[1] = e
      /\ \A i \in 1 .. Len(a) : i # 1 => a[i] = s[i - 1]
  OBVIOUS
<1>2. \A i \in 1 .. Len(a) : i # 1 => i - 1 \in 1 .. Len(s)
  BY <1>1
<1>3. \A i \in 1 .. Len(s) : i + 1 \in 1 .. Len(a) /\ a[i + 1] = s[i]
  BY <1>1
<1>4. 1 \in 1 .. Len(a) /\ a # << >>
  BY <1>1
<1> HIDE DEF a
<1>5. ASSUME NEW x PROVE Has(a, x) <=> Has(s, x) \/ x = e
  BY <1>1, <1>2, <1>3, <1>4 DEF Has
<1>6. ASSUME NEW x, Once(s, x), x = e => ~Has(s, x) PROVE Once(a, x)
  <2> SUFFICES ASSUME NEW i \in 1 .. Len(a), NEW j \in 1 .. Len(a), a[i] = x, a[j] = x
               PROVE  i = j
    BY DEF Once
  <2>1. i = 1 <=> j = 1
    BY <1>1, <1>2, <1>6 DEF Has
  <2>2. i # 1 /\ j # 1 => i - 1 = j - 1
    BY <1>1, <1>2, <1>6 DEF Once
  <2> QED
    BY <1>1, <2>1, <2>2
<1>7. ASSUME NEW x, NEW y, Before(s, x, y), y # e PROVE Before(a, x, y)
  <2> SUFFICES ASSUME NEW i \in 1 .. Len(a), NEW j \in 1 .. Len(a), a[i] = x, a[j] = y
               PROVE  i < j
    BY DEF Before
  <2>1. j # 1
    BY <1>1, <1>7
  <2>2. i # 1 => i - 1 < j - 1
    BY <1>1, <1>2, <1>7, <2>1 DEF Before
  <2> QED
    BY <1>1, <2>1, <2>2
<1> QED
  BY <1>1, <1>4, <1>5, <1>6, <1>7 DEF a

\* The first task is taken.
LEMMA TailQueue ==
  ASSUME NEW S, NEW s \in Seq(S), s # << >>
  PROVE  /\ Tail(s) \in Seq(S) /\ Head(s) \in S
         /\ \A x : Has(s, x) <=> Has(Tail(s), x) \/ x = Head(s)
         /\ \A x : Once(s, x) => Once(Tail(s), x) /\ (x = Head(s) => ~Has(Tail(s), x))
         /\ \A x, y : Before(s, x, y) => Before(Tail(s), x, y) /\ (y = Head(s) => ~Has(s, x))
<1> DEFINE a == Tail(s)
           h == Head(s)
<1>1. /\ a \in Seq(S) /\ h \in S /\ Len(s) \in Nat \ {0} /\ Len(a) = Len(s) - 1
      /\ s[1] = h
      /\ \A i \in 1 .. Len(a) : a[i] = s[i + 1]
  BY HeadTailProperties
<1>2. \A i \in 1 .. Len(a) : i + 1 \in 1 .. Len(s) /\ i + 1 # 1
  BY <1>1
<1>3. \A i \in 1 .. Len(s) : i # 1 => i - 1 \in 1 .. Len(a) /\ a[i - 1] = s[i]
  BY <1>1
<1>4. 1 \in 1 .. Len(s)
  BY <1>1
<1> HIDE DEF a, h
<1>5. ASSUME NEW x PROVE Has(s, x) <=> Has(a, x) \/ x = h
  BY <1>1, <1>2, <1>3, <1>4 DEF Has
<1>6. ASSUME NEW x, Once(s, x) PROVE Once(a, x) /\ (x = h => ~Has(a, x))
  <2>1. Once(a, x)
    <3> SUFFICES ASSUME NEW i \in 1 .. Len(a), NEW j \in 1 .. Len(a), a[i] = x, a[j] = x
                 PROVE  i = j
      BY DEF Once
    <3>1. i + 1 = j + 1
      BY <1>1, <1>2, <1>6 DEF Once
    <3> QED
      BY <1>1, <3>1
  <2>2. x = h => ~Has(a, x)
    BY <1>1, <1>2, <1>4, <1>6 DEF Once, Has
  <2> QED
    BY <2>1, <2>2
<1>7. ASSUME NEW x, NEW y, Before(s, x, y) PROVE Before(a, x, y) /\ (y = h => ~Has(s, x))
  <2>1. Before(a, x, y)
    <3> SUFFICES ASSUME NEW i \in 1 .. Len(a), NEW j \in 1 .. Len(a), a[i] = x, a[j] = y
                 PROVE  i < j
      BY DEF Before
    <3>1. i + 1 < j + 1
      BY <1>1, <1>2, <1>7 DEF Before
    <3> QED
      BY <1>1, <3>1
  <2>2. y = h => ~Has(s, x)
    <3> SUFFICES ASSUME y = h, NEW i \in 1 .. Len(s), s[i] = x PROVE FALSE
      BY DEF Has
    <3>1. i < 1
      BY <1>1, <1>4, <1>7 DEF Before
    <3> QED
      BY <1>1, <3>1
  <2> QED
    BY <2>1, <2>2
<1> QED
  BY <1>1, <1>5, <1>6, <1>7 DEF a, h

\* Posting a task at the end: the tasks that are in the queue twice at most,
\* and the ones that are its last.
LEMMA AppendMore ==
  ASSUME NEW S, NEW s \in Seq(S), NEW e \in S
  PROVE  /\ \A x : Twice(s, x) /\ x # e => Twice(Append(s, e), x)
         /\ \A x : Once(s, x) => Twice(Append(s, e), x)
         /\ \A x : ~Has(s, x) => AtEnd(Append(s, e), x) /\ Once(Append(s, e), x)
<1> DEFINE a == Append(s, e)
<1>1. /\ a \in Seq(S) /\ Len(s) \in Nat /\ Len(a) = Len(s) + 1
      /\ a[Len(s) + 1] = e
      /\ \A i \in 1 .. Len(s) : a[i] = s[i]
  OBVIOUS
<1>2. \A i \in 1 .. Len(a) : i \in 1 .. Len(s) \/ i = Len(s) + 1
  BY <1>1
<1> HIDE DEF a
<1>3. ASSUME NEW x, Twice(s, x), x # e PROVE Twice(a, x)
  BY <1>1, <1>2, <1>3 DEF Twice
<1>4. ASSUME NEW x, Once(s, x) PROVE Twice(a, x)
  BY <1>1, <1>2, <1>4 DEF Twice, Once
<1>5. ASSUME NEW x, ~Has(s, x) PROVE AtEnd(a, x) /\ Once(a, x)
  BY <1>1, <1>2, <1>5 DEF AtEnd, Has, Once
<1> QED
  BY <1>3, <1>4, <1>5 DEF a

\* Taking the first task, likewise.
LEMMA TailMore ==
  ASSUME NEW S, NEW s \in Seq(S), s # << >>
  PROVE  /\ \A x : Twice(s, x) => Twice(Tail(s), x) /\ (x = Head(s) => Once(Tail(s), x))
         /\ \A x : AtEnd(s, x) => AtEnd(Tail(s), x) /\ (x = Head(s) => Tail(s) = << >>)
<1> DEFINE a == Tail(s)
           h == Head(s)
<1>1. /\ a \in Seq(S) /\ h \in S /\ Len(s) \in Nat \ {0} /\ Len(a) = Len(s) - 1
      /\ s[1] = h
      /\ \A i \in 1 .. Len(a) : a[i] = s[i + 1]
  BY HeadTailProperties
<1>2. /\ \A i \in 1 .. Len(a) : i + 1 \in 1 .. Len(s) /\ i + 1 # 1
      /\ 1 \in 1 .. Len(s)
  BY <1>1
<1> HIDE DEF a, h
<1>3. ASSUME NEW x, Twice(s, x) PROVE Twice(a, x) /\ (x = h => Once(a, x))
  <2>1. ASSUME NEW i \in 1 .. Len(a), NEW j \in 1 .. Len(a), NEW k \in 1 .. Len(a),
               a[i] = x, a[j] = x, a[k] = x
        PROVE  i = j \/ j = k \/ i = k
    <3>1. i + 1 = j + 1 \/ j + 1 = k + 1 \/ i + 1 = k + 1
      BY <1>1, <1>2, <1>3, <2>1 DEF Twice
    <3> QED
      BY <1>1, <3>1
  <2>2. ASSUME x = h, NEW i \in 1 .. Len(a), NEW j \in 1 .. Len(a), a[i] = x, a[j] = x
        PROVE  i = j
    <3>1. i + 1 = j + 1
      BY <1>1, <1>2, <1>3, <2>2 DEF Twice
    <3> QED
      BY <1>1, <3>1
  <2> QED
    BY <2>1, <2>2 DEF Twice, Once
<1>4. ASSUME NEW x, AtEnd(s, x) PROVE AtEnd(a, x) /\ (x = h => a = << >>)
  <2>1. ASSUME NEW i \in 1 .. Len(a), a[i] = x PROVE i = Len(a)
    <3>1. i + 1 = Len(s)
      BY <1>1, <1>2, <1>4, <2>1 DEF AtEnd
    <3> QED
      BY <1>1, <3>1
  <2>2. ASSUME x = h PROVE a = << >>
    <3>1. Len(s) = 1
      BY <1>1, <1>2, <1>4, <2>2 DEF AtEnd
    <3> QED
      BY <1>1, <3>1, EmptySeq
  <2> QED
    BY <2>1, <2>2 DEF AtEnd
<1> QED
  BY <1>3, <1>4 DEF a, h
============================================================================
