--------------------------- MODULE RecvData_proofs ---------------------------
(***************************************************************************)
(* Proofs about RecvData: every step keeps the types, and what is handed   *)
(* over of an answer between whose parts nothing else comes is what the    *)
(* server has sent.                                                        *)
(***************************************************************************)
EXTENDS RecvData, TLAPS, WellFoundedInduction, NaturalsInduction, SequenceTheorems

-----------------------------------------------------------------------------
(* Induction over a set of numbers.                                        *)

\* The order of the natural numbers, as a set of pairs.
LEMMA LessThan ==
    ASSUME NEW m \in Nat, NEW n \in Nat, m < n
    PROVE  <<m, n>> \in OpToRel(<, Nat)
BY Zenon DEF OpToRel

\* Induction: a set that has 0, and with a number the next one, has them all.
LEMMA SetInduction ==
    ASSUME NEW T, 0 \in T, \A n \in Nat : n \in T => n + 1 \in T
    PROVE  Nat \subseteq T
<1>1. PICK R : IsWellFoundedOn(R, Nat) /\ \A m, n \in Nat : m < n => <<m, n>> \in R
    BY NatLessThanWellFounded, LessThan, Zenon
<1> SUFFICES ASSUME Nat \ T # {} PROVE FALSE
    OBVIOUS
<1>2. PICK x \in Nat \ T : \A y \in Nat \ T : ~(<<y, x>> \in R)
    <2>1. Nat \ T \subseteq Nat
        OBVIOUS
    <2> QED
        BY <1>1, <2>1, WFMin, Zenon
<1>3. x - 1 \in Nat /\ x - 1 < x
    BY <1>2
<1>4. x - 1 \notin T
    <2> SUFFICES ASSUME x - 1 \in T PROVE FALSE
        OBVIOUS
    <2>1. (x - 1) + 1 \in T
        BY <1>3
    <2> QED
        BY <1>2, <1>3, <2>1
<1> QED
    BY <1>1, <1>2, <1>3, <1>4

-----------------------------------------------------------------------------
(* What comes: recursive functions over the reports of an answer.          *)

\* g[j] gives the value of f at j from the one at j - 1.
FromStepToStep(f, base, n, g) == f[0] = base /\ \A j \in 1..n : f[j] = g[j][f[j - 1]]

\* A function that is defined step by step exists.
LEMMA StepByStep ==
    ASSUME NEW V, NEW base \in V, NEW n \in Nat, NEW g \in [1..n -> [V -> V]]
    PROVE  \E f \in [0..n -> V] : FromStepToStep(f, base, n, g)
<1> DEFINE Steps(f, k) == /\ f \in [0..k -> V] /\ f[0] = base
                          /\ \A j \in 1..k : f[j] = g[j][f[j - 1]]
           T == {k \in Nat : k <= n => \E f : Steps(f, k)}
<1>1. 0 \in T
    <2> DEFINE f0 == [j \in 0..0 |-> base]
    <2>1. Steps(f0, 0)
        OBVIOUS
    <2> HIDE DEF f0, Steps
    <2> QED
        BY <2>1
<1>2. ASSUME NEW k \in Nat, k \in T
      PROVE  k + 1 \in T
    <2> SUFFICES ASSUME k + 1 <= n PROVE \E f : Steps(f, k + 1)
        OBVIOUS
    <2>1. k <= n
        OBVIOUS
    <2>2. PICK f : Steps(f, k)
        <3> HIDE DEF Steps
        <3> QED
            BY <1>2, <2>1
    <2>3. /\ f \in [0..k -> V] /\ f[0] = base
          /\ \A j \in 1..k : f[j] = g[j][f[j - 1]]
        BY <2>2
    <2>4. f[k] \in V /\ k + 1 \in 1..n
        BY <2>3
    <2> DEFINE next == g[k + 1][f[k]]
    <2>5. next \in V
        BY <2>4
    <2> HIDE DEF next
    <2> DEFINE h == [j \in 0..(k + 1) |-> IF j = k + 1 THEN next ELSE f[j]]
    <2>6. h \in [0..(k + 1) -> V]
        BY <2>3, <2>5
    <2>7. /\ 0 \in 0..(k + 1) /\ 0 # k + 1
          /\ \A j \in 1..k : j \in 0..(k + 1) /\ j # k + 1 /\ j - 1 \in 0..(k + 1) /\ j - 1 # k + 1
          /\ k \in 0..(k + 1) /\ k # k + 1 /\ k + 1 \in 0..(k + 1) /\ (k + 1) - 1 = k
        OBVIOUS
    <2>8. h[0] = base
        BY <2>3, <2>7
    <2>9. ASSUME NEW j \in 1..(k + 1) PROVE h[j] = g[j][h[j - 1]]
        <3>1. CASE j = k + 1
            <4>1. h[k + 1] = next /\ h[k] = f[k]
                BY <2>7
            <4> QED
                BY <2>7, <3>1, <4>1 DEF next
        <3>2. CASE j # k + 1
            <4>1. j \in 1..k
                BY <3>2
            <4>2. h[j] = f[j] /\ h[j - 1] = f[j - 1]
                BY <2>7, <4>1
            <4> QED
                BY <2>3, <4>1, <4>2
        <3> QED
            BY <3>1, <3>2
    <2> HIDE DEF h
    <2>10. Steps(h, k + 1)
        BY <2>6, <2>8, <2>9
    <2> HIDE DEF Steps
    <2> QED
        BY <2>10
<1>3. n \in T
    <2> HIDE DEF T
    <2> QED
        BY <1>1, <1>2, SetInduction
<1>4. \E f : Steps(f, n)
    <2> HIDE DEF Steps
    <2> QED
        BY <1>3
<1> QED
    BY <1>4 DEF FromStepToStep

\* The lengths of the first reports.
LEMMA SumsOf ==
    ASSUME NEW s \in Seq(Nat \ {0})
    PROVE  /\ Sums(s) \in [0..Len(s) -> Nat]
           /\ Sums(s)[0] = 0
           /\ \A j \in 1..Len(s) : Sums(s)[j] = Sums(s)[j - 1] + s[j]
<1>1. Len(s) \in Nat /\ \A j \in 1..Len(s) : s[j] \in Nat
    OBVIOUS
<1> DEFINE g == [j \in 1..Len(s) |-> [v \in Nat |-> v + s[j]]]
<1>2. g \in [1..Len(s) -> [Nat -> Nat]]
    BY <1>1
<1>3. \A j \in 1..Len(s) : \A v \in Nat : g[j][v] = v + s[j]
    OBVIOUS
<1> HIDE DEF g
<1>4. PICK f \in [0..Len(s) -> Nat] : f[0] = 0 /\ \A j \in 1..Len(s) : f[j] = g[j][f[j - 1]]
    <2>1. 0 \in Nat /\ Len(s) \in Nat
        OBVIOUS
    <2>2. \E f \in [0..Len(s) -> Nat] : FromStepToStep(f, 0, Len(s), g)
        BY <1>2, <2>1, StepByStep, Zenon
    <2> QED
        BY <2>2 DEF FromStepToStep
<1>5. f = [j \in 0..Len(s) |-> IF j = 0 THEN 0 ELSE f[j - 1] + s[j]]
    <2>1. \A j \in 0..Len(s) : f[j] = IF j = 0 THEN 0 ELSE f[j - 1] + s[j]
        <3> TAKE j \in 0..Len(s)
        <3>1. CASE j = 0
            BY <1>4, <3>1
        <3>2. CASE j # 0
            <4>1. j \in 1..Len(s) /\ j - 1 \in 0..Len(s)
                BY <1>1, <3>2
            <4>2. f[j - 1] \in Nat
                BY <4>1
            <4>3. f[j] = g[j][f[j - 1]]
                BY <1>4, <4>1
            <4> QED
                BY <1>3, <3>2, <4>1, <4>2, <4>3
        <3> QED
            BY <3>1, <3>2
    <2> QED
        BY <2>1
<1> DEFINE Is(h) == h = [j \in 0..Len(s) |-> IF j = 0 THEN 0 ELSE h[j - 1] + s[j]]
<1>6. Sums(s) = CHOOSE h : Is(h)
    BY Zenon DEF Sums
<1>7. Is(Sums(s))
    <2>1. Is(f)
        BY <1>5
    <2> HIDE DEF Is
    <2> QED
        BY <1>6, <2>1, Zenon
<1> DEFINE S == Sums(s)
<1>8. S = [j \in 0..Len(s) |-> IF j = 0 THEN 0 ELSE S[j - 1] + s[j]]
    BY <1>7
<1> HIDE DEF S
<1>9. DOMAIN S = 0..Len(s) /\ \A j \in 0..Len(s) : S[j] = IF j = 0 THEN 0 ELSE S[j - 1] + s[j]
    BY <1>8
<1>10. S[0] = 0 /\ \A j \in 1..Len(s) : S[j] = S[j - 1] + s[j]
    BY <1>1, <1>9
<1> DEFINE T == {k \in Nat : k <= Len(s) => S[k] \in Nat}
<1>11. Nat \subseteq T
    <2>1. 0 \in T
        BY <1>10
    <2>2. ASSUME NEW k \in Nat, k \in T PROVE k + 1 \in T
        <3> SUFFICES ASSUME k + 1 <= Len(s) PROVE S[k + 1] \in Nat
            OBVIOUS
        <3>1. k + 1 \in 1..Len(s)
            BY <1>1
        <3>2. S[k] \in Nat /\ s[k + 1] \in Nat
            BY <1>1, <2>2, <3>1
        <3> QED
            BY <1>10, <3>1, <3>2
    <2> HIDE DEF T
    <2> QED
        BY <2>1, <2>2, SetInduction
<1>12. \A j \in 0..Len(s) : S[j] \in Nat
    BY <1>11
<1>13. S \in [0..Len(s) -> Nat]
    BY <1>8, <1>12
<1> QED
    BY <1>10, <1>13 DEF S

\* They grow.
LEMMA SumsGrow ==
    ASSUME NEW s \in Seq(Nat \ {0}), NEW i \in 0..Len(s), NEW j \in 0..Len(s), i < j
    PROVE  Sums(s)[i] < Sums(s)[j] /\ Sums(s)[i] \in Nat /\ Sums(s)[j] \in Nat
<1> DEFINE S == Sums(s)
<1>1. S \in [0..Len(s) -> Nat] /\ \A k \in 1..Len(s) : S[k] = S[k - 1] + s[k]
    BY SumsOf
<1>2. Len(s) \in Nat /\ \A k \in 1..Len(s) : s[k] \in Nat /\ s[k] > 0
    OBVIOUS
<1> HIDE DEF S
<1> DEFINE T == {d \in Nat : i + 1 + d <= Len(s) => S[i] < S[i + 1 + d]}
<1>3. 0 \in T
    <2> SUFFICES ASSUME i + 1 <= Len(s) PROVE S[i] < S[i + 1]
        OBVIOUS
    <2>1. i + 1 \in 1..Len(s) /\ (i + 1) - 1 = i
        BY <1>2
    <2>2. S[i + 1] = S[i] + s[i + 1] /\ S[i] \in Nat /\ s[i + 1] \in Nat /\ s[i + 1] > 0
        BY <1>1, <1>2, <2>1
    <2> QED
        BY <2>2
<1>4. ASSUME NEW d \in Nat, d \in T PROVE d + 1 \in T
    <2> SUFFICES ASSUME i + 1 + (d + 1) <= Len(s) PROVE S[i] < S[i + 1 + (d + 1)]
        OBVIOUS
    <2>1. i + 1 + (d + 1) \in 1..Len(s) /\ (i + 1 + (d + 1)) - 1 = i + 1 + d /\ i + 1 + d \in 0..Len(s)
        BY <1>2
    <2>2. S[i] < S[i + 1 + d] /\ S[i + 1 + d] \in Nat /\ S[i] \in Nat
        <3>1. i + 1 + d <= Len(s)
            BY <1>2
        <3> QED
            BY <1>1, <1>4, <2>1, <3>1
    <2>3. S[i + 1 + (d + 1)] = S[i + 1 + d] + s[i + 1 + (d + 1)]
        BY <1>1, <2>1
    <2>4. s[i + 1 + (d + 1)] \in Nat /\ s[i + 1 + (d + 1)] > 0
        BY <1>2, <2>1
    <2> QED
        BY <2>2, <2>3, <2>4
<1>5. Nat \subseteq T
    <2> HIDE DEF T
    <2> QED
        BY <1>3, <1>4, SetInduction
<1>6. (j - i - 1) \in Nat /\ i + 1 + (j - i - 1) = j /\ j <= Len(s)
    BY <1>2
<1>7. (j - i - 1) \in T
    BY <1>5, <1>6
<1>8. S[i] < S[j]
    BY <1>6, <1>7
<1> QED
    BY <1>1, <1>8 DEF S

\* No sum of the first reports exceeds the length of all, and no report does.
LEMMA SumsUpTo ==
    ASSUME NEW s \in Seq(Nat \ {0})
    PROVE  /\ Len(s) \in Nat /\ Total(s) \in Nat
           /\ \A j \in 0..Len(s) : Sums(s)[j] \in 0..Total(s)
           /\ \A j \in 1..Len(s) : /\ s[j] \in Nat /\ s[j] > 0 /\ s[j] <= Total(s)
                                   /\ j - 1 \in 0..Len(s) /\ Sums(s)[j] = Sums(s)[j - 1] + s[j]
<1>1. Len(s) \in Nat /\ \A j \in 1..Len(s) : s[j] \in Nat /\ s[j] > 0
    OBVIOUS
<1>2. /\ Sums(s) \in [0..Len(s) -> Nat]
      /\ \A j \in 1..Len(s) : Sums(s)[j] = Sums(s)[j - 1] + s[j]
    BY SumsOf
<1>3. Total(s) = Sums(s)[Len(s)] /\ Len(s) \in 0..Len(s)
    BY <1>1 DEF Total
<1>4. Total(s) \in Nat
    BY <1>2, <1>3
<1>5. ASSUME NEW j \in 0..Len(s) PROVE Sums(s)[j] \in 0..Total(s)
    <2>1. Sums(s)[j] \in Nat
        BY <1>2
    <2>2. CASE j = Len(s)
        BY <1>3, <1>4, <2>2
    <2>3. CASE j # Len(s)
        <3>1. j < Len(s)
            BY <1>1, <2>3
        <3>2. Sums(s)[j] < Sums(s)[Len(s)]
            BY <1>3, <3>1, SumsGrow
        <3> QED
            BY <1>3, <1>4, <2>1, <3>2
    <2> QED
        BY <2>2, <2>3
<1>6. ASSUME NEW j \in 1..Len(s)
      PROVE  /\ s[j] \in Nat /\ s[j] > 0 /\ s[j] <= Total(s)
             /\ j - 1 \in 0..Len(s) /\ Sums(s)[j] = Sums(s)[j - 1] + s[j]
    <2>1. j \in 0..Len(s) /\ j - 1 \in 0..Len(s)
        BY <1>1
    <2>2. Sums(s)[j] \in 0..Total(s) /\ Sums(s)[j - 1] \in 0..Total(s)
        BY <1>5, <2>1
    <2>3. Sums(s)[j] = Sums(s)[j - 1] + s[j] /\ s[j] \in Nat /\ s[j] > 0
        BY <1>1, <1>2
    <2>4. s[j] <= Total(s)
        BY <1>4, <2>2, <2>3
    <2> QED
        BY <2>1, <2>3, <2>4
<1> QED
    BY <1>1, <1>4, <1>5, <1>6

\* What can come.
Byte(t) == [kind : Kinds, n : 0..t]

\* The kinds of what comes are different, and so are two places of the data.
LEMMA KindsOfBytes ==
    ASSUME NEW t \in Nat
    PROVE  /\ URC \in Byte(t) /\ Other \in Byte(t)
           /\ \A n \in 0..t : IPD(n) \in Byte(t) /\ Data(n) \in Byte(t)
           /\ \A n, m : URC # IPD(n) /\ URC # Data(n) /\ IPD(n) # Data(m)
           /\ \A n, m : (IPD(n) = IPD(m) => n = m) /\ (Data(n) = Data(m) => n = m)
           /\ \A n : IPD(n).n = n /\ IPD(n).kind = "IPD" /\ Data(n).kind = "data" /\ Data(n).n = n
           /\ URC.kind = "URC" /\ Other.kind = "report"
<1>1. URC \in Byte(t) /\ Other \in Byte(t)
    BY DEF URC, Other, Byte, Kinds
<1>2. \A n \in 0..t : IPD(n) \in Byte(t) /\ Data(n) \in Byte(t)
    BY DEF IPD, Data, Byte, Kinds
<1>3. \A n : IPD(n).n = n /\ IPD(n).kind = "IPD" /\ Data(n).kind = "data" /\ Data(n).n = n
    BY DEF IPD, Data
<1>4. URC.kind = "URC" /\ Other.kind = "report"
    BY DEF URC, Other
<1>5. \A n, m : URC # IPD(n) /\ URC # Data(n) /\ IPD(n) # Data(m)
    <2> TAKE n, m
    <2>1. URC.kind = "URC" /\ IPD(n).kind = "IPD" /\ Data(n).kind = "data" /\ Data(m).kind = "data"
        BY <1>3, <1>4
    <2>2. "URC" # "IPD" /\ "URC" # "data" /\ "IPD" # "data"
        OBVIOUS
    <2> QED
        BY <2>1, <2>2, Zenon
<1>6. \A n, m : (IPD(n) = IPD(m) => n = m) /\ (Data(n) = Data(m) => n = m)
    <2> TAKE n, m
    <2>1. IPD(n).n = n /\ IPD(m).n = m /\ Data(n).n = n /\ Data(m).n = m
        BY <1>3, Zenon
    <2> QED
        BY <2>1, Zenon
<1> QED
    BY <1>1, <1>2, <1>3, <1>4, <1>5, <1>6, Zenon

\* The data of an answer.
LEMMA SentOf ==
    ASSUME NEW s \in Seq(Nat \ {0})
    PROVE  /\ Sent(s) \in Seq(Byte(Total(s))) /\ Len(Sent(s)) = Total(s)
           /\ \A i \in 1..Total(s) : Sent(s)[i] = Data(i)
<1>1. Total(s) \in Nat
    BY SumsUpTo
<1>2. \A i \in 1..Total(s) : Data(i) \in Byte(Total(s))
    BY <1>1, KindsOfBytes
<1> QED
    BY <1>1, <1>2 DEF Sent

\* A part of a sequence, by its places.
LEMMA PartOf ==
    ASSUME NEW B, NEW q \in Seq(B), NEW x \in Nat, NEW y \in Nat, x <= y, y <= Len(q)
    PROVE  /\ SubSeq(q, x + 1, y) \in Seq(B) /\ Len(SubSeq(q, x + 1, y)) = y - x
           /\ \A k \in 1..(y - x) : SubSeq(q, x + 1, y)[k] = q[x + k]
<1>1. /\ Len(q) \in Nat /\ x + 1 \in 1..(Len(q) + 1) /\ y \in x..Len(q)
      /\ (x + 1) - 1 = x /\ y - (x + 1) + 1 = y - x
    OBVIOUS
<1>2. SubSeq(q, x + 1, y) \in Seq(B) /\ Len(SubSeq(q, x + 1, y)) = y - x
    BY <1>1
<1>3. \A k \in 1..(y - x) : SubSeq(q, x + 1, y)[k] = q[x + k]
    <2> TAKE k \in 1..(y - x)
    <2>1. x + 1 \in Int /\ y \in Int /\ k \in 1..(y - (x + 1) + 1) /\ (x + 1) + k - 1 = x + k
        OBVIOUS
    <2>2. SubSeq(q, x + 1, y)[k] = q[(x + 1) + k - 1]
        BY <1>1, <2>1
    <2> QED
        BY <2>1, <2>2
<1> QED
    BY <1>2, <1>3

\* Two sequences, one behind the other, by their places.
LEMMA JoinOf ==
    ASSUME NEW B, NEW p \in Seq(B), NEW q \in Seq(B)
    PROVE  /\ p \o q \in Seq(B) /\ Len(p \o q) = Len(p) + Len(q)
           /\ Len(p) \in Nat /\ Len(q) \in Nat
           /\ \A i \in 1..Len(p) : (p \o q)[i] = p[i]
           /\ \A i \in 1..Len(q) : (p \o q)[Len(p) + i] = q[i]
OBVIOUS

\* One report of them.
LEMMA CutOf ==
    ASSUME NEW s \in Seq(Nat \ {0}), NEW j \in 1..Len(s)
    PROVE  /\ Cut(s, j) \in Seq(Byte(Total(s))) /\ Len(Cut(s, j)) = 2 + s[j]
           /\ Cut(s, j)[1] = URC /\ Cut(s, j)[2] = IPD(s[j])
           /\ \A k \in 1..s[j] : Cut(s, j)[2 + k] = Data(Sums(s)[j - 1] + k)
<1> DEFINE t == Total(s)
           a == Sums(s)[j - 1]
           b == Sums(s)[j]
           data == SubSeq(Sent(s), a + 1, b)
           line == <<URC, IPD(s[j])>>
<1>1. t \in Nat /\ a \in 0..t /\ b \in 0..t /\ b = a + s[j] /\ s[j] \in Nat /\ s[j] <= t
    <2>1. j - 1 \in 0..Len(s) /\ j \in 0..Len(s)
        BY SumsUpTo
    <2> QED
        BY <2>1, SumsUpTo
<1>2. Sent(s) \in Seq(Byte(t)) /\ Len(Sent(s)) = t /\ \A i \in 1..t : Sent(s)[i] = Data(i)
    BY SentOf
<1>3. Cut(s, j) = line \o data
    BY DEF Cut
<1>4. URC \in Byte(t) /\ IPD(s[j]) \in Byte(t)
    BY <1>1, KindsOfBytes
<1> HIDE DEF t, a, b
<1>5. data \in Seq(Byte(t)) /\ Len(data) = s[j] /\ \A k \in 1..s[j] : data[k] = Sent(s)[a + k]
    <2>1. \A q \in Seq(Byte(t)) : \A x, y \in Nat : x <= y /\ y <= Len(q) =>
              /\ SubSeq(q, x + 1, y) \in Seq(Byte(t)) /\ Len(SubSeq(q, x + 1, y)) = y - x
              /\ \A k \in 1..(y - x) : SubSeq(q, x + 1, y)[k] = q[x + k]
        BY PartOf
    <2>2. a \in Nat /\ b \in Nat /\ a <= b /\ b <= Len(Sent(s)) /\ b - a = s[j]
        BY <1>1, <1>2
    <2> QED
        BY <1>2, <2>1, <2>2
<1>6. line \in Seq(Byte(t)) /\ Len(line) = 2 /\ line[1] = URC /\ line[2] = IPD(s[j])
    BY <1>4
<1> HIDE DEF data, line
<1>7. /\ line \o data \in Seq(Byte(t)) /\ Len(line \o data) = 2 + s[j]
      /\ (line \o data)[1] = line[1] /\ (line \o data)[2] = line[2]
      /\ \A k \in 1..s[j] : (line \o data)[2 + k] = data[k]
    <2>1. \A p, q \in Seq(Byte(t)) :
              /\ p \o q \in Seq(Byte(t)) /\ Len(p \o q) = Len(p) + Len(q)
              /\ \A i \in 1..Len(p) : (p \o q)[i] = p[i]
              /\ \A i \in 1..Len(q) : (p \o q)[Len(p) + i] = q[i]
        BY JoinOf
    <2>2. 1 \in 1..2 /\ 2 \in 1..2
        OBVIOUS
    <2>3. line \in Seq(Byte(t)) /\ data \in Seq(Byte(t))
        BY <1>5, <1>6
    <2>4. /\ line \o data \in Seq(Byte(t)) /\ Len(line \o data) = Len(line) + Len(data)
          /\ \A i \in 1..Len(line) : (line \o data)[i] = line[i]
          /\ \A i \in 1..Len(data) : (line \o data)[Len(line) + i] = data[i]
        BY <2>1, <2>3, Zenon
    <2>5. Len(line) = 2 /\ Len(data) = s[j]
        BY <1>5, <1>6
    <2> QED
        BY <2>2, <2>4, <2>5
<1>8. \A k \in 1..s[j] : data[k] = Data(a + k)
    <2> TAKE k \in 1..s[j]
    <2>1. a + k \in 1..t
        BY <1>1
    <2> QED
        BY <1>2, <1>5, <2>1
<1>9. \A k \in 1..s[j] : Cut(s, j)[2 + k] = Data(a + k)
    <2> TAKE k \in 1..s[j]
    <2> QED
        BY <1>3, <1>7, <1>8
<1> QED
    BY <1>3, <1>6, <1>7, <1>9 DEF t, a

\* Where the first j reports end in what comes.
Ends(s, j) == 2 * j + Sums(s)[j]

\* Where the reports end, step by step.
LEMMA EndsOf ==
    ASSUME NEW s \in Seq(Nat \ {0})
    PROVE  /\ \A j \in 0..Len(s) : Ends(s, j) \in Nat
           /\ Ends(s, 0) = 0 /\ Ends(s, Len(s)) = 2 * Len(s) + Total(s)
           /\ \A j \in 1..Len(s) : Ends(s, j) = Ends(s, j - 1) + 2 + s[j]
<1>1. /\ Sums(s)[0] = 0 /\ Len(s) \in Nat
      /\ \A j \in 0..Len(s) : Sums(s)[j] \in Nat
      /\ \A j \in 1..Len(s) : Sums(s)[j] = Sums(s)[j - 1] + s[j] /\ s[j] \in Nat
    BY SumsOf, SumsUpTo
<1>2. \A j \in 0..Len(s) : Ends(s, j) \in Nat
    BY <1>1 DEF Ends
<1>3. Ends(s, 0) = 0 /\ Ends(s, Len(s)) = 2 * Len(s) + Total(s)
    BY <1>1 DEF Ends, Total
<1>4. ASSUME NEW j \in 1..Len(s) PROVE Ends(s, j) = Ends(s, j - 1) + 2 + s[j]
    <2>1. j - 1 \in 0..Len(s) /\ j \in Nat
        BY <1>1
    <2>2. Sums(s)[j - 1] \in Nat /\ Sums(s)[j] = Sums(s)[j - 1] + s[j] /\ s[j] \in Nat
        BY <1>1, <2>1
    <2>3. Ends(s, j) = 2 * j + Sums(s)[j] /\ Ends(s, j - 1) = 2 * (j - 1) + Sums(s)[j - 1]
        BY DEF Ends
    <2> QED
        BY <2>1, <2>2, <2>3
<1> QED
    BY <1>2, <1>3, <1>4

\* A later report ends later, by more than its head.
LEMMA EndsGrow ==
    ASSUME NEW s \in Seq(Nat \ {0}), NEW i \in 0..Len(s), NEW j \in 0..Len(s), i <= j
    PROVE  Ends(s, i) <= Ends(s, j) /\ (i < j => Ends(s, i) + 2 < Ends(s, j))
<1>1. i \in Nat /\ j \in Nat /\ \A k \in 0..Len(s) : Sums(s)[k] \in Nat
    BY SumsUpTo
<1>2. Ends(s, i) = 2 * i + Sums(s)[i] /\ Ends(s, j) = 2 * j + Sums(s)[j]
    BY DEF Ends
<1>3. i < j => Sums(s)[i] < Sums(s)[j]
    BY SumsGrow
<1> QED
    BY <1>1, <1>2, <1>3

\* The report j is in q where it has to be.
HasReport(q, s, j) ==
    /\ q[Ends(s, j - 1) + 1] = URC
    /\ q[Ends(s, j - 1) + 2] = IPD(s[j])
    /\ \A x \in 1..s[j] : q[Ends(s, j - 1) + 2 + x] = Data(Sums(s)[j - 1] + x)

\* What comes is made report by report.
LEMMA StreamSteps ==
    ASSUME NEW s \in Seq(Nat \ {0})
    PROVE  \E f \in [0..Len(s) -> Seq(Byte(Total(s)))] :
               /\ f[0] = <<>> /\ f[Len(s)] = Stream(s)
               /\ \A j \in 1..Len(s) : f[j] = f[j - 1] \o Cut(s, j)
<1> DEFINE t == Total(s)
           V == Seq(Byte(t))
           n == Len(s)
<1>1. n \in Nat /\ <<>> \in V
    BY SumsUpTo
<1>2. \A j \in 1..n : Cut(s, j) \in V
    BY CutOf
<1> DEFINE g == [j \in 1..n |-> [v \in V |-> v \o Cut(s, j)]]
<1>3. g \in [1..n -> [V -> V]]
    <2>1. \A j \in 1..n : \A v \in V : v \o Cut(s, j) \in V
        BY <1>2, JoinOf
    <2> HIDE DEF V, n
    <2> QED
        BY <2>1
<1>4. \A j \in 1..n : \A v \in V : g[j][v] = v \o Cut(s, j)
    <2> HIDE DEF V, n
    <2> QED
        OBVIOUS
<1> HIDE DEF g, V, n
<1>5. PICK f \in [0..n -> V] : FromStepToStep(f, <<>>, n, g)
    BY <1>1, <1>3, StepByStep, Zenon
<1>6. f[0] = <<>> /\ \A j \in 1..n : f[j] = g[j][f[j - 1]]
    BY <1>5 DEF FromStepToStep
<1>7. \A j \in 1..n : f[j] = f[j - 1] \o Cut(s, j)
    <2> TAKE j \in 1..n
    <2>1. j - 1 \in 0..n
        BY <1>1
    <2>2. f[j - 1] \in V
        BY <2>1
    <2> QED
        BY <1>4, <1>6, <2>2
<1> DEFINE Is(h) == h = [j \in 0..n |-> IF j = 0 THEN <<>> ELSE h[j - 1] \o Cut(s, j)]
           F == CHOOSE h : Is(h)
<1>8. Is(f)
    <2>1. \A j \in 0..n : f[j] = IF j = 0 THEN <<>> ELSE f[j - 1] \o Cut(s, j)
        <3> TAKE j \in 0..n
        <3>1. CASE j = 0
            BY <1>6, <3>1
        <3>2. CASE j # 0
            <4>1. j \in 1..n
                BY <1>1, <3>2
            <4> QED
                BY <1>7, <3>2, <4>1
        <3> QED
            BY <3>1, <3>2
    <2>2. DOMAIN f = 0..n /\ f = [j \in 0..n |-> f[j]]
        OBVIOUS
    <2> QED
        BY <2>1, <2>2, Zenon
<1>9. Is(F)
    <2> HIDE DEF Is
    <2> QED
        BY <1>8, Zenon
<1>10. Stream(s) = F[n]
    BY Zenon DEF Stream, n
<1>11. /\ DOMAIN F = 0..n
       /\ \A j \in 0..n : F[j] = IF j = 0 THEN <<>> ELSE F[j - 1] \o Cut(s, j)
    <2>1. F = [j \in 0..n |-> IF j = 0 THEN <<>> ELSE F[j - 1] \o Cut(s, j)]
        BY <1>9
    <2> HIDE DEF F
    <2> QED
        BY <2>1, Zenon
<1> HIDE DEF F, Is
<1>12. F[n] = f[n]
    <2> DEFINE T == {k \in Nat : k <= n => F[k] = f[k]}
    <2>1. 0 \in T
        <3>1. 0 \in 0..n
            BY <1>1
        <3> QED
            BY <1>6, <1>11, <3>1
    <2>2. ASSUME NEW k \in Nat, k \in T PROVE k + 1 \in T
        <3> SUFFICES ASSUME k + 1 <= n PROVE F[k + 1] = f[k + 1]
            OBVIOUS
        <3>1. k + 1 \in 1..n /\ k + 1 \in 0..n /\ k + 1 # 0 /\ (k + 1) - 1 = k /\ k <= n
            BY <1>1
        <3>2. F[k] = f[k]
            BY <2>2, <3>1
        <3>3. F[k + 1] = F[(k + 1) - 1] \o Cut(s, k + 1)
            BY <1>11, <3>1, Zenon
        <3>4. f[k + 1] = f[(k + 1) - 1] \o Cut(s, k + 1)
            BY <1>7, <3>1, Zenon
        <3> QED
            BY <3>1, <3>2, <3>3, <3>4
    <2> HIDE DEF T
    <2>3. Nat \subseteq T
        BY <2>1, <2>2, SetInduction
    <2>4. n \in T
        BY <1>1, <2>3
    <2> QED
        BY <1>1, <2>4 DEF T
<1> QED
    BY <1>6, <1>7, <1>10, <1>12 DEF n, V

\* It has every report, and nothing else.
LEMMA StreamOf ==
    ASSUME NEW s \in Seq(Nat \ {0})
    PROVE  /\ Stream(s) \in Seq(Byte(Total(s))) /\ Len(Stream(s)) = Ends(s, Len(s))
           /\ \A j \in 1..Len(s) : HasReport(Stream(s), s, j)
<1> DEFINE t == Total(s)
           V == Seq(Byte(t))
           n == Len(s)
           S == Sums(s)
<1>1. /\ n \in Nat
      /\ \A j \in 0..n : Ends(s, j) \in Nat
      /\ \A j \in 1..n : /\ Ends(s, j) = Ends(s, j - 1) + 2 + s[j]
                         /\ s[j] \in Nat /\ j \in 0..n /\ j - 1 \in 0..n
    BY EndsOf, SumsUpTo
<1>2. \A j \in 1..n :
          /\ Cut(s, j) \in V /\ Len(Cut(s, j)) = 2 + s[j]
          /\ Cut(s, j)[1] = URC /\ Cut(s, j)[2] = IPD(s[j])
          /\ \A k \in 1..s[j] : Cut(s, j)[2 + k] = Data(S[j - 1] + k)
    BY CutOf
<1>3. PICK f \in [0..n -> V] :
          /\ f[0] = <<>> /\ f[n] = Stream(s)
          /\ \A j \in 1..n : f[j] = f[j - 1] \o Cut(s, j)
    BY StreamSteps
<1> DEFINE Good(q, k) == Len(q) = Ends(s, k) /\ \A j \in 1..k : HasReport(q, s, j)
           T == {k \in Nat : k <= n => Good(f[k], k)}
<1> HIDE DEF n, V, t
<1>4. 0 \in T
    <2>1. Len(<<>>) = Ends(s, 0)
        BY EndsOf
    <2>2. \A j \in 1..0 : HasReport(f[0], s, j)
        OBVIOUS
    <2> QED
        BY <1>3, <2>1, <2>2
<1>5. ASSUME NEW k \in Nat, k \in T PROVE k + 1 \in T
    <2> SUFFICES ASSUME k + 1 <= n PROVE Good(f[k + 1], k + 1)
        OBVIOUS
    <2> DEFINE q == f[k]
               c == Cut(s, k + 1)
               e == Ends(s, k)
    <2>1. k + 1 \in 1..n /\ k + 1 \in 0..n /\ (k + 1) - 1 = k /\ k <= n /\ k \in 0..n
        BY <1>1
    <2>2. q \in V /\ Len(q) = e /\ e \in Nat /\ \A j \in 1..k : HasReport(q, s, j)
        BY <1>1, <1>5, <2>1
    <2>3. /\ c \in V /\ Len(c) = 2 + s[k + 1] /\ c[1] = URC /\ c[2] = IPD(s[k + 1])
          /\ \A x \in 1..s[k + 1] : c[2 + x] = Data(S[k] + x)
        BY <1>2, <2>1
    <2>4. f[k + 1] = q \o c
        BY <1>3, <2>1
    <2>5. /\ Ends(s, k + 1) = e + 2 + s[k + 1] /\ s[k + 1] \in Nat
        BY <1>1, <2>1
    <2> HIDE DEF q, c, e, S
    <2>6. /\ q \o c \in V /\ Len(q \o c) = Len(q) + Len(c)
          /\ \A i \in 1..Len(q) : (q \o c)[i] = q[i]
          /\ \A i \in 1..Len(c) : (q \o c)[Len(q) + i] = c[i]
        <3>1. \A p, r \in V :
                  /\ p \o r \in V /\ Len(p \o r) = Len(p) + Len(r)
                  /\ \A i \in 1..Len(p) : (p \o r)[i] = p[i]
                  /\ \A i \in 1..Len(r) : (p \o r)[Len(p) + i] = r[i]
            BY JoinOf DEF V
        <3> QED
            BY <2>2, <2>3, <3>1, Zenon
    <2>7. Len(q \o c) = Ends(s, k + 1)
        <3>1. Len(q \o c) = Len(q) + Len(c)
            BY <2>6
        <3>2. Len(q) = e /\ Len(c) = 2 + s[k + 1] /\ e \in Nat
            BY <2>2, <2>3
        <3> QED
            BY <2>5, <3>1, <3>2
    <2>8. HasReport(q \o c, s, k + 1)
        <3>1. /\ 1 \in 1..(2 + s[k + 1]) /\ 2 \in 1..(2 + s[k + 1])
              /\ \A x \in 1..s[k + 1] : 2 + x \in 1..(2 + s[k + 1]) /\ e + (2 + x) = e + 2 + x
            BY <2>2, <2>5
        <3>2. \A i \in 1..(2 + s[k + 1]) : (q \o c)[e + i] = c[i]
            BY <2>2, <2>3, <2>6
        <3>3. (q \o c)[e + 1] = URC /\ (q \o c)[e + 2] = IPD(s[k + 1])
            BY <2>3, <3>1, <3>2
        <3>4. \A x \in 1..s[k + 1] : (q \o c)[e + 2 + x] = Data(S[k] + x)
            <4> TAKE x \in 1..s[k + 1]
            <4>1. (q \o c)[e + (2 + x)] = c[2 + x]
                BY <3>1, <3>2
            <4> QED
                BY <2>3, <3>1, <4>1
        <3> QED
            BY <2>1, <3>3, <3>4 DEF HasReport, e, S
    <2>9. ASSUME NEW j \in 1..k PROVE HasReport(q \o c, s, j)
        <3>1. j \in 1..n /\ j - 1 \in 0..n /\ j \in 0..n /\ k \in 0..n
            BY <1>1, <2>1
        <3>2. Ends(s, j) = Ends(s, j - 1) + 2 + s[j] /\ Ends(s, j - 1) \in Nat /\ s[j] \in Nat
            BY <1>1, <3>1
        <3>3. Ends(s, j) <= e
            <4>1. j <= k /\ j \in 0..Len(s) /\ k \in 0..Len(s)
                BY <2>1, <3>1 DEF n
            <4> QED
                BY <4>1, EndsGrow DEF e
        <3>4. /\ Ends(s, j - 1) + 1 \in 1..Len(q) /\ Ends(s, j - 1) + 2 \in 1..Len(q)
              /\ \A x \in 1..s[j] : Ends(s, j - 1) + 2 + x \in 1..Len(q)
            <4> DEFINE L == Len(q)
                       a == Ends(s, j - 1)
                       z == Ends(s, j)
            <4>1. L = e /\ e \in Nat
                BY <2>2
            <4>2. z = a + 2 + s[j] /\ a \in Nat /\ s[j] \in Nat /\ z <= L
                BY <3>2, <3>3, <4>1
            <4> HIDE DEF L, a, z, e
            <4>3. /\ a + 1 \in 1..L /\ a + 2 \in 1..L
                  /\ \A x \in 1..s[j] : a + 2 + x \in 1..L
                BY <4>1, <4>2
            <4> QED
                BY <4>3 DEF a, L
        <3>5. HasReport(q, s, j)
            BY <2>2
        <3> QED
            BY <2>6, <3>4, <3>5 DEF HasReport
    <2>10. \A j \in 1..(k + 1) : HasReport(q \o c, s, j)
        BY <2>8, <2>9
    <2> QED
        BY <2>4, <2>7, <2>10
<1>6. n \in T
    <2> HIDE DEF T
    <2> QED
        BY <1>1, <1>4, <1>5, SetInduction
<1>7. Good(f[n], n)
    BY <1>1, <1>6
<1>8. f[n] \in V
    BY <1>1
<1> QED
    BY <1>3, <1>7, <1>8 DEF n, V, t

\* Every position is inside of one of the reports.
LEMMA InSomeReport ==
    ASSUME NEW s \in Seq(Nat \ {0}), NEW i \in 1..Ends(s, Len(s))
    PROVE  \E j \in 1..Len(s) : Ends(s, j - 1) < i /\ i <= Ends(s, j)
<1> DEFINE n == Len(s)
           T == {k \in Nat : k <= n /\ i <= Ends(s, k) =>
                    \E j \in 1..n : Ends(s, j - 1) < i /\ i <= Ends(s, j)}
<1>1. n \in Nat /\ Ends(s, 0) = 0 /\ \A k \in 0..n : Ends(s, k) \in Nat
    BY EndsOf, SumsUpTo
<1>2. i \in Nat /\ i > 0 /\ i <= Ends(s, n)
    <2>1. Ends(s, n) \in Nat
        BY <1>1
    <2> QED
        BY <2>1
<1> HIDE DEF n
<1>3. 0 \in T
    BY <1>1, <1>2
<1>4. ASSUME NEW k \in Nat, k \in T PROVE k + 1 \in T
    <2> SUFFICES ASSUME k + 1 <= n, i <= Ends(s, k + 1)
                 PROVE  \E j \in 1..n : Ends(s, j - 1) < i /\ i <= Ends(s, j)
        OBVIOUS
    <2>1. k + 1 \in 1..n /\ (k + 1) - 1 = k /\ k <= n /\ k \in 0..n
        BY <1>1
    <2>2. CASE i <= Ends(s, k)
        BY <1>4, <2>1, <2>2
    <2>3. CASE ~(i <= Ends(s, k))
        <3>1. Ends(s, (k + 1) - 1) < i
            BY <1>1, <1>2, <2>1, <2>3
        <3> QED
            BY <2>1, <3>1
    <2> QED
        BY <2>2, <2>3
<1>5. n \in T
    <2> HIDE DEF T
    <2> QED
        BY <1>1, <1>3, <1>4, SetInduction
<1> QED
    BY <1>1, <1>2, <1>5 DEF n

\* What stands at a position of a report.
LEMMA ReportAt ==
    ASSUME NEW s \in Seq(Nat \ {0}), NEW j \in 1..Len(s), NEW i \in Nat,
           Ends(s, j - 1) < i, i <= Ends(s, j)
    PROVE  \/ i = Ends(s, j - 1) + 1 /\ Stream(s)[i] = URC
           \/ i = Ends(s, j - 1) + 2 /\ Stream(s)[i] = IPD(s[j])
           \/ i - 2 * j \in 1..Sums(s)[j] /\ Stream(s)[i] = Data(i - 2 * j)
<1> DEFINE e == Ends(s, j - 1)
           x == i - (e + 2)
<1>1. HasReport(Stream(s), s, j)
    BY StreamOf
<1>2. /\ e \in Nat /\ Ends(s, j) = e + 2 + s[j] /\ s[j] \in Nat /\ j \in Nat
      /\ Sums(s)[j - 1] \in Nat /\ Sums(s)[j] = Sums(s)[j - 1] + s[j]
    <2>1. Len(s) \in Nat /\ j - 1 \in 0..Len(s) /\ s[j] \in Nat /\ j \in Nat
        BY SumsUpTo
    <2>2. e \in Nat /\ Ends(s, j) = e + 2 + s[j]
        BY <2>1, EndsOf
    <2>3. Sums(s)[j - 1] \in Nat /\ Sums(s)[j] = Sums(s)[j - 1] + s[j]
        BY <2>1, SumsUpTo
    <2> QED
        BY <2>1, <2>2, <2>3
<1>3. e = 2 * (j - 1) + Sums(s)[j - 1]
    BY DEF Ends
<1>4. CASE i = e + 1
    BY <1>1, <1>4 DEF HasReport
<1>5. CASE i = e + 2
    BY <1>1, <1>5 DEF HasReport
<1>6. CASE i # e + 1 /\ i # e + 2
    <2>1. x \in 1..s[j] /\ i = e + 2 + x
        <3>1. e < i /\ i <= e + 2 + s[j]
            BY <1>2
        <3> HIDE DEF e
        <3> QED
            BY <1>2, <1>6, <3>1
    <2>2. Stream(s)[e + 2 + x] = Data(Sums(s)[j - 1] + x)
        BY <1>1, <2>1 DEF HasReport
    <2>3. Sums(s)[j - 1] + x = i - 2 * j /\ i - 2 * j \in 1..Sums(s)[j]
        <3> DEFINE a == Sums(s)[j - 1]
        <3>1. a \in Nat /\ e = 2 * (j - 1) + a /\ Sums(s)[j] = a + s[j] /\ s[j] \in Nat /\ j \in Nat
            BY <1>2, <1>3
        <3>2. x \in 1..s[j] /\ i = e + 2 + x
            BY <2>1
        <3> HIDE DEF a, e, x
        <3>3. a + x = i - 2 * j
            BY <3>1, <3>2
        <3>4. i - 2 * j \in 1..(a + s[j])
            BY <3>1, <3>2, <3>3
        <3> QED
            BY <3>1, <3>3, <3>4 DEF a
    <2> QED
        BY <2>1, <2>2, <2>3
<1> QED
    BY <1>4, <1>5, <1>6

\* The modem has a report to send next exactly when all before were sent whole.
LEMMA NextIsReport ==
    ASSUME NEW s \in Seq(Nat \ {0}), NEW i \in 1..Len(Stream(s)),
           Stream(s)[i].kind \in {"URC", "report"}
    PROVE  \E j \in 1..Len(s) : i = Ends(s, j - 1) + 1
<1>1. Len(Stream(s)) = Ends(s, Len(s)) /\ Ends(s, Len(s)) \in Nat
    <2>1. Len(s) \in 0..Len(s)
        BY SumsUpTo
    <2> QED
        BY <2>1, StreamOf, EndsOf
<1>2. i \in Nat /\ i \in 1..Ends(s, Len(s))
    BY <1>1
<1>3. PICK j \in 1..Len(s) : Ends(s, j - 1) < i /\ i <= Ends(s, j)
    BY <1>2, InSomeReport
<1>4. \/ i = Ends(s, j - 1) + 1
      \/ Stream(s)[i] = IPD(s[j])
      \/ Stream(s)[i] = Data(i - 2 * j)
    BY <1>2, <1>3, ReportAt
<1>5. IPD(s[j]).kind = "IPD" /\ Data(i - 2 * j).kind = "data"
    BY KindsOfBytes
<1> QED
    BY <1>4, <1>5

\* The smallest of some numbers.
LEMMA LowestOf ==
    ASSUME NEW S \in SUBSET Nat, S # {}
    PROVE  Lowest(S) \in S /\ \A q \in S : Lowest(S) <= q
<1> DEFINE T == {k \in Nat : (\E p \in S : p <= k) => \E p \in S : \A q \in S : p <= q}
<1>1. 0 \in T
    <2> SUFFICES ASSUME NEW p \in S, p <= 0 PROVE \E r \in S : \A q \in S : r <= q
        OBVIOUS
    <2>1. p \in Nat /\ \A q \in S : q \in Nat
        OBVIOUS
    <2>2. p = 0
        BY <2>1
    <2>3. \A q \in S : p <= q
        BY <2>1, <2>2
    <2> QED
        BY <2>3
<1>2. ASSUME NEW k \in Nat, k \in T PROVE k + 1 \in T
    <2> SUFFICES ASSUME NEW p \in S, p <= k + 1 PROVE \E r \in S : \A q \in S : r <= q
        OBVIOUS
    <2>1. p \in Nat /\ \A q \in S : q \in Nat
        OBVIOUS
    <2>2. CASE \E r \in S : r <= k
        BY <1>2, <2>2
    <2>3. CASE ~\E r \in S : r <= k
        <3>1. \A q \in S : p <= q
            BY <2>1, <2>3
        <3> QED
            BY <3>1
    <2> QED
        BY <2>2, <2>3
<1>3. PICK p \in S : TRUE
    OBVIOUS
<1>4. p \in Nat /\ p <= p
    OBVIOUS
<1>5. p \in T
    <2> HIDE DEF T
    <2> QED
        BY <1>1, <1>2, <1>4, SetInduction
<1>6. \E r \in S : \A q \in S : r <= q
    BY <1>4, <1>5
<1> QED
    BY <1>6 DEF Lowest

-----------------------------------------------------------------------------
(* The parts of the sequences.                                             *)

\* A sequence is its two parts, one behind the other.
LEMMA CutInTwo ==
    ASSUME NEW B, NEW q \in Seq(B), NEW n \in 0..Len(q)
    PROVE  SubSeq(q, 1, n) \o SubSeq(q, n + 1, Len(q)) = q
<1> DEFINE a == SubSeq(q, 1, n)
           b == SubSeq(q, n + 1, Len(q))
<1>1. Len(q) \in Nat /\ n \in Nat /\ n <= Len(q)
    OBVIOUS
<1>2. /\ a \in Seq(B) /\ Len(a) = n - 0
      /\ \A k \in 1..(n - 0) : a[k] = q[0 + k]
    <2>1. 0 \in Nat /\ 0 <= n /\ 0 + 1 = 1
        BY <1>1
    <2>2. /\ SubSeq(q, 0 + 1, n) \in Seq(B) /\ Len(SubSeq(q, 0 + 1, n)) = n - 0
          /\ \A k \in 1..(n - 0) : SubSeq(q, 0 + 1, n)[k] = q[0 + k]
        BY <1>1, <2>1, PartOf
    <2> QED
        BY <2>1, <2>2
<1>3. /\ b \in Seq(B) /\ Len(b) = Len(q) - n
      /\ \A k \in 1..(Len(q) - n) : b[k] = q[n + k]
    BY <1>1, PartOf
<1> HIDE DEF a, b
<1>4. /\ a \o b \in Seq(B) /\ Len(a \o b) = Len(a) + Len(b)
      /\ \A i \in 1..Len(a) : (a \o b)[i] = a[i]
      /\ \A i \in 1..Len(b) : (a \o b)[Len(a) + i] = b[i]
    BY <1>2, <1>3, JoinOf
<1>5. Len(a) = n /\ Len(a \o b) = Len(q)
    BY <1>1, <1>2, <1>3, <1>4
<1>6. \A i \in 1..Len(q) : (a \o b)[i] = q[i]
    <2> TAKE i \in 1..Len(q)
    <2>1. CASE i <= n
        <3>1. i \in 1..n /\ i \in 1..(n - 0) /\ 0 + i = i
            BY <1>1, <2>1
        <3> QED
            BY <1>2, <1>4, <1>5, <3>1
    <2>2. CASE ~(i <= n)
        <3>1. i - n \in 1..(Len(q) - n) /\ n + (i - n) = i
            BY <1>1, <2>2
        <3>2. (a \o b)[Len(a) + (i - n)] = b[i - n]
            BY <1>3, <1>4, <3>1
        <3> QED
            BY <1>3, <1>5, <3>1, <3>2
    <2> QED
        BY <2>1, <2>2
<1>7. a \o b = q
    BY <1>4, <1>5, <1>6, SeqEqual
<1> QED
    BY <1>7 DEF a, b

\* What read() returns and what it leaves are together what was there.
LEMMA ReadOf ==
    ASSUME NEW B, tty \in Seq(B), NEW max \in Nat
    PROVE  /\ Got(max) \in Seq(B) /\ Left(max) \in Seq(B)
           /\ Got(max) \o Left(max) = tty
           /\ Len(Got(max)) <= max
           /\ (max > 0 /\ tty # <<>>) => Got(max) # <<>>
<1>1. CASE Len(tty) <= max
    <2>1. Got(max) = tty
        BY <1>1 DEF Got
    <2>2. max + 1 > Len(tty)
        BY <1>1
    <2>3. Left(max) = <<>>
        BY <2>2 DEF Left
    <2> QED
        BY <1>1, <2>1, <2>3
<1>2. CASE ~(Len(tty) <= max)
    <2>1. Got(max) = SubSeq(tty, 1, max) /\ Left(max) = SubSeq(tty, max + 1, Len(tty))
        BY <1>2 DEF Got, Left
    <2>2. /\ Got(max) \in Seq(B) /\ Len(Got(max)) = max
          /\ Left(max) \in Seq(B)
        BY <1>2, <2>1
    <2>3. Got(max) \o Left(max) = tty
        <3>1. max \in 0..Len(tty)
            BY <1>2
        <3> QED
            BY <2>1, <3>1, CutInTwo
    <2> QED
        BY <2>2, <2>3
<1> QED
    BY <1>1, <1>2

-----------------------------------------------------------------------------
(* Types.                                                                  *)

\* Before the heads are removed, the loop has not begun; in it, no more is counted as
\* data than as parsed, and no more as parsed than there is.
Begun == pc \notin {"RECVING", "read_more", "head", "read", "msg_len", "silence"}

Shape ==
    /\ pc \in {"read_more", "head"} => ATBuf # <<>> /\ Len(ATBuf) <= ReadMax
    /\ pc \in {"RECVING", "read", "msg_len", "silence"} => ATBuf = <<>>
    /\ pc \in {"read", "msg_len", "silence"} => recv_tmp_buf = <<>>
    /\ ~Begun => strip.cur = 0 /\ strip.parsed_len = 0 /\ strip.valid_len = 0
    /\ pc = "strip" => strip.valid_len <= strip.parsed_len /\ strip.parsed_len <= Len(buffer)

\* The types, as the provers need them.
LEMMA Facts ==
    ASSUME TypeOK
    PROVE  /\ segs \in Seq(Nat \ {0}) /\ Total(segs) \in Nat /\ Bytes = Byte(Total(segs))
           /\ ReadMax \in Nat /\ ReadMax > 0 /\ answer.reports \in Nat
           /\ modem \in Seq(Bytes) /\ tty \in Seq(Bytes) /\ ATBuf \in Seq(Bytes)
           /\ recv_tmp_buf \in Seq(Bytes) /\ buffer \in Seq(Bytes)
           /\ URC \in Bytes /\ Other \in Bytes /\ Data(0) \in Bytes
           /\ \A b \in Bytes : b.n \in 0..Total(segs)
<1>1. answer \in Answers
    BY DEF TypeOK
<1>2. /\ answer.segs \in Seq(Nat \ {0}) /\ answer.reports \in Nat
      /\ ReadMax \in Nat /\ ReadMax > 0
    BY <1>1, RecvDataAssumption DEF RecvDataAssumption
<1>3. segs \in Seq(Nat \ {0})
    BY <1>2 DEF segs
<1>4. Total(segs) \in Nat
    BY <1>3, SumsUpTo
<1>5. Bytes = Byte(Total(segs))
    BY DEF Bytes, Byte
<1>6. URC \in Bytes /\ Other \in Bytes /\ Data(0) \in Bytes
    <2>1. 0 \in 0..Total(segs)
        BY <1>4
    <2> QED
        BY <1>4, <1>5, <2>1, KindsOfBytes
<1>7. \A b \in Bytes : b.n \in 0..Total(segs)
    BY DEF Bytes
<1>8. /\ modem \in Seq(Bytes) /\ tty \in Seq(Bytes) /\ ATBuf \in Seq(Bytes)
      /\ recv_tmp_buf \in Seq(Bytes) /\ buffer \in Seq(Bytes)
    BY DEF TypeOK
<1> QED
    BY <1>2, <1>3, <1>4, <1>5, <1>6, <1>7, <1>8

\* The first states have the types.
LEMMA TypeInit ==
    ASSUME Init
    PROVE  TypeOK /\ Shape
<1>1. answer \in Answers
    BY DEF Init
<1>2. answer.segs \in Seq(Nat \ {0}) /\ answer.reports \in Nat
    BY <1>1, RecvDataAssumption DEF RecvDataAssumption
<1>3. Total(segs) \in Nat /\ Stream(segs) \in Seq(Byte(Total(segs)))
    BY <1>2, SumsUpTo, StreamOf DEF segs
<1>4. Bytes = Byte(Total(segs))
    BY DEF Bytes, Byte
<1>5. {modem, tty, ATBuf, recv_tmp_buf, buffer} \subseteq Seq(Bytes)
    <2>1. modem \in Seq(Bytes)
        BY <1>3, <1>4 DEF Init
    <2>2. tty = <<>> /\ ATBuf = <<>> /\ recv_tmp_buf = <<>> /\ buffer = <<>>
        BY DEF Init
    <2> QED
        BY <2>1, <2>2
<1>6. TypeOK
    BY <1>1, <1>2, <1>3, <1>5 DEF Init, TypeOK
<1>7. Shape
    BY DEF Init, Shape, Begun
<1> QED
    BY <1>6, <1>7

\* TypeOK after a step, part by part.
LEMMA TypeParts ==
    ASSUME TypeOK, answer' = answer,
           modem' \in Seq(Bytes), tty' \in Seq(Bytes), ATBuf' \in Seq(Bytes),
           recv_tmp_buf' \in Seq(Bytes), buffer' \in Seq(Bytes),
           isRetryToRecv' \in 0..2, isRetryToRecv' = Len(recv_tmp_buf'),
           URC_data' \in 0..Total(segs),
           strip' \in [cur : Nat, parsed_len : Nat, valid_len : Nat, total_len : Nat],
           pc' \in {"RECVING", "read_more", "head", "read", "msg_len", "silence", "strip"} \union Ended,
           reports' \in 0..answer.reports
    PROVE  TypeOK'
<1>1. Bytes' = Bytes /\ Total(segs)' = Total(segs) /\ answer'.reports = answer.reports
    BY DEF Bytes, segs
<1>2. answer' \in Answers
    BY DEF TypeOK
<1> QED
    BY <1>1, <1>2 DEF TypeOK, Ended

\* The part that is not changed keeps its types.
LEMMA Rest ==
    ASSUME TypeOK
    PROVE  /\ isRetryToRecv \in 0..2 /\ isRetryToRecv = Len(recv_tmp_buf)
           /\ URC_data \in 0..Total(segs)
           /\ strip \in [cur : Nat, parsed_len : Nat, valid_len : Nat, total_len : Nat]
           /\ strip.cur \in Nat /\ strip.parsed_len \in Nat /\ strip.valid_len \in Nat
           /\ strip.total_len \in Nat
           /\ pc \in {"RECVING", "read_more", "head", "read", "msg_len", "silence", "strip"} \union Ended
           /\ reports \in 0..answer.reports
BY DEF TypeOK

\* The modem sends.
LEMMA TransmitTypes ==
    ASSUME TypeOK, Shape, Transmit
    PROVE  TypeOK' /\ Shape'
<1>1. PICK n \in 1..Len(modem) :
          tty' = tty \o SubSeq(modem, 1, n) /\ modem' = SubSeq(modem, n + 1, Len(modem))
    BY DEF Transmit
<1>2. UNCHANGED <<answer, ATBuf, recv_tmp_buf, isRetryToRecv, buffer, URC_data, strip, pc, reports>>
    BY DEF Transmit
<1>3. tty' \in Seq(Bytes) /\ modem' \in Seq(Bytes)
    <2>1. tty \in Seq(Bytes) /\ modem \in Seq(Bytes)
        BY Facts
    <2>2. n \in 0..Len(modem)
        BY <2>1
    <2>3. SubSeq(modem, 1, n) \in Seq(Bytes) /\ SubSeq(modem, n + 1, Len(modem)) \in Seq(Bytes)
        BY <2>1, <2>2
    <2> QED
        BY <1>1, <2>1, <2>3
<1>4. TypeOK'
    BY <1>2, <1>3, Facts, Rest, TypeParts
<1>5. Shape'
    BY <1>2 DEF Shape, Begun
<1> QED
    BY <1>4, <1>5

\* Another report comes.
LEMMA ReportTypes ==
    ASSUME TypeOK, Shape, Report
    PROVE  TypeOK' /\ Shape'
<1>1. PICK n \in 0..Len(modem) :
          modem' = SubSeq(modem, 1, n) \o <<Other>> \o SubSeq(modem, n + 1, Len(modem))
    BY DEF Report
<1>2. /\ UNCHANGED <<answer, tty, ATBuf, recv_tmp_buf, isRetryToRecv, buffer, URC_data, strip, pc>>
      /\ reports < answer.reports /\ reports' = reports + 1
    BY DEF Report
<1>3. modem' \in Seq(Bytes)
    <2>1. modem \in Seq(Bytes) /\ Other \in Bytes
        BY Facts
    <2>2. SubSeq(modem, 1, n) \in Seq(Bytes) /\ SubSeq(modem, n + 1, Len(modem)) \in Seq(Bytes)
        BY <2>1
    <2>3. <<Other>> \in Seq(Bytes)
        BY <2>1
    <2> QED
        BY <1>1, <2>2, <2>3
<1>4. reports' \in 0..answer.reports
    <2>1. reports \in 0..answer.reports /\ answer.reports \in Nat
        BY Facts, Rest
    <2> QED
        BY <1>2, <2>1
<1>5. TypeOK'
    BY <1>2, <1>3, <1>4, Facts, Rest, TypeParts
<1>6. Shape'
    BY <1>2 DEF Shape, Begun
<1> QED
    BY <1>5, <1>6

\* The first read of reader_recv_start().
LEMMA StartTypes ==
    ASSUME TypeOK, Shape, reader_recv_start
    PROVE  TypeOK' /\ Shape'
<1>1. /\ pc = "RECVING" /\ tty # <<>>
      /\ ATBuf' = Got(ReadMax) /\ tty' = Left(ReadMax)
      /\ UNCHANGED <<answer, modem, recv_tmp_buf, isRetryToRecv, buffer, URC_data, strip, reports>>
    BY DEF reader_recv_start
<1>2. pc' \in {"read_more", "head"}
    BY DEF reader_recv_start
<1>3. /\ Got(ReadMax) \in Seq(Bytes) /\ Left(ReadMax) \in Seq(Bytes)
      /\ Len(Got(ReadMax)) <= ReadMax /\ Got(ReadMax) # <<>>
    BY <1>1, Facts, ReadOf
<1>4. ATBuf' \in Seq(Bytes) /\ tty' \in Seq(Bytes)
    BY <1>1, <1>3
<1>5. TypeOK'
    BY <1>1, <1>2, <1>4, Facts, Rest, TypeParts
<1>6. Shape'
    BY <1>1, <1>2, <1>3 DEF Shape, Begun
<1> QED
    BY <1>5, <1>6

\* Its second one.
LEMMA MoreTypes ==
    ASSUME TypeOK, Shape, read_more
    PROVE  TypeOK' /\ Shape'
<1> DEFINE m == ReadMax - Len(ATBuf)
<1>1. /\ pc = "read_more" /\ pc' = "head"
      /\ ATBuf' = ATBuf \o Got(m) /\ tty' = Left(m)
      /\ UNCHANGED <<answer, modem, recv_tmp_buf, isRetryToRecv, buffer, URC_data, strip, reports>>
    BY DEF read_more
<1>2. ATBuf \in Seq(Bytes) /\ ATBuf # <<>> /\ Len(ATBuf) <= ReadMax /\ ReadMax \in Nat
    BY <1>1, Facts DEF Shape
<1>3. m \in Nat /\ Len(ATBuf) + m = ReadMax
    BY <1>2
<1>4. Got(m) \in Seq(Bytes) /\ Left(m) \in Seq(Bytes) /\ Len(Got(m)) <= m
    BY <1>3, Facts, ReadOf
<1> HIDE DEF m
<1>5. /\ ATBuf \o Got(m) \in Seq(Bytes) /\ Len(ATBuf \o Got(m)) <= ReadMax
      /\ ATBuf \o Got(m) # <<>>
    BY <1>2, <1>3, <1>4
<1>6. ATBuf' \in Seq(Bytes) /\ tty' \in Seq(Bytes)
    BY <1>1, <1>4, <1>5
<1>7. TypeOK'
    BY <1>1, <1>6, Facts, Rest, TypeParts
<1>8. Shape'
    BY <1>1, <1>5 DEF Shape, Begun
<1> QED
    BY <1>7, <1>8

\* The length found in the head of the message is 0 or right.
LEMMA LengthFound ==
    ASSUME TypeOK, NEW b
    PROVE  LengthIn(b) \in {0, Total(segs)} /\ LengthIn(b) \in Nat
<1>1. Total(segs) \in Nat
    BY Facts
<1>2. LengthIn(b) \in {0, Total(segs)}
    BY DEF LengthIn
<1> QED
    BY <1>1, <1>2

\* The head is complete.
LEMMA StartOfDataTypes ==
    ASSUME TypeOK, Shape, pc = "head", UNCHANGED <<answer, modem, tty, reports>>,
           NEW b \in Seq(Bytes), Len(b) > 2, StartOfData(b)
    PROVE  TypeOK' /\ Shape'
<1>1. /\ buffer' = b /\ URC_data' = b[2].n
      /\ ATBuf' = <<>> /\ recv_tmp_buf' = <<>> /\ isRetryToRecv' = 0
      /\ pc' \in {"read", "msg_len", "silence"}
      /\ strip' = [strip EXCEPT !.total_len = LengthIn(b)]
    BY DEF StartOfData
<1>2. b[2] \in Bytes
    OBVIOUS
<1>3. URC_data' \in 0..Total(segs)
    BY <1>1, <1>2, Facts
<1>4. /\ strip' \in [cur : Nat, parsed_len : Nat, valid_len : Nat, total_len : Nat]
      /\ strip'.cur = strip.cur /\ strip'.parsed_len = strip.parsed_len
      /\ strip'.valid_len = strip.valid_len
    BY <1>1, LengthFound, Rest
<1>5. <<>> \in Seq(Bytes) /\ Len(<<>>) = 0
    OBVIOUS
<1>6. TypeOK'
    BY <1>1, <1>3, <1>4, <1>5, Facts, Rest, TypeParts
<1>7. Shape'
    BY <1>1, <1>4 DEF Shape, Begun
<1> QED
    BY <1>6, <1>7

\* The head is not.
LEMMA AgainTypes ==
    ASSUME TypeOK, Shape, pc = "head", UNCHANGED <<answer, modem, tty, reports>>,
           NEW b \in Seq(Bytes), NEW retry \in 0..2, retry = Len(b), RecvAgain(b, retry)
    PROVE  TypeOK' /\ Shape'
<1>1. /\ recv_tmp_buf' = b /\ isRetryToRecv' = retry
      /\ ATBuf' = <<>> /\ pc' = "RECVING"
      /\ UNCHANGED <<buffer, URC_data, strip>>
    BY DEF RecvAgain
<1>2. <<>> \in Seq(Bytes)
    OBVIOUS
<1>3. TypeOK'
    BY <1>1, <1>2, Facts, Rest, TypeParts
<1>4. Shape'
    BY <1>1 DEF Shape, Begun
<1> QED
    BY <1>3, <1>4

\* What reader_recv_start() finds, and what it does then.
Found ==
    /\ pc = "head" /\ UNCHANGED <<answer, modem, tty, reports>>
    /\ \/ isRetryToRecv = 0 /\ ATBuf[1].kind # "URC" /\ RecvAgain(<<>>, 0)
       \/ isRetryToRecv = 0 /\ Len(ATBuf) <= 2 /\ RecvAgain(ATBuf, Len(ATBuf))
       \/ isRetryToRecv = 0 /\ ~(Len(ATBuf) <= 2) /\ ATBuf[1].kind = "URC" /\ StartOfData(ATBuf)
       \/ isRetryToRecv = 1 /\ Len(ATBuf) = 1 /\ RecvAgain(recv_tmp_buf \o ATBuf, 2)
       \/ /\ isRetryToRecv = 1 /\ Len(ATBuf) # 1 /\ ATBuf[1].kind = "IPD"
          /\ StartOfData(recv_tmp_buf \o ATBuf)
       \/ Irredeemable

\* The action head, under the name the lemmas take it by.
LEMMA FoundByHead ==
    head => Found
BY Zenon DEF head, Found

\* What reader_recv_start() finds.
LEMMA FoundTypes ==
    ASSUME TypeOK, Shape, Found
    PROVE  TypeOK' /\ Shape'
<1>1. pc = "head" /\ UNCHANGED <<answer, modem, tty, reports>>
    BY DEF Found
<1>2. /\ ATBuf \in Seq(Bytes) /\ ATBuf # <<>> /\ recv_tmp_buf \in Seq(Bytes)
      /\ isRetryToRecv = Len(recv_tmp_buf)
    BY <1>1, Facts, Rest DEF Shape
<1>3. Len(ATBuf) \in Nat /\ Len(ATBuf) >= 1
    BY <1>2
<1>4. CASE isRetryToRecv = 0 /\ ATBuf[1].kind # "URC" /\ RecvAgain(<<>>, 0)
    <2>1. <<>> \in Seq(Bytes) /\ 0 \in 0..2 /\ Len(<<>>) = 0
        OBVIOUS
    <2> QED
        BY <1>1, <1>4, <2>1, AgainTypes
<1>5. CASE Len(ATBuf) <= 2 /\ RecvAgain(ATBuf, Len(ATBuf))
    <2>1. Len(ATBuf) \in 0..2
        <3> DEFINE l == Len(ATBuf)
        <3>1. l \in Nat /\ l <= 2
            BY <1>3, <1>5
        <3> HIDE DEF l
        <3>2. l \in 0..2
            BY <3>1
        <3> QED
            BY <3>2 DEF l
    <2> QED
        BY <1>1, <1>2, <1>5, <2>1, AgainTypes
<1>6. CASE ~(Len(ATBuf) <= 2) /\ StartOfData(ATBuf)
    <2>1. Len(ATBuf) > 2
        BY <1>3, <1>6
    <2> QED
        BY <1>1, <1>2, <1>6, <2>1, StartOfDataTypes
<1> DEFINE b == recv_tmp_buf \o ATBuf
<1>7. isRetryToRecv = 1 => b \in Seq(Bytes) /\ Len(b) = 1 + Len(ATBuf)
    <2>1. b \in Seq(Bytes) /\ Len(b) = Len(recv_tmp_buf) + Len(ATBuf)
        BY <1>2, JoinOf
    <2> QED
        BY <1>2, <2>1, Zenon
<1> HIDE DEF b
<1>9. CASE isRetryToRecv = 1 /\ Len(ATBuf) = 1 /\ RecvAgain(b, 2)
    <2>1. b \in Seq(Bytes) /\ Len(b) = 1 + 1
        BY <1>7, <1>9, Zenon
    <2>2. 2 \in 0..2 /\ 2 = Len(b)
        BY <2>1
    <2> QED
        BY <1>1, <1>9, <2>1, <2>2, AgainTypes
<1>10. CASE isRetryToRecv = 1 /\ Len(ATBuf) # 1 /\ StartOfData(b)
    <2> DEFINE l == Len(ATBuf)
    <2>1. b \in Seq(Bytes) /\ Len(b) = 1 + l /\ l \in Nat /\ l >= 1 /\ l # 1
        BY <1>3, <1>7, <1>10, Zenon
    <2> HIDE DEF l
    <2>2. Len(b) > 2
        BY <2>1
    <2> QED
        BY <1>1, <1>10, <2>1, <2>2, StartOfDataTypes
<1>8. CASE Irredeemable
    <2>1. pc' = "stuck" /\ UNCHANGED <<ATBuf, recv_tmp_buf, isRetryToRecv, buffer, URC_data, strip>>
        BY <1>8 DEF Irredeemable
    <2>2. pc' \in {"RECVING", "read_more", "head", "read", "msg_len", "silence", "strip"} \union Ended
        BY <2>1 DEF Ended
    <2>3. TypeOK'
        BY <1>1, <2>1, <2>2, Facts, Rest, TypeParts
    <2>4. Shape'
        BY <2>1 DEF Shape, Begun
    <2> QED
        BY <2>3, <2>4
<1> QED
    BY <1>4, <1>5, <1>6, <1>8, <1>9, <1>10, Zenon DEF Found, b

\* The same, for the action.
LEMMA HeadTypes ==
    TypeOK /\ Shape /\ head => TypeOK' /\ Shape'
BY FoundByHead, FoundTypes, Zenon

\* process_RECV() reads an answer of one report.
LEMMA ReadTypes ==
    ASSUME TypeOK, Shape, read
    PROVE  TypeOK' /\ Shape'
<1>1. pc = "read"
      /\ UNCHANGED <<answer, modem, ATBuf, recv_tmp_buf, isRetryToRecv, URC_data, strip, reports>>
    BY DEF read
<1>2. Len(buffer) \in Nat /\ URC_data \in Nat /\ buffer \in Seq(Bytes)
    BY Facts, Rest
<1>3. Missing \in Nat
    BY <1>2 DEF Missing, TotalLen, URC_header_len
<1>4. CASE buffer' = SubSeq(buffer, URC_header_len + 1, Len(buffer)) /\ pc' = "done" /\ UNCHANGED tty
    <2>1. buffer' \in Seq(Bytes)
        BY <1>2, <1>4 DEF URC_header_len
    <2>2. pc' \in {"RECVING", "read_more", "head", "read", "msg_len", "silence", "strip"} \union Ended
        BY <1>4 DEF Ended
    <2>3. TypeOK'
        BY <1>1, <1>4, <2>1, <2>2, Facts, Rest, TypeParts
    <2>4. Shape'
        BY <1>4 DEF Shape, Begun
    <2> QED
        BY <2>3, <2>4
<1>5. CASE buffer' = buffer \o Got(Missing) /\ tty' = Left(Missing) /\ UNCHANGED pc
    <2>1. Got(Missing) \in Seq(Bytes) /\ Left(Missing) \in Seq(Bytes)
        BY <1>3, Facts, ReadOf
    <2>2. buffer' \in Seq(Bytes) /\ tty' \in Seq(Bytes)
        BY <1>2, <1>5, <2>1
    <2>3. TypeOK'
        BY <1>1, <1>5, <2>2, Facts, Rest, TypeParts
    <2>4. Shape'
        BY <1>1, <1>5 DEF Shape, Begun
    <2> QED
        BY <2>3, <2>4
<1> QED
    BY <1>4, <1>5 DEF read

\* It reads for the length of the USIM data.
LEMMA MsgLenTypes ==
    ASSUME TypeOK, Shape, msg_len
    PROVE  TypeOK' /\ Shape'
<1>1. /\ pc = "msg_len" /\ pc' = "silence"
      /\ buffer' = buffer \o Got(ReadMax) /\ tty' = Left(ReadMax)
      /\ strip' = [strip EXCEPT !.total_len = LengthIn(buffer')]
      /\ UNCHANGED <<answer, modem, ATBuf, recv_tmp_buf, isRetryToRecv, URC_data, reports>>
    BY DEF msg_len
<1>2. Got(ReadMax) \in Seq(Bytes) /\ Left(ReadMax) \in Seq(Bytes) /\ buffer \in Seq(Bytes)
    BY Facts, ReadOf
<1>3. buffer' \in Seq(Bytes) /\ tty' \in Seq(Bytes)
    BY <1>1, <1>2
<1>4. LengthIn(buffer') \in Nat
    BY LengthFound
<1>5. /\ strip' \in [cur : Nat, parsed_len : Nat, valid_len : Nat, total_len : Nat]
      /\ strip'.cur = strip.cur /\ strip'.parsed_len = strip.parsed_len
      /\ strip'.valid_len = strip.valid_len
    BY <1>1, <1>4, Rest
<1>6. TypeOK'
    BY <1>1, <1>3, <1>5, Facts, Rest, TypeParts
<1>7. Shape'
    BY <1>1, <1>5 DEF Shape, Begun
<1> QED
    BY <1>6, <1>7

\* It reads the USIM data until nothing comes.
LEMMA SilenceTypes ==
    ASSUME TypeOK, Shape, silence
    PROVE  TypeOK' /\ Shape'
<1>1. pc = "silence"
      /\ UNCHANGED <<answer, modem, ATBuf, recv_tmp_buf, isRetryToRecv, URC_data, strip, reports>>
    BY DEF silence
<1>2. CASE buffer' = buffer \o Got(ReadMax) /\ tty' = Left(ReadMax) /\ UNCHANGED pc
    <2>1. Got(ReadMax) \in Seq(Bytes) /\ Left(ReadMax) \in Seq(Bytes) /\ buffer \in Seq(Bytes)
        BY Facts, ReadOf
    <2>2. buffer' \in Seq(Bytes) /\ tty' \in Seq(Bytes)
        BY <1>2, <2>1
    <2>3. TypeOK'
        BY <1>1, <1>2, <2>2, Facts, Rest, TypeParts
    <2>4. Shape'
        BY <1>1, <1>2 DEF Shape, Begun
    <2> QED
        BY <2>3, <2>4
<1>3. CASE pc' = "strip" /\ UNCHANGED <<buffer, tty>>
    <2>1. TypeOK'
        BY <1>1, <1>3, Facts, Rest, TypeParts
    <2>2. Len(buffer) \in Nat /\ strip.parsed_len = 0 /\ strip.valid_len = 0
        BY <1>1, Facts DEF Shape, Begun
    <2>3. Shape'
        BY <1>1, <1>3, <2>2 DEF Shape, Begun
    <2> QED
        BY <2>1, <2>3
<1> QED
    BY <1>2, <1>3 DEF silence

\* The head that is removed is within what is counted as not parsed.
LEMMA HeadsOf ==
    ASSUME TypeOK, Shape, pc = "strip", NEW ns, Heads(ns) # {}
    PROVE  /\ Heads(ns) \in SUBSET Nat
           /\ Lowest(Heads(ns)) \in Heads(ns) /\ Lowest(Heads(ns)) \in Nat
           /\ \A q \in Heads(ns) : Lowest(Heads(ns)) <= q
           /\ Lowest(Heads(ns)) >= strip.cur
           /\ strip.parsed_len + (Lowest(Heads(ns)) - strip.cur) + URC_header_len <= Len(buffer)
<1>1. /\ strip.cur \in Nat /\ strip.parsed_len \in Nat /\ Len(buffer) \in Nat
      /\ strip.parsed_len <= Len(buffer)
    BY Facts, Rest DEF Shape
<1>2. \A p \in Heads(ns) :
          p \in strip.cur..(strip.cur + Len(buffer) - strip.parsed_len - URC_header_len)
    BY DEF Heads
<1>3. \A p \in Heads(ns) : /\ p \in Nat /\ p >= strip.cur
                           /\ strip.parsed_len + (p - strip.cur) + URC_header_len <= Len(buffer)
    <2> TAKE p \in Heads(ns)
    <2>1. p \in strip.cur..(strip.cur + Len(buffer) - strip.parsed_len - URC_header_len)
        BY <1>2
    <2> QED
        BY <1>1, <2>1 DEF URC_header_len
<1>4. Heads(ns) \in SUBSET Nat
    BY <1>3
<1>5. Lowest(Heads(ns)) \in Heads(ns) /\ \A q \in Heads(ns) : Lowest(Heads(ns)) <= q
    BY <1>4, LowestOf
<1> QED
    BY <1>3, <1>4, <1>5

\* A head is removed.
LEMMA RemoveTypes ==
    ASSUME TypeOK, Shape, pc = "strip", NEW p \in Nat, p >= strip.cur, NEW c \in Nat,
           strip.parsed_len + (p - strip.cur) + URC_header_len <= Len(buffer),
           RemoveHead(p, c),
           UNCHANGED <<answer, modem, tty, ATBuf, recv_tmp_buf, isRetryToRecv, URC_data, reports>>
    PROVE  /\ TypeOK' /\ Shape' /\ pc' = pc
           /\ buffer' = Moved(p, Len(buffer) - (strip.parsed_len + (p - strip.cur) + URC_header_len))
           /\ strip'.cur = c /\ strip'.valid_len = strip.valid_len + (p - strip.cur)
           /\ strip'.parsed_len = strip.parsed_len + (p - strip.cur) + URC_header_len
           /\ strip'.total_len = strip.total_len
<1> DEFINE parsed == strip.parsed_len + (p - strip.cur) + URC_header_len
           count == Len(buffer) - parsed
           valid == strip.valid_len + (p - strip.cur)
<1>1. /\ strip.cur \in Nat /\ strip.parsed_len \in Nat /\ strip.valid_len \in Nat
      /\ strip.valid_len <= strip.parsed_len /\ Len(buffer) \in Nat
      /\ strip \in [cur : Nat, parsed_len : Nat, valid_len : Nat, total_len : Nat]
    BY Facts, Rest DEF Shape
<1>2. parsed \in Nat /\ parsed <= Len(buffer) /\ valid \in Nat /\ valid <= parsed /\ ~(parsed > Len(buffer))
    BY <1>1 DEF URC_header_len
<1>3. /\ buffer' = Moved(p, count)
      /\ strip' = [strip EXCEPT !.cur = c, !.parsed_len = parsed, !.valid_len = strip.valid_len + (p - strip.cur)]
      /\ UNCHANGED pc
    <2> HIDE DEF count
    <2> QED
        BY <1>2 DEF RemoveHead, count
<1> HIDE DEF parsed, count
<1>4. /\ strip' \in [cur : Nat, parsed_len : Nat, valid_len : Nat, total_len : Nat]
      /\ strip'.cur = c /\ strip'.parsed_len = parsed /\ strip'.valid_len = valid
      /\ strip'.total_len = strip.total_len
    BY <1>1, <1>2, <1>3
<1>5. Moved(p, count) \in Seq(Bytes) /\ Len(Moved(p, count)) = Len(buffer)
    <2>1. buffer \in Seq(Bytes) /\ Data(0) \in Bytes /\ DOMAIN buffer = 1..Len(buffer)
        BY Facts
    <2>2. \A i \in 1..Len(buffer) :
              /\ buffer[i] \in Bytes
              /\ i + URC_header_len <= Len(buffer) => buffer[i + URC_header_len] \in Bytes
        BY <1>1, <2>1 DEF URC_header_len
    <2>3. \A i \in 1..Len(buffer) :
              (IF i > strip.cur + Len(buffer) - URC_header_len THEN Data(0)
               ELSE IF i > p /\ i <= p + count /\ i + URC_header_len <= Len(buffer)
                    THEN buffer[i + URC_header_len] ELSE buffer[i]) \in Bytes
        BY <2>1, <2>2
    <2> QED
        BY <1>1, <2>1, <2>3 DEF Moved
<1>6. TypeOK'
    BY <1>3, <1>4, <1>5, Facts, Rest, TypeParts
<1>7. Shape'
    BY <1>2, <1>3, <1>4, <1>5 DEF Shape, Begun
<1> QED
    BY <1>3, <1>4, <1>6, <1>7 DEF parsed, count

\* What is left of the buffer after the loop.
LEMMA StrippedTypes ==
    ASSUME TypeOK, Shape, pc = "strip", NEW valid \in Nat, valid <= Len(buffer),
           Stripped(valid),
           UNCHANGED <<answer, modem, tty, ATBuf, recv_tmp_buf, isRetryToRecv, URC_data, reports>>
    PROVE  TypeOK' /\ Shape'
<1>1. /\ buffer' = SubSeq(buffer, 1, valid)
      /\ strip' = [strip EXCEPT !.valid_len = valid, !.parsed_len = Len(buffer)]
      /\ pc' \in {"done", "again"}
    BY DEF Stripped
<1>2. buffer' \in Seq(Bytes)
    <2>1. buffer \in Seq(Bytes)
        BY Facts
    <2> QED
        BY <1>1, <2>1
<1>3. strip' \in [cur : Nat, parsed_len : Nat, valid_len : Nat, total_len : Nat]
    <2>1. Len(buffer) \in Nat
        BY Facts
    <2> QED
        BY <1>1, <2>1, Rest
<1>4. pc' \in {"RECVING", "read_more", "head", "read", "msg_len", "silence", "strip"} \union Ended
    BY <1>1 DEF Ended
<1>5. TypeOK'
    BY <1>2, <1>3, <1>4, Facts, Rest, TypeParts
<1>6. Shape'
    BY <1>1 DEF Shape, Begun
<1> QED
    BY <1>5, <1>6

\* One turn of the loop is one of these.
LEMMA Turn ==
    ASSUME TypeOK, Shape, remove_heads
    PROVE  LET rest == Len(buffer) - strip.parsed_len
               same == Heads({URC_data})
               others == Heads(1..Total(segs))
           IN  /\ pc = "strip"
               /\ UNCHANGED <<answer, modem, tty, ATBuf, recv_tmp_buf, isRetryToRecv, URC_data, reports>>
               /\ strip.valid_len + rest \in Nat /\ strip.valid_len + rest <= Len(buffer)
               /\ strip.valid_len <= Len(buffer) /\ strip.valid_len \in Nat
               /\ \/ rest = 0 /\ Stripped(strip.valid_len)
                  \/ rest > 0 /\ same # {} /\ RemoveHead(Lowest(same), Lowest(same))
                  \/ rest > 0 /\ same = {} /\ others # {} /\ RemoveHead(Lowest(others), strip.cur)
                  \/ rest > 0 /\ others = {} /\ Stripped(strip.valid_len + rest)
<1> DEFINE rest == Len(buffer) - strip.parsed_len
           same == Heads({URC_data})
           others == Heads(1..Total(segs))
<1>1. /\ pc = "strip"
      /\ UNCHANGED <<answer, modem, tty, ATBuf, recv_tmp_buf, isRetryToRecv, URC_data, reports>>
    BY DEF remove_heads
<1>2. \/ rest = 0 /\ Stripped(strip.valid_len)
      \/ rest > 0 /\ same # {} /\ RemoveHead(Lowest(same), Lowest(same))
      \/ rest > 0 /\ same = {} /\ others # {} /\ RemoveHead(Lowest(others), strip.cur)
      \/ rest > 0 /\ others = {} /\ Stripped(strip.valid_len + rest)
    BY Zenon DEF remove_heads
<1>3. /\ strip.parsed_len \in Nat /\ strip.valid_len \in Nat
      /\ strip.valid_len <= strip.parsed_len /\ Len(buffer) \in Nat
      /\ strip.parsed_len <= Len(buffer)
    BY <1>1, Facts, Rest DEF Shape
<1>4. /\ strip.valid_len + rest \in Nat /\ strip.valid_len + rest <= Len(buffer)
      /\ strip.valid_len <= Len(buffer)
    BY <1>3
<1> QED
    BY <1>1, <1>2, <1>3, <1>4, Zenon

\* One turn of the loop.
LEMMA RemoveHeadsTypes ==
    ASSUME TypeOK, Shape, remove_heads
    PROVE  TypeOK' /\ Shape'
<1> DEFINE rest == Len(buffer) - strip.parsed_len
           same == Heads({URC_data})
           others == Heads(1..Total(segs))
<1>1. /\ pc = "strip"
      /\ UNCHANGED <<answer, modem, tty, ATBuf, recv_tmp_buf, isRetryToRecv, URC_data, reports>>
      /\ strip.valid_len + rest \in Nat /\ strip.valid_len + rest <= Len(buffer)
      /\ strip.valid_len <= Len(buffer) /\ strip.valid_len \in Nat
    BY Turn, Zenon
<1>2. \/ rest = 0 /\ Stripped(strip.valid_len)
      \/ rest > 0 /\ same # {} /\ RemoveHead(Lowest(same), Lowest(same))
      \/ rest > 0 /\ same = {} /\ others # {} /\ RemoveHead(Lowest(others), strip.cur)
      \/ rest > 0 /\ others = {} /\ Stripped(strip.valid_len + rest)
    BY Turn, Zenon
<1>3. strip.cur \in Nat
    BY Rest
<1> HIDE DEF rest, same, others
<1>4. CASE Stripped(strip.valid_len)
    BY <1>1, <1>4, StrippedTypes
<1>5. CASE Stripped(strip.valid_len + rest)
    BY <1>1, <1>5, StrippedTypes
<1>6. CASE same # {} /\ RemoveHead(Lowest(same), Lowest(same))
    <2>1. /\ Lowest(same) \in Nat /\ Lowest(same) >= strip.cur
          /\ strip.parsed_len + (Lowest(same) - strip.cur) + URC_header_len <= Len(buffer)
        BY <1>1, <1>6, HeadsOf DEF same
    <2> QED
        BY <1>1, <1>6, <2>1, RemoveTypes
<1>7. CASE others # {} /\ RemoveHead(Lowest(others), strip.cur)
    <2>1. /\ Lowest(others) \in Nat /\ Lowest(others) >= strip.cur
          /\ strip.parsed_len + (Lowest(others) - strip.cur) + URC_header_len <= Len(buffer)
        BY <1>1, <1>7, HeadsOf DEF others
    <2> QED
        BY <1>1, <1>3, <1>7, <2>1, RemoveTypes
<1> QED
    BY <1>2, <1>4, <1>5, <1>6, <1>7, Zenon

\* Every step keeps the types.
LEMMA NextTypes ==
    ASSUME TypeOK, Shape, [Next]_vars
    PROVE  TypeOK' /\ Shape'
<1>1. CASE UNCHANGED vars
    <2>1. TypeOK'
        BY <1>1 DEF vars, TypeOK, Bytes, segs, Ended
    <2>2. Shape'
        BY <1>1 DEF vars, Shape, Begun
    <2> QED
        BY <2>1, <2>2
<1>2. CASE Next
    BY <1>2, TransmitTypes, ReportTypes, StartTypes, MoreTypes, HeadTypes, ReadTypes, MsgLenTypes,
       SilenceTypes, RemoveHeadsTypes DEF Next
<1> QED
    BY <1>1, <1>2

\* The type invariant of RecvData, for every answer that may come: no length gets negative, and
\* nothing is read or moved beyond the end of the buffer.
THEOREM TypeCorrect == Spec => []TypeOK
<1>1. Init => TypeOK /\ Shape
    BY TypeInit
<1>2. TypeOK /\ Shape /\ [Next]_vars => (TypeOK /\ Shape)'
    BY NextTypes
<1> QED
    BY <1>1, <1>2, PTL DEF Spec

-----------------------------------------------------------------------------
(* What is received.                                                       *)

\* Nothing but the answer comes, an answer to an APDU or to an ID in one report, the USIM data
\* in reports of one length and a last one.
Undisturbed(a) ==
    /\ a.reports = 0
    /\ a.flow # "REMOTE_UIM_DATA_REQ" => Len(a.segs) = 1
    /\ a.flow = "REMOTE_UIM_DATA_REQ" => \A j \in 1..(Len(a.segs) - 1) : a.segs[j] = a.segs[1]

\* What EvtLoop has read.
Have == IF pc \in {"read", "msg_len", "silence"} THEN buffer ELSE recv_tmp_buf \o ATBuf

\* Until the heads are removed: nothing has got lost.
Reading ==
    ~Begun =>
        /\ (Have \o tty) \o modem = Stream(segs)
        /\ strip.total_len \in {0, Total(segs)}
        /\ pc \in {"read", "msg_len", "silence"} => Len(buffer) > 2 /\ URC_data = segs[1]
        /\ pc = "read" => ~IsUIM
        /\ pc \in {"msg_len", "silence"} => IsUIM

\* J reports are in the buffer, and the first c heads are removed.
Stripping(J, c) ==
    /\ Len(buffer) = Ends(segs, J)
    /\ \A i \in 1..(Len(buffer) - 2 * c) :
          buffer[i] = IF i <= Sums(segs)[c] THEN Data(i) ELSE Stream(segs)[i + 2 * c]
    /\ LET before == IF c = 0 THEN 0 ELSE Sums(segs)[c - 1]
       IN  /\ strip.valid_len = before /\ strip.parsed_len = before + 2 * c
           /\ strip.cur <= before /\ (c < J => strip.cur = before)
    /\ strip.total_len \in {0, Total(segs)} /\ URC_data = segs[1]

Strips == pc = "strip" => IsUIM /\ \E J \in 1..Len(segs) : \E c \in 0..J : Stripping(J, c)

\* A name that keeps the provers from taking sequences apart.
Texts == Seq(Bytes)

\* Three texts, grouped in another way.
LEMMA Regrouped ==
    ASSUME NEW p \in Texts, NEW q \in Texts, NEW r \in Texts
    PROVE  (p \o q) \o r = p \o (q \o r)
BY ConcatAssociative DEF Texts

\* Two texts are one.
LEMMA Joined ==
    ASSUME NEW p \in Texts, NEW q \in Texts
    PROVE  p \o q \in Texts
BY DEF Texts

\* What has been read moves from one variable into the next.
LEMMA Grown ==
    ASSUME NEW h \in Texts, NEW m \in Texts, NEW g \in Texts, NEW l \in Texts
    PROVE  ((h \o g) \o l) \o m = (h \o (g \o l)) \o m
<1>1. (h \o g) \o l = h \o (g \o l)
    BY Regrouped
<1> QED
    BY <1>1

\* The first and the last part of a text of three, by their places.
LEMMA Begins ==
    ASSUME NEW B, NEW h \in Seq(B), NEW t \in Seq(B), NEW m \in Seq(B)
    PROVE  LET s == (h \o t) \o m IN
           /\ Len(s) = Len(h) + Len(t) + Len(m)
           /\ \A i \in 1..Len(h) : s[i] = h[i]
           /\ \A i \in 1..Len(m) : s[Len(h) + Len(t) + i] = m[i]
<1> DEFINE p == h \o t
           s == p \o m
<1>1. /\ p \in Seq(B) /\ Len(p) = Len(h) + Len(t)
      /\ Len(h) \in Nat /\ Len(t) \in Nat
      /\ \A i \in 1..Len(h) : p[i] = h[i]
    BY JoinOf
<1> HIDE DEF p
<1>2. /\ Len(s) = Len(p) + Len(m)
      /\ \A i \in 1..Len(p) : s[i] = p[i]
      /\ \A i \in 1..Len(m) : s[Len(p) + i] = m[i]
    <2>1. \A q, r \in Seq(B) :
              /\ Len(q \o r) = Len(q) + Len(r)
              /\ \A i \in 1..Len(q) : (q \o r)[i] = q[i]
              /\ \A i \in 1..Len(r) : (q \o r)[Len(q) + i] = r[i]
        BY JoinOf
    <2> QED
        BY <1>1, <2>1
<1> HIDE DEF s
<1>3. \A i \in 1..Len(h) : i \in 1..Len(p)
    BY <1>1
<1>4. \A i \in 1..Len(h) : s[i] = h[i]
    BY <1>1, <1>2, <1>3
<1> QED
    BY <1>1, <1>2, <1>4 DEF s, p

\* In the first states everything has still to come.
LEMMA InitReads ==
    ASSUME Init
    PROVE  Reading /\ Exact /\ Strips
<1>1. /\ pc = "RECVING" /\ modem = Stream(segs) /\ tty = <<>> /\ ATBuf = <<>> /\ recv_tmp_buf = <<>>
      /\ strip.total_len = 0
    BY DEF Init
<1>2. modem \in Seq(Bytes)
    BY TypeInit, Facts
<1>3. Have = <<>>
    <2>1. <<>> \o <<>> = <<>>
        OBVIOUS
    <2> QED
        BY <1>1, <2>1 DEF Have
<1>4. (Have \o tty) \o modem = Stream(segs)
    <2>1. (<<>> \o <<>>) \o modem = modem
        BY <1>2
    <2> QED
        BY <1>1, <1>3, <2>1
<1> QED
    BY <1>1, <1>4 DEF Reading, Exact, Strips

\* What has been read is a text.
LEMMA HaveOf ==
    ASSUME TypeOK
    PROVE  Have \in Seq(Bytes)
BY Facts DEF Have

\* The modem sends: the text stays the same.
LEMMA TransmitReads ==
    ASSUME TypeOK, Reading, Exact, Strips, Transmit
    PROVE  Reading' /\ Exact' /\ Strips'
<1>1. PICK n \in 1..Len(modem) :
          tty' = tty \o SubSeq(modem, 1, n) /\ modem' = SubSeq(modem, n + 1, Len(modem))
    BY DEF Transmit
<1>2. UNCHANGED <<answer, ATBuf, recv_tmp_buf, isRetryToRecv, buffer, URC_data, strip, pc, reports>>
    BY DEF Transmit
<1>3. /\ modem \in Seq(Bytes) /\ tty \in Seq(Bytes) /\ Have \in Seq(Bytes)
      /\ n \in 0..Len(modem)
    BY Facts, HaveOf
<1>4. SubSeq(modem, 1, n) \o SubSeq(modem, n + 1, Len(modem)) = modem
    BY <1>3, CutInTwo
<1>5. SubSeq(modem, 1, n) \in Seq(Bytes) /\ SubSeq(modem, n + 1, Len(modem)) \in Seq(Bytes)
    BY <1>3
<1>6. (Have \o tty') \o modem' = (Have \o tty) \o modem
    <2> DEFINE a == SubSeq(modem, 1, n)
               b == SubSeq(modem, n + 1, Len(modem))
    <2>1. a \in Seq(Bytes) /\ b \in Seq(Bytes) /\ a \o b = modem
        BY <1>4, <1>5
    <2>2. tty' = tty \o a /\ modem' = b
        BY <1>1
    <2> HIDE DEF a, b
    <2>3. Have \in Texts /\ tty \in Texts /\ a \in Texts /\ b \in Texts
        BY <1>3, <2>1 DEF Texts
    <2>4. (Have \o (tty \o a)) \o b = (Have \o tty) \o (a \o b)
        <3>1. (Have \o tty) \o a = Have \o (tty \o a)
            BY <2>3, Regrouped
        <3>2. Have \o tty \in Texts
            BY <2>3, Joined
        <3>3. ((Have \o tty) \o a) \o b = (Have \o tty) \o (a \o b)
            BY <2>3, <3>2, Regrouped
        <3> QED
            BY <3>1, <3>3
    <2> QED
        BY <2>1, <2>2, <2>4
<1>7. Have' = Have /\ segs' = segs /\ (IsUIM <=> IsUIM')
    BY <1>2 DEF Have, segs, IsUIM
<1>8. Reading'
    BY <1>2, <1>6, <1>7 DEF Reading, Begun
<1>9. Exact' /\ Strips'
    BY <1>2, <1>7 DEF Exact, Strips, Stripping
<1> QED
    BY <1>8, <1>9

\* EvtLoop reads more.
LEMMA ReadsMore ==
    ASSUME TypeOK, Reading, ~Begun, ~Begun', NEW max \in Nat,
           answer' = answer, modem' = modem, tty' = Left(max),
           Have' = Have \o Got(max)
    PROVE  (Have' \o tty') \o modem' = Stream(segs')
<1>1. modem \in Seq(Bytes) /\ tty \in Seq(Bytes) /\ Have \in Seq(Bytes)
    BY Facts, HaveOf
<1>2. /\ Got(max) \in Seq(Bytes) /\ Left(max) \in Seq(Bytes)
      /\ Got(max) \o Left(max) = tty
    BY <1>1, ReadOf
<1>3. ((Have \o Got(max)) \o Left(max)) \o modem = (Have \o tty) \o modem
    <2>0. Have \in Texts /\ modem \in Texts /\ Got(max) \in Texts /\ Left(max) \in Texts
        BY <1>1, <1>2 DEF Texts
    <2>1. ((Have \o Got(max)) \o Left(max)) \o modem = (Have \o (Got(max) \o Left(max))) \o modem
        BY <2>0, Grown
    <2> QED
        BY <1>2, <2>1
<1>4. segs' = segs
    BY DEF segs
<1> QED
    BY <1>3, <1>4 DEF Reading

\* The first read of reader_recv_start().
LEMMA StartReads ==
    ASSUME TypeOK, Shape, Reading, reader_recv_start
    PROVE  Reading' /\ Exact' /\ Strips'
<1>1. /\ pc = "RECVING" /\ pc' \in {"read_more", "head"}
      /\ ATBuf' = Got(ReadMax) /\ tty' = Left(ReadMax)
      /\ UNCHANGED <<answer, modem, recv_tmp_buf, isRetryToRecv, buffer, URC_data, strip, reports>>
    BY DEF reader_recv_start
<1>2. ~Begun /\ ~Begun' /\ ReadMax \in Nat
    BY <1>1, Facts DEF Begun
<1>3. Have' = Have \o Got(ReadMax)
    <2>1. recv_tmp_buf \in Seq(Bytes) /\ ATBuf = <<>>
        BY <1>1, Facts DEF Shape
    <2>2. Have = recv_tmp_buf
        <3>1. Have = recv_tmp_buf \o <<>>
            BY <1>1, <2>1 DEF Have
        <3> QED
            BY <2>1, <3>1
    <2> QED
        BY <1>1, <2>2 DEF Have
<1>4. (Have' \o tty') \o modem' = Stream(segs')
    BY <1>1, <1>2, <1>3, ReadsMore
<1>5. segs' = segs
    BY <1>1 DEF segs
<1>6. Reading'
    BY <1>1, <1>2, <1>4, <1>5 DEF Reading
<1> QED
    BY <1>1, <1>6 DEF Exact, Strips

\* Its second one.
LEMMA MoreReads ==
    ASSUME TypeOK, Shape, Reading, read_more
    PROVE  Reading' /\ Exact' /\ Strips'
<1> DEFINE m == ReadMax - Len(ATBuf)
<1>1. /\ pc = "read_more" /\ pc' = "head"
      /\ ATBuf' = ATBuf \o Got(m) /\ tty' = Left(m)
      /\ UNCHANGED <<answer, modem, recv_tmp_buf, isRetryToRecv, buffer, URC_data, strip, reports>>
    BY DEF read_more
<1>2. /\ ATBuf \in Seq(Bytes) /\ recv_tmp_buf \in Seq(Bytes)
      /\ Len(ATBuf) <= ReadMax /\ ReadMax \in Nat
    BY <1>1, Facts DEF Shape
<1>3. m \in Nat
    BY <1>2
<1> HIDE DEF m
<1>4. ~Begun /\ ~Begun'
    BY <1>1 DEF Begun
<1>5. Have' = Have \o Got(m)
    <2>1. Got(m) \in Seq(Bytes)
        BY <1>3, Facts, ReadOf
    <2>2. recv_tmp_buf \o (ATBuf \o Got(m)) = (recv_tmp_buf \o ATBuf) \o Got(m)
        BY <1>2, <2>1, ConcatAssociative
    <2> QED
        BY <1>1, <2>2 DEF Have
<1>6. (Have' \o tty') \o modem' = Stream(segs')
    BY <1>1, <1>3, <1>4, <1>5, ReadsMore
<1>7. segs' = segs
    BY <1>1 DEF segs
<1>8. Reading'
    BY <1>1, <1>4, <1>6, <1>7 DEF Reading
<1> QED
    BY <1>1, <1>8 DEF Exact, Strips

\* What has been read is how the stream begins, what is left is how it ends.
LEMMA HaveBegins ==
    ASSUME TypeOK, Reading, ~Begun
    PROVE  /\ Len(Stream(segs)) = Len(Have) + Len(tty) + Len(modem)
           /\ \A i \in 1..Len(Have) : Stream(segs)[i] = Have[i]
           /\ \A i \in 1..Len(modem) : Stream(segs)[Len(Have) + Len(tty) + i] = modem[i]
<1>1. /\ modem \in Seq(Bytes) /\ tty \in Seq(Bytes) /\ Have \in Seq(Bytes)
      /\ (Have \o tty) \o modem = Stream(segs)
    BY Facts, HaveOf DEF Reading
<1>2. \A h, t, m \in Seq(Bytes) :
          /\ Len((h \o t) \o m) = Len(h) + Len(t) + Len(m)
          /\ \A i \in 1..Len(h) : ((h \o t) \o m)[i] = h[i]
          /\ \A i \in 1..Len(m) : ((h \o t) \o m)[Len(h) + Len(t) + i] = m[i]
    BY Begins
<1>3. /\ Len((Have \o tty) \o modem) = Len(Have) + Len(tty) + Len(modem)
      /\ \A i \in 1..Len(Have) : ((Have \o tty) \o modem)[i] = Have[i]
      /\ \A i \in 1..Len(modem) : ((Have \o tty) \o modem)[Len(Have) + Len(tty) + i] = modem[i]
    BY <1>1, <1>2, Zenon
<1> QED
    BY <1>1, <1>3, Zenon

\* It begins with the head of the first report.
LEMMA HeadFirst ==
    ASSUME TypeOK, Reading, ~Begun, Have # <<>>
    PROVE  /\ Len(segs) >= 1 /\ Have[1] = URC
           /\ Len(Have) >= 2 => Have[2] = IPD(segs[1])
<1>1. /\ segs \in Seq(Nat \ {0}) /\ Len(segs) \in Nat
      /\ tty \in Seq(Bytes) /\ modem \in Seq(Bytes) /\ Have \in Seq(Bytes)
    BY Facts, HaveOf
<1>2. /\ Len(Stream(segs)) = Len(Have) + Len(tty) + Len(modem)
      /\ \A i \in 1..Len(Have) : Stream(segs)[i] = Have[i]
    BY HaveBegins
<1> DEFINE l == Len(Have)
           n == Len(segs)
<1>3. l \in Nat /\ l # 0 /\ Len(tty) \in Nat /\ Len(modem) \in Nat
    BY <1>1
<1>4. Len(Stream(segs)) = Ends(segs, n) /\ Ends(segs, 0) = 0
    BY <1>1, StreamOf, EndsOf
<1>5. n # 0
    <2> SUFFICES ASSUME n = 0 PROVE FALSE
        OBVIOUS
    <2>1. l + Len(tty) + Len(modem) = 0
        BY <1>2, <1>4
    <2> HIDE DEF l
    <2> QED
        BY <1>3, <2>1
<1>6. n >= 1 /\ 1 \in 1..n
    <2>1. n \in Nat
        BY <1>1
    <2> HIDE DEF n
    <2> QED
        BY <1>5, <2>1
<1>7. HasReport(Stream(segs), segs, 1)
    BY <1>1, <1>6, StreamOf
<1>8. Stream(segs)[1] = URC /\ Stream(segs)[2] = IPD(segs[1])
    <2>1. 1 - 1 = 0 /\ 0 + 1 = 1 /\ 0 + 2 = 2
        OBVIOUS
    <2>2. Ends(segs, 1 - 1) = 0
        BY <1>4, <2>1
    <2> QED
        BY <1>7, <2>1, <2>2 DEF HasReport
<1>9. 1 \in 1..l /\ (l >= 2 => 2 \in 1..l)
    <2> HIDE DEF l
    <2> QED
        BY <1>3
<1> QED
    BY <1>2, <1>6, <1>8, <1>9

\* The head is complete, and the text begins with it.
LEMMA StartOfDataReads ==
    ASSUME TypeOK, Reading, pc = "head", UNCHANGED <<answer, modem, tty, reports>>,
           NEW b, b = Have, Len(b) > 2, StartOfData(b)
    PROVE  Reading' /\ Exact' /\ Strips'
<1>1. /\ buffer' = b /\ URC_data' = b[2].n
      /\ strip' = [strip EXCEPT !.total_len = LengthIn(b)]
      /\ pc' = IF ~IsUIM THEN "read" ELSE IF Len(b) - 2 < HeadLen THEN "msg_len" ELSE "silence"
    BY DEF StartOfData
<1>2. /\ pc' \in {"read", "msg_len", "silence"}
      /\ pc' = "read" => ~IsUIM
      /\ pc' \in {"msg_len", "silence"} => IsUIM
    BY <1>1
<1>3. segs' = segs /\ (IsUIM' <=> IsUIM) /\ Have' = Have /\ ~Begun
    BY <1>1, <1>2 DEF segs, IsUIM, Have, Begun
<1>4. (Have' \o tty') \o modem' = Stream(segs')
    BY <1>3 DEF Reading
<1>5. strip'.total_len \in {0, Total(segs')}
    <2>1. strip \in [cur : Nat, parsed_len : Nat, valid_len : Nat, total_len : Nat]
        BY Rest
    <2>2. strip'.total_len = LengthIn(b)
        BY <1>1, <2>1
    <2> QED
        BY <1>3, <2>2, LengthFound
<1>6. Len(buffer') > 2 /\ URC_data' = segs'[1]
    <2>1. b \in Seq(Bytes)
        BY HaveOf
    <2>2. b # <<>> /\ Len(b) >= 2
        BY <2>1
    <2>3. b[2] = IPD(segs[1])
        BY <1>3, <2>2, HeadFirst
    <2>4. IPD(segs[1]).n = segs[1]
        BY KindsOfBytes
    <2> QED
        BY <1>1, <1>3, <2>3, <2>4
<1>7. Reading'
    BY <1>2, <1>3, <1>4, <1>5, <1>6 DEF Reading
<1>8. Exact' /\ Strips'
    BY <1>2 DEF Exact, Strips
<1> QED
    BY <1>7, <1>8

\* The head is not, and is kept.
LEMMA AgainReads ==
    ASSUME TypeOK, Reading, pc = "head", UNCHANGED <<answer, modem, tty, reports>>,
           NEW retry, RecvAgain(Have, retry)
    PROVE  Reading' /\ Exact' /\ Strips'
<1>1. /\ recv_tmp_buf' = Have /\ ATBuf' = <<>> /\ pc' = "RECVING"
      /\ UNCHANGED <<buffer, URC_data, strip>>
    BY DEF RecvAgain
<1>2. segs' = segs /\ (IsUIM' <=> IsUIM) /\ ~Begun
    BY DEF segs, IsUIM, Begun
<1>3. Have' = Have
    <2>1. Have \in Seq(Bytes)
        BY HaveOf
    <2>2. Have \o <<>> = Have
        BY <2>1
    <2>3. Have' = recv_tmp_buf' \o ATBuf'
        BY <1>1 DEF Have
    <2> QED
        BY <1>1, <2>2, <2>3
<1>4. (Have' \o tty') \o modem' = Stream(segs')
    BY <1>2, <1>3 DEF Reading
<1>5. Reading'
    BY <1>1, <1>2, <1>4 DEF Reading
<1> QED
    BY <1>1, <1>5 DEF Exact, Strips

\* What reader_recv_start() finds is the head of the first report.
LEMMA FoundReads ==
    ASSUME TypeOK, Shape, Reading, Found
    PROVE  Reading' /\ Exact' /\ Strips'
<1>1. pc = "head" /\ UNCHANGED <<answer, modem, tty, reports>>
    BY DEF Found
<1>2. /\ ATBuf \in Seq(Bytes) /\ ATBuf # <<>> /\ recv_tmp_buf \in Seq(Bytes)
      /\ isRetryToRecv = Len(recv_tmp_buf)
    BY <1>1, Facts, Rest DEF Shape
<1>3. Have = recv_tmp_buf \o ATBuf /\ ~Begun
    BY <1>1 DEF Have, Begun
<1>4. isRetryToRecv = 0 => Have = ATBuf
    <2> SUFFICES ASSUME isRetryToRecv = 0 PROVE Have = ATBuf
        OBVIOUS
    <2>1. recv_tmp_buf = <<>>
        BY <1>2
    <2> QED
        BY <1>2, <1>3, <2>1
<1>5. ~(isRetryToRecv = 0 /\ ATBuf[1].kind # "URC")
    <2> SUFFICES ASSUME isRetryToRecv = 0 PROVE ATBuf[1].kind = "URC"
        OBVIOUS
    <2>1. Have[1] = URC
        BY <1>2, <1>3, <1>4, HeadFirst
    <2> QED
        BY <1>4, <2>1, KindsOfBytes
<1>6. CASE isRetryToRecv = 0 /\ Len(ATBuf) <= 2 /\ RecvAgain(ATBuf, Len(ATBuf))
    BY <1>1, <1>4, <1>6, AgainReads
<1>7. CASE isRetryToRecv = 0 /\ ~(Len(ATBuf) <= 2) /\ StartOfData(ATBuf)
    <2> DEFINE l == Len(ATBuf)
    <2>1. l \in Nat /\ ~(l <= 2)
        BY <1>2, <1>7
    <2> HIDE DEF l
    <2>2. l > 2
        BY <2>1
    <2> QED
        BY <1>1, <1>4, <1>7, <2>2, StartOfDataReads DEF l
<1>8. CASE isRetryToRecv = 1 /\ Len(ATBuf) = 1 /\ RecvAgain(recv_tmp_buf \o ATBuf, 2)
    BY <1>1, <1>3, <1>8, AgainReads
<1>9. CASE isRetryToRecv = 1 /\ Len(ATBuf) # 1 /\ StartOfData(recv_tmp_buf \o ATBuf)
    <2> DEFINE l == Len(ATBuf)
    <2>1. l \in Nat /\ l # 0 /\ l # 1
        BY <1>2, <1>9
    <2>2. Len(Have) = Len(recv_tmp_buf) + l /\ Len(recv_tmp_buf) = 1
        BY <1>2, <1>3, <1>9, JoinOf
    <2> HIDE DEF l
    <2>3. Len(Have) > 2
        BY <2>1, <2>2
    <2> QED
        BY <1>1, <1>3, <1>9, <2>3, StartOfDataReads
<1>10. CASE Irredeemable
    <2>1. pc' = "stuck"
        BY <1>10 DEF Irredeemable
    <2> QED
        BY <2>1 DEF Reading, Begun, Exact, Strips
<1> QED
    BY <1>5, <1>6, <1>7, <1>8, <1>9, <1>10, Zenon DEF Found

\* The same, for the action.
LEMMA HeadReads ==
    TypeOK /\ Shape /\ Reading /\ head => Reading' /\ Exact' /\ Strips'
BY FoundByHead, FoundReads, Zenon

\* An answer in one report is complete when as much has been read as its head announces.
LEMMA OneReport ==
    ASSUME TypeOK, Reading, Undisturbed(answer), pc = "read", Missing = 0
    PROVE  SubSeq(buffer, URC_header_len + 1, Len(buffer)) = Sent(segs)
<1>1. /\ segs \in Seq(Nat \ {0}) /\ buffer \in Seq(Bytes) /\ Bytes = Byte(Total(segs))
      /\ tty \in Seq(Bytes) /\ modem \in Seq(Bytes)
    BY Facts
<1>2. ~Begun /\ Have = buffer
    BY DEF Begun, Have
<1>3. URC_data = segs[1] /\ ~IsUIM /\ Len(segs) = 1
    BY <1>2 DEF Reading, IsUIM, Undisturbed, segs
<1>4. 1 \in 1..Len(segs) /\ 1 - 1 = 0
    BY <1>3
<1> DEFINE n == segs[1]
           l == Len(buffer)
           q == SubSeq(buffer, 2 + 1, l)
<1>5. /\ n \in Nat /\ Sums(segs)[0] = 0 /\ Sums(segs)[1] = n /\ Total(segs) = n
    <2>1. n \in Nat /\ Sums(segs)[0] = 0 /\ Sums(segs)[1] = Sums(segs)[1 - 1] + n
        BY <1>1, <1>4, SumsOf, SumsUpTo
    <2>2. Total(segs) = Sums(segs)[1]
        BY <1>3 DEF Total
    <2> QED
        BY <1>4, <2>1, <2>2
<1>6. Len(Stream(segs)) = 2 + n /\ Ends(segs, 0) = 0 /\ HasReport(Stream(segs), segs, 1)
    <2>1. Ends(segs, 0) = 0
        BY <1>1, EndsOf
    <2>2. Ends(segs, 1) = 2 + n
        BY <1>5 DEF Ends
    <2> QED
        BY <1>1, <1>3, <1>4, <2>1, <2>2, StreamOf
<1>7. l \in Nat /\ Len(tty) \in Nat /\ Len(modem) \in Nat
    BY <1>1
<1>8. /\ l + Len(tty) + Len(modem) = 2 + n
      /\ \A i \in 1..l : Stream(segs)[i] = buffer[i]
    BY <1>2, <1>6, HaveBegins
<1>9. l = 2 + n
    <2>1. ~(l < 2 + n)
        <3> HIDE DEF l, n
        <3> SUFFICES ASSUME l < 2 + n PROVE FALSE
            OBVIOUS
        <3>0. Missing = IF l < 2 + n THEN (2 + n) - l ELSE 0
            <4>1. URC_data = n
                BY <1>3 DEF n
            <4>2. Missing = IF Len(buffer) < 2 + URC_data THEN (2 + URC_data) - Len(buffer) ELSE 0
                BY Zenon DEF Missing, TotalLen, URC_header_len
            <4> QED
                BY <4>1, <4>2, Zenon DEF l
        <3>1. Missing = (2 + n) - l
            BY <3>0
        <3> QED
            BY <1>5, <1>7, <3>1
    <2> HIDE DEF l, n
    <2> QED
        BY <1>5, <1>7, <1>8, <2>1
<1>10. /\ q \in Seq(Bytes) /\ Len(q) = n
       /\ \A k \in 1..n : q[k] = buffer[2 + k]
    <2>1. 2 <= l /\ l <= Len(buffer) /\ l - 2 = n /\ l \in Nat
        BY <1>5, <1>7, <1>9
    <2>2. \A y \in Nat : 2 <= y /\ y <= Len(buffer) =>
              /\ SubSeq(buffer, 2 + 1, y) \in Seq(Bytes) /\ Len(SubSeq(buffer, 2 + 1, y)) = y - 2
              /\ \A k \in 1..(y - 2) : SubSeq(buffer, 2 + 1, y)[k] = buffer[2 + k]
        BY <1>1, PartOf
    <2> QED
        BY <2>1, <2>2
<1>11. /\ Sent(segs) \in Seq(Bytes) /\ Len(Sent(segs)) = n
       /\ \A k \in 1..n : Sent(segs)[k] = Data(k)
    BY <1>1, <1>5, SentOf
<1>12. \A k \in 1..n : q[k] = Sent(segs)[k]
    <2> TAKE k \in 1..n
    <2>1. Stream(segs)[0 + 2 + k] = Data(0 + k)
        <3>1. Stream(segs)[Ends(segs, 1 - 1) + 2 + k] = Data(Sums(segs)[1 - 1] + k)
            BY <1>6 DEF HasReport
        <3> QED
            BY <1>4, <1>5, <1>6, <3>1
    <2>2. 2 + k \in 1..l /\ 0 + 2 + k = 2 + k /\ 0 + k = k
        BY <1>5, <1>9
    <2> QED
        BY <1>8, <1>10, <1>11, <2>1, <2>2
<1> HIDE DEF q, n
<1>13. q = Sent(segs)
    BY <1>10, <1>11, <1>12, SeqEqual
<1> QED
    BY <1>13 DEF q, URC_header_len

\* process_RECV() reads an answer of one report, and hands its data over.
LEMMA ReadReads ==
    ASSUME TypeOK, Shape, Reading, Undisturbed(answer), read
    PROVE  Reading' /\ Exact' /\ Strips'
<1>1. /\ pc = "read"
      /\ UNCHANGED <<answer, modem, ATBuf, recv_tmp_buf, isRetryToRecv, URC_data, strip, reports>>
    BY DEF read
<1>2. segs' = segs /\ (IsUIM' <=> IsUIM) /\ ~Begun
    BY <1>1 DEF segs, IsUIM, Begun
<1>3. CASE /\ Missing = 0 /\ buffer' = SubSeq(buffer, URC_header_len + 1, Len(buffer))
           /\ pc' = "done"
    <2>1. Exact'
        BY <1>1, <1>2, <1>3, OneReport DEF Exact
    <2> QED
        BY <1>3, <2>1 DEF Reading, Begun, Strips
<1>4. CASE buffer' = buffer \o Got(Missing) /\ tty' = Left(Missing) /\ UNCHANGED pc
    <2>1. Len(buffer) \in Nat /\ URC_data \in Nat /\ buffer \in Seq(Bytes)
        BY Facts, Rest
    <2>2. Missing \in Nat
        BY <2>1 DEF Missing, TotalLen, URC_header_len
    <2>3. ~Begun' /\ Have' = Have \o Got(Missing)
        BY <1>1, <1>4 DEF Begun, Have
    <2>4. (Have' \o tty') \o modem' = Stream(segs')
        BY <1>1, <1>2, <1>4, <2>2, <2>3, ReadsMore
    <2>5. Len(buffer) > 2 => Len(buffer') > 2
        <3>1. Got(Missing) \in Seq(Bytes)
            BY <2>2, Facts, ReadOf
        <3>2. Len(buffer') = Len(buffer) + Len(Got(Missing)) /\ Len(Got(Missing)) \in Nat
            BY <1>4, <2>1, <3>1, JoinOf
        <3> QED
            BY <2>1, <3>2
    <2>6. Reading'
        BY <1>1, <1>2, <1>4, <2>4, <2>5 DEF Reading
    <2> QED
        BY <1>1, <1>4, <2>6 DEF Exact, Strips
<1> QED
    BY <1>3, <1>4 DEF read

\* The USIM data: everything is put behind what has been read.
LEMMA GatherReads ==
    ASSUME TypeOK, Shape, Reading, pc \in {"msg_len", "silence"}, pc' = "silence",
           buffer' = buffer \o Got(ReadMax), tty' = Left(ReadMax),
           strip'.total_len \in {0, Total(segs)},
           UNCHANGED <<answer, modem, URC_data>>
    PROVE  Reading' /\ Exact' /\ Strips'
<1>1. segs' = segs /\ (IsUIM' <=> IsUIM) /\ ~Begun /\ ~Begun' /\ Have = buffer /\ Have' = buffer'
    BY DEF segs, IsUIM, Begun, Have
<1>2. Len(buffer) \in Nat /\ buffer \in Seq(Bytes) /\ ReadMax \in Nat
    BY Facts
<1>3. (Have' \o tty') \o modem' = Stream(segs')
    BY <1>1, <1>2, ReadsMore
<1>4. Len(buffer) > 2 => Len(buffer') > 2
    <2>1. Got(ReadMax) \in Seq(Bytes)
        BY <1>2, Facts, ReadOf
    <2>2. Len(buffer') = Len(buffer) + Len(Got(ReadMax)) /\ Len(Got(ReadMax)) \in Nat
        BY <1>2, <2>1, JoinOf
    <2> QED
        BY <1>2, <2>2
<1>5. Reading'
    BY <1>1, <1>3, <1>4 DEF Reading
<1> QED
    BY <1>5 DEF Exact, Strips

\* It reads for the length of the USIM data.
LEMMA MsgLenReads ==
    ASSUME TypeOK, Shape, Reading, msg_len
    PROVE  Reading' /\ Exact' /\ Strips'
<1>1. /\ pc = "msg_len" /\ pc' = "silence"
      /\ buffer' = buffer \o Got(ReadMax) /\ tty' = Left(ReadMax)
      /\ strip' = [strip EXCEPT !.total_len = LengthIn(buffer')]
      /\ UNCHANGED <<answer, modem, ATBuf, recv_tmp_buf, isRetryToRecv, URC_data, reports>>
    BY DEF msg_len
<1>2. strip'.total_len \in {0, Total(segs)}
    <2>1. strip'.total_len = LengthIn(buffer')
        BY <1>1, Rest
    <2> QED
        BY <2>1, LengthFound
<1> QED
    BY <1>1, <1>2, GatherReads

\* When nothing comes for five seconds, some of the reports have come, and each of them whole.
LEMMA SilentBetweenReports ==
    ASSUME TypeOK, Shape, Reading, pc = "silence", tty = <<>>,
           modem # <<>> => modem[1].kind \in {"URC", "report"}
    PROVE  \E J \in 1..Len(segs) : Len(buffer) = Ends(segs, J)
<1>1. /\ segs \in Seq(Nat \ {0}) /\ Len(segs) \in Nat
      /\ buffer \in Seq(Bytes) /\ modem \in Seq(Bytes)
    BY Facts
<1>2. ~Begun /\ Have = buffer
    BY DEF Begun, Have
<1>3. Len(tty) = 0 /\ Len(buffer) > 2
    BY <1>2 DEF Reading
<1> DEFINE l == Len(buffer)
           m == Len(modem)
<1>4. /\ Len(Stream(segs)) = l + Len(tty) + m
      /\ \A i \in 1..m : Stream(segs)[l + Len(tty) + i] = modem[i]
    BY <1>2, HaveBegins
<1>5. l \in Nat /\ m \in Nat /\ l > 2 /\ (modem = <<>> <=> m = 0)
    BY <1>1, <1>3
<1>6. Len(Stream(segs)) = Ends(segs, Len(segs)) /\ Ends(segs, 0) = 0
    BY <1>1, StreamOf, EndsOf
<1>7. buffer # <<>> /\ Len(segs) >= 1
    <2>1. buffer # <<>>
        BY <1>3
    <2> QED
        BY <1>2, <2>1, HeadFirst
<1> HIDE DEF l, m
<1>8. CASE m = 0
    <2>1. l = Ends(segs, Len(segs))
        BY <1>3, <1>4, <1>5, <1>6, <1>8
    <2>2. Len(segs) \in 1..Len(segs)
        BY <1>1, <1>7
    <2> QED
        BY <2>1, <2>2 DEF l
<1>9. CASE m # 0
    <2>1. 1 \in 1..m /\ l + Len(tty) + 1 = l + 1 /\ l + 1 \in 1..Len(Stream(segs))
        BY <1>3, <1>4, <1>5, <1>9
    <2>2. Stream(segs)[l + 1] = modem[1]
        BY <1>4, <2>1
    <2>3. Stream(segs)[l + 1].kind \in {"URC", "report"}
        BY <1>5, <1>9, <2>2
    <2>4. PICK j \in 1..Len(segs) : l + 1 = Ends(segs, j - 1) + 1
        BY <1>1, <2>1, <2>3, NextIsReport
    <2>5. j - 1 \in 0..Len(segs) /\ Ends(segs, j - 1) \in Nat
        <3>1. j - 1 \in 0..Len(segs)
            BY <1>1
        <3> QED
            BY <1>1, <3>1, EndsOf
    <2>6. l = Ends(segs, j - 1)
        BY <1>5, <2>4, <2>5
    <2>7. j - 1 # 0
        BY <1>5, <1>6, <2>6
    <2>8. j - 1 \in 1..Len(segs)
        BY <1>1, <2>5, <2>7
    <2> QED
        BY <2>6, <2>8 DEF l
<1> QED
    BY <1>8, <1>9

\* It reads the USIM data; what it has when nothing comes is everything or a first part.
LEMMA SilenceReads ==
    ASSUME TypeOK, Shape, Reading, silence
    PROVE  Reading' /\ Exact' /\ Strips'
<1>1. pc = "silence"
      /\ UNCHANGED <<answer, modem, ATBuf, recv_tmp_buf, isRetryToRecv, URC_data, strip, reports>>
    BY DEF silence
<1>2. ~Begun /\ segs' = segs /\ (IsUIM' <=> IsUIM) /\ Have = buffer
    BY <1>1 DEF Begun, segs, IsUIM, Have
<1>3. CASE buffer' = buffer \o Got(ReadMax) /\ tty' = Left(ReadMax) /\ UNCHANGED pc
    <2>1. strip'.total_len \in {0, Total(segs)}
        BY <1>1, <1>2 DEF Reading
    <2> QED
        BY <1>1, <1>3, <2>1, GatherReads
<1>4. CASE /\ tty = <<>> /\ (modem # <<>> => answer.stalls /\ modem[1].kind \in {"URC", "report"})
           /\ pc' = "strip" /\ UNCHANGED <<buffer, tty>>
    <2>1. PICK J \in 1..Len(segs) : Len(buffer) = Ends(segs, J)
        BY <1>1, <1>4, SilentBetweenReports
    <2>2. /\ \A i \in 1..Len(buffer) : Stream(segs)[i] = buffer[i]
          /\ Sums(segs)[0] = 0 /\ Len(buffer) \in Nat
        BY <1>2, HaveBegins, Facts, SumsOf
    <2>3. /\ strip.cur = 0 /\ strip.parsed_len = 0 /\ strip.valid_len = 0
          /\ strip.total_len \in {0, Total(segs)} /\ URC_data = segs[1] /\ IsUIM
        BY <1>1, <1>2 DEF Shape, Reading
    <2>4. Stripping(J, 0)
        <3>1. \A i \in 1..(Len(buffer) - 2 * 0) :
                  buffer[i] = IF i <= Sums(segs)[0] THEN Data(i) ELSE Stream(segs)[i + 2 * 0]
            <4> TAKE i \in 1..(Len(buffer) - 2 * 0)
            <4>1. i \in 1..Len(buffer) /\ ~(i <= 0) /\ i + 2 * 0 = i
                BY <2>2
            <4> QED
                BY <2>2, <4>1
        <3> QED
            BY <2>1, <2>3, <3>1 DEF Stripping
    <2>5. 0 \in 0..J
        OBVIOUS
    <2>6. Stripping(J, 0)'
        BY <1>1, <1>2, <1>4, <2>4 DEF Stripping
    <2>7. Strips'
        BY <1>2, <2>3, <2>5, <2>6 DEF Strips
    <2> QED
        BY <1>4, <2>7 DEF Reading, Begun, Exact
<1> QED
    BY <1>3, <1>4 DEF silence

\* No other report comes.
LEMMA ReportReads ==
    ASSUME TypeOK, Undisturbed(answer)
    PROVE  ~Report
BY Rest DEF Undisturbed, Report

-----------------------------------------------------------------------------
(* The loop that removes the heads.                                        *)

\* Where the loop is: c heads are removed, in front of the next one are the data of c reports.
Before(c) == IF c = 0 THEN 0 ELSE Sums(segs)[c - 1]

\* The loop has removed c heads of J: where it is, and what the buffer holds.
LEMMA LoopAt ==
    ASSUME TypeOK, NEW J \in 1..Len(segs), NEW c \in 0..J, Stripping(J, c)
    PROVE  /\ segs \in Seq(Nat \ {0}) /\ Len(segs) \in Nat /\ J \in Nat /\ c \in Nat /\ J >= 1
           /\ J \in 0..Len(segs) /\ c \in 0..Len(segs)
           /\ Sums(segs)[c] \in Nat /\ Sums(segs)[J] \in Nat /\ Before(c) \in Nat
           /\ Before(c) <= Sums(segs)[c] /\ (c > 0 => Before(c) < Sums(segs)[c])
           /\ Len(buffer) = 2 * J + Sums(segs)[J] /\ Len(buffer) = Ends(segs, J)
           /\ strip.valid_len = Before(c) /\ strip.parsed_len = Before(c) + 2 * c
           /\ strip.cur \in Nat /\ strip.cur <= Before(c) /\ (c < J => strip.cur = Before(c))
           /\ strip.total_len \in {0, Total(segs)} /\ URC_data = segs[1]
           /\ \A i \in 1..(Len(buffer) - 2 * c) :
                 buffer[i] = IF i <= Sums(segs)[c] THEN Data(i) ELSE Stream(segs)[i + 2 * c]
<1>1. segs \in Seq(Nat \ {0}) /\ Len(segs) \in Nat
    BY Facts
<1>2. J \in Nat /\ c \in Nat /\ J >= 1 /\ J \in 0..Len(segs) /\ c \in 0..Len(segs)
    BY <1>1
<1>3. /\ Len(buffer) = Ends(segs, J)
      /\ strip.valid_len = Before(c) /\ strip.parsed_len = Before(c) + 2 * c
      /\ strip.cur <= Before(c) /\ (c < J => strip.cur = Before(c))
      /\ strip.total_len \in {0, Total(segs)} /\ URC_data = segs[1]
      /\ \A i \in 1..(Len(buffer) - 2 * c) :
            buffer[i] = IF i <= Sums(segs)[c] THEN Data(i) ELSE Stream(segs)[i + 2 * c]
    BY Zenon DEF Stripping, Before
<1>4. Sums(segs)[c] \in Nat /\ Sums(segs)[J] \in Nat
    BY <1>1, <1>2, SumsUpTo
<1>5. Before(c) \in Nat /\ Before(c) <= Sums(segs)[c] /\ (c > 0 => Before(c) < Sums(segs)[c])
    <2>1. CASE c = 0
        BY <1>4, <2>1 DEF Before
    <2>2. CASE c # 0
        <3>1. c - 1 \in 0..Len(segs) /\ c - 1 < c
            BY <1>1, <1>2, <2>2
        <3>2. Sums(segs)[c - 1] < Sums(segs)[c] /\ Sums(segs)[c - 1] \in Nat
            BY <1>1, <1>2, <3>1, SumsGrow
        <3>3. Before(c) = Sums(segs)[c - 1]
            BY <2>2 DEF Before
        <3> QED
            BY <1>4, <3>2, <3>3
    <2> QED
        BY <2>1, <2>2
<1>6. Len(buffer) = 2 * J + Sums(segs)[J]
    BY <1>3 DEF Ends
<1>7. strip.cur \in Nat
    BY Rest
<1> QED
    BY <1>1, <1>2, <1>3, <1>4, <1>5, <1>6, <1>7

\* The next head is behind the data of c reports, and the data in front of it are right.
LEMMA NextHead ==
    ASSUME TypeOK, NEW J \in 1..Len(segs), NEW c \in 0..J, c < J, Stripping(J, c)
    PROVE  LET p == Sums(segs)[c] IN
           /\ c + 1 \in 1..Len(segs) /\ segs[c + 1] \in 1..Total(segs)
           /\ p + 2 + segs[c + 1] <= Len(buffer) - 2 * c
           /\ buffer[p + 1] = URC /\ buffer[p + 2] = IPD(segs[c + 1])
           /\ \A i \in 1..p : buffer[i] = Data(i)
           /\ c + 1 = J => \A i \in (p + 2)..(Len(buffer) - 2 * c) : buffer[i] # URC
<1> DEFINE s == segs
           S == Sums(s)
           p == S[c]
           L == Len(buffer)
           d == s[c + 1]
           V == L - 2 * c
<1>1. /\ s \in Seq(Nat \ {0}) /\ Len(s) \in Nat /\ J \in Nat /\ c \in Nat
      /\ J \in 0..Len(s) /\ c \in 0..Len(s) /\ p \in Nat /\ L = Ends(s, J)
      /\ \A i \in 1..V : buffer[i] = IF i <= p THEN Data(i) ELSE Stream(s)[i + 2 * c]
    BY LoopAt
<1>2. c + 1 \in 1..Len(s) /\ (c + 1) - 1 = c /\ c + 1 \in 0..Len(s) /\ c + 1 <= J
    BY <1>1
<1>3. /\ d \in Nat /\ d > 0 /\ d <= Total(s) /\ Total(s) \in Nat
    BY <1>1, <1>2, SumsUpTo
<1>4. d \in 1..Total(s)
    BY <1>3
<1>5. /\ Ends(s, c) = 2 * c + p /\ Ends(s, c) \in Nat /\ Ends(s, J) \in Nat
      /\ Ends(s, c + 1) = Ends(s, c) + 2 + d /\ Ends(s, c + 1) <= Ends(s, J)
    <2>1. Ends(s, c) = 2 * c + p
        BY DEF Ends
    <2>2. Ends(s, c + 1) = Ends(s, (c + 1) - 1) + 2 + d
        BY <1>1, <1>2, EndsOf
    <2>3. Ends(s, c + 1) <= Ends(s, J)
        BY <1>1, <1>2, EndsGrow
    <2>4. Ends(s, c) \in Nat /\ Ends(s, J) \in Nat
        BY <1>1, EndsOf
    <2> QED
        BY <1>2, <2>1, <2>2, <2>3, <2>4
<1>6. HasReport(Stream(s), s, c + 1)
    BY <1>1, <1>2, StreamOf
<1>7. /\ Stream(s)[Ends(s, c) + 1] = URC /\ Stream(s)[Ends(s, c) + 2] = IPD(d)
    BY <1>2, <1>6 DEF HasReport
<1>8. p + 2 + d <= V
    <2> HIDE DEF p, d, L, s
    <2> QED
        BY <1>1, <1>3, <1>5
<1>9. /\ V \in Int /\ p + 1 \in 1..V /\ p + 2 \in 1..V
      /\ ~(p + 1 <= p) /\ ~(p + 2 <= p)
      /\ (p + 1) + 2 * c = Ends(s, c) + 1 /\ (p + 2) + 2 * c = Ends(s, c) + 2
    <2>1. V \in Int
        BY <1>1, <1>5
    <2> HIDE DEF p, d, V, s
    <2> QED
        BY <1>1, <1>3, <1>5, <1>8, <2>1
<1>10. buffer[p + 1] = URC /\ buffer[p + 2] = IPD(d)
    <2> HIDE DEF p, d, V, s
    <2> QED
        BY <1>1, <1>7, <1>9
<1>11. ASSUME NEW i \in 1..p PROVE buffer[i] = Data(i)
    <2>1. i \in 1..V /\ i <= p
        <3> HIDE DEF p, d, V, s
        <3> QED
            BY <1>1, <1>3, <1>8, <1>9
    <2> HIDE DEF p, V
    <2> QED
        BY <1>1, <2>1
<1>12. ASSUME c + 1 = J, NEW i \in (p + 2)..V PROVE buffer[i] # URC
    <2>1. i \in 1..V /\ ~(i <= p) /\ i \in Nat
        <3> HIDE DEF p, V
        <3> QED
            BY <1>1, <1>9
    <2>2. buffer[i] = Stream(s)[i + 2 * c]
        BY <1>1, <2>1
    <2> DEFINE k == i + 2 * c
    <2>3. /\ k \in Nat /\ Ends(s, (c + 1) - 1) < k /\ k <= Ends(s, c + 1)
          /\ k # Ends(s, (c + 1) - 1) + 1
        <3>1. k <= L /\ L = Ends(s, c + 1)
            BY <1>1, <1>12, <2>1
        <3> HIDE DEF p, V, L
        <3> QED
            BY <1>1, <1>2, <1>5, <1>12, <2>1, <3>1
    <2> HIDE DEF k
    <2>4. Stream(s)[k] = IPD(d) \/ Stream(s)[k] = Data(k - 2 * (c + 1))
        BY <1>1, <1>2, <2>3, ReportAt
    <2> QED
        BY <2>2, <2>4, KindsOfBytes DEF k
<1> QED
    BY <1>2, <1>4, <1>8, <1>10, <1>11, <1>12

\* What the search can find is in front of the end of what is counted as not parsed.
LEMMA Searched ==
    ASSUME TypeOK, NEW J \in 1..Len(segs), NEW c \in 0..J, Stripping(J, c), NEW ns
    PROVE  \A p \in Heads(ns) :
               /\ p \in Nat /\ p + 2 <= Len(buffer) - 2 * c
               /\ buffer[p + 1] = URC /\ \E n \in ns : buffer[p + 2] = IPD(n)
<1> DEFINE u == strip.cur + Len(buffer) - strip.parsed_len - URC_header_len
           L == Len(buffer)
           B == Before(c)
<1>1. /\ strip.cur \in Nat /\ strip.cur <= B /\ strip.parsed_len = B + 2 * c
      /\ B \in Nat /\ L \in Nat /\ c \in Nat
    <2>1. /\ strip.cur \in Nat /\ strip.cur <= Before(c) /\ strip.valid_len = Before(c)
          /\ strip.parsed_len = Before(c) + 2 * c /\ Before(c) \in Nat /\ c \in Nat
        BY LoopAt
    <2>2. L \in Nat
        <3>1. buffer \in Seq(Bytes)
            BY Facts
        <3> QED
            BY <3>1
    <2> HIDE DEF L, B
    <2> QED
        BY <2>1, <2>2 DEF B
<1>2. u \in Int /\ u + 2 <= L - 2 * c
    <2> HIDE DEF L, B
    <2> QED
        BY <1>1 DEF URC_header_len, L
<1>3. ASSUME NEW p \in Heads(ns)
      PROVE  /\ p \in Nat /\ p + 2 <= L - 2 * c
             /\ buffer[p + 1] = URC /\ \E n \in ns : buffer[p + 2] = IPD(n)
    <2>1. p \in strip.cur..u /\ buffer[p + 1] = URC /\ buffer[p + 2] \in {IPD(n) : n \in ns}
        BY DEF Heads
    <2>2. \E n \in ns : buffer[p + 2] = IPD(n)
        BY <2>1
    <2> HIDE DEF u, L
    <2>3. p \in Nat /\ p + 2 <= L - 2 * c
        BY <1>1, <1>2, <2>1
    <2> QED
        BY <2>1, <2>2, <2>3
<1> QED
    BY <1>3

\* The next head is found when its length is looked for.
LEMMA NextFound ==
    ASSUME TypeOK, Shape, pc = "strip", NEW J \in 1..Len(segs), NEW c \in 0..J, c < J, Stripping(J, c),
           NEW ns, segs[c + 1] \in ns
    PROVE  Heads(ns) # {} /\ Lowest(Heads(ns)) = Sums(segs)[c]
<1> DEFINE p == Sums(segs)[c]
           L == Len(buffer)
           B == Before(c)
           d == segs[c + 1]
<1>1. /\ strip.cur = B /\ strip.parsed_len = B + 2 * c
      /\ B \in Nat /\ L \in Nat /\ c \in Nat /\ p \in Nat /\ B <= p
    BY LoopAt, Facts
<1>2. /\ p + 2 + d <= L - 2 * c /\ d \in Nat
      /\ buffer[p + 1] = URC /\ buffer[p + 2] = IPD(d)
      /\ \A i \in 1..p : buffer[i] = Data(i)
    BY NextHead
<1>3. p \in Heads(ns)
    <2>1. p \in strip.cur..(strip.cur + L - strip.parsed_len - URC_header_len) /\ p + 2 <= L
        <3> HIDE DEF p, L, B, d
        <3> QED
            BY <1>1, <1>2 DEF URC_header_len
    <2>2. buffer[p + 2] \in {IPD(n) : n \in ns}
        BY <1>2
    <2> HIDE DEF p
    <2> QED
        BY <1>2, <2>1, <2>2 DEF Heads
<1>4. /\ Lowest(Heads(ns)) \in Heads(ns) /\ Lowest(Heads(ns)) \in Nat
      /\ \A q \in Heads(ns) : Lowest(Heads(ns)) <= q
    <2>1. Heads(ns) # {}
        BY <1>3
    <2> QED
        BY <2>1, HeadsOf
<1> DEFINE h == Lowest(Heads(ns))
<1>5. h \in Nat /\ h <= p /\ buffer[h + 1] = URC
    <2>1. h <= p
        BY <1>3, <1>4
    <2>2. buffer[h + 1] = URC
        BY <1>4, Searched
    <2> QED
        BY <1>4, <2>1, <2>2
<1>6. ~(h < p)
    <2> SUFFICES ASSUME h < p PROVE FALSE
        OBVIOUS
    <2> HIDE DEF h, p
    <2>1. h + 1 \in 1..p
        BY <1>1, <1>5
    <2>2. buffer[h + 1] = Data(h + 1)
        BY <1>2, <2>1
    <2> QED
        BY <1>5, <2>2, KindsOfBytes
<1>7. h = p
    <2> HIDE DEF h, p
    <2> QED
        BY <1>1, <1>5, <1>6
<1> QED
    BY <1>3, <1>7

\* A last head of another length is not found when the length of the first one is looked for.
LEMMA LastHead ==
    ASSUME TypeOK, Shape, pc = "strip", NEW J \in 1..Len(segs), NEW c \in 0..J, c + 1 = J,
           Stripping(J, c), NEW n, segs[c + 1] # n
    PROVE  Heads({n}) = {}
<1> SUFFICES ASSUME NEW q \in Heads({n}) PROVE FALSE
    OBVIOUS
<1> DEFINE p == Sums(segs)[c]
           V == Len(buffer) - 2 * c
<1>1. p \in Nat /\ c \in Nat /\ Len(buffer) \in Nat /\ c < J
    BY LoopAt, Facts
<1>2. q \in Nat /\ q + 2 <= V /\ buffer[q + 1] = URC /\ buffer[q + 2] = IPD(n)
    BY Searched
<1>3. /\ buffer[p + 2] = IPD(segs[c + 1])
      /\ \A i \in 1..p : buffer[i] = Data(i)
      /\ \A i \in (p + 2)..V : buffer[i] # URC
    BY <1>1, NextHead
<1>4. V \in Int
    BY <1>1
<1> HIDE DEF p, V
<1>5. CASE q < p
    <2>1. q + 1 \in 1..p
        BY <1>1, <1>2, <1>5
    <2>2. buffer[q + 1] = Data(q + 1)
        BY <1>3, <2>1
    <2> QED
        BY <1>2, <2>2, KindsOfBytes
<1>6. CASE q = p
    BY <1>2, <1>3, <1>6, KindsOfBytes
<1>7. CASE q > p
    <2>1. q + 1 \in (p + 2)..V
        BY <1>1, <1>2, <1>4, <1>7
    <2> QED
        BY <1>2, <1>3, <2>1
<1> QED
    BY <1>1, <1>2, <1>5, <1>6, <1>7

\* When all heads are removed, none is found any more.
LEMMA NoHeadLeft ==
    ASSUME TypeOK, NEW J \in 1..Len(segs), Stripping(J, J), NEW ns
    PROVE  Heads(ns) = {}
<1> SUFFICES ASSUME NEW q \in Heads(ns) PROVE FALSE
    OBVIOUS
<1> DEFINE p == Sums(segs)[J]
           V == Len(buffer) - 2 * J
<1>0. J \in 0..J
    OBVIOUS
<1>1. /\ p \in Nat /\ J \in Nat /\ Len(buffer) = 2 * J + p
      /\ \A i \in 1..V : buffer[i] = IF i <= p THEN Data(i) ELSE Stream(segs)[i + 2 * J]
    BY <1>0, LoopAt
<1>2. q \in Nat /\ q + 2 <= V /\ buffer[q + 1] = URC
    BY <1>0, Searched
<1>3. V = p
    <2> HIDE DEF p
    <2> QED
        BY <1>1
<1> HIDE DEF p, V
<1>4. q + 1 \in 1..V /\ q + 1 <= p
    BY <1>1, <1>2, <1>3
<1>5. buffer[q + 1] = Data(q + 1)
    BY <1>1, <1>4
<1> QED
    BY <1>2, <1>5, KindsOfBytes

\* The removal of a head moves what is behind it onto it.
LEMMA MovedOf ==
    ASSUME TypeOK, NEW J \in 1..Len(segs), NEW c \in 0..J, c < J, Stripping(J, c),
           NEW i \in 1..(Len(buffer) - 2 * (c + 1))
    PROVE  LET p == Sums(segs)[c] IN
           Moved(p, Len(buffer) - (p + 2 * (c + 1)))[i] = IF i <= p THEN buffer[i] ELSE buffer[i + 2]
<1> DEFINE p == Sums(segs)[c]
           L == Len(buffer)
           count == L - (p + 2 * (c + 1))
<1>1. p \in Nat /\ c \in Nat /\ L \in Nat /\ strip.cur \in Nat
    BY LoopAt, Facts
<1>2. DOMAIN buffer = 1..L
    BY Facts
<1>3. /\ i \in Nat /\ i \in 1..L /\ ~(i > strip.cur + L - 2)
      /\ i <= p + count /\ i + 2 <= L /\ (i > p <=> ~(i <= p))
    <2> HIDE DEF p
    <2>1. i \in 1..(L - 2 * (c + 1))
        OBVIOUS
    <2> HIDE DEF L
    <2> QED
        BY <1>1, <2>1
<1> HIDE DEF p, L, count
<1>4. Moved(p, count)[i] = IF i > strip.cur + L - 2 THEN Data(0)
                           ELSE IF i > p /\ i <= p + count /\ i + 2 <= L THEN buffer[i + 2]
                           ELSE buffer[i]
    BY <1>2, <1>3 DEF Moved, URC_header_len, L
<1>5. Moved(p, count)[i] = IF i <= p THEN buffer[i] ELSE buffer[i + 2]
    BY <1>3, <1>4
<1> QED
    BY <1>5 DEF p, L, count

\* One head is removed.
LEMMA OneRemoved ==
    ASSUME TypeOK, Shape, pc = "strip",
           NEW J \in 1..Len(segs), NEW c \in 0..J, c < J, Stripping(J, c),
           NEW cur \in Nat, cur <= Sums(segs)[c], c + 1 < J => cur = Sums(segs)[c],
           RemoveHead(Sums(segs)[c], cur),
           UNCHANGED <<answer, modem, tty, ATBuf, recv_tmp_buf, isRetryToRecv, URC_data, reports>>
    PROVE  pc' = pc /\ Stripping(J, c + 1)'
<1> DEFINE s == segs
           S == Sums(s)
           p == S[c]
           L == Len(buffer)
           B == Before(c)
           d == s[c + 1]
<1>1. /\ s \in Seq(Nat \ {0}) /\ Len(s) \in Nat /\ J \in Nat /\ c \in Nat
      /\ p \in Nat /\ L \in Nat /\ L = Ends(s, J) /\ B \in Nat /\ B <= p
      /\ strip.valid_len = B /\ strip.parsed_len = B + 2 * c
      /\ strip.cur = B /\ strip.total_len \in {0, Total(s)} /\ URC_data = s[1]
      /\ \A i \in 1..(L - 2 * c) : buffer[i] = IF i <= p THEN Data(i) ELSE Stream(s)[i + 2 * c]
    <2>1. L \in Nat
        BY Facts
    <2> QED
        BY <2>1, LoopAt
<1>2. /\ c + 1 \in 1..Len(s) /\ d \in Nat /\ d > 0 /\ p + 2 + d <= L - 2 * c
    BY NextHead
<1>3. p >= strip.cur /\ strip.parsed_len + (p - strip.cur) + URC_header_len <= L
    <2>1. /\ p \in Nat /\ B \in Nat /\ B <= p /\ c \in Nat /\ L \in Nat
          /\ strip.parsed_len = B + 2 * c /\ strip.cur = B
        BY <1>1
    <2> HIDE DEF p, L, B, d, s
    <2>2. p - B \in Int /\ B + 2 * c + (p - B) + 2 = p + 2 * c + 2
        BY <2>1
    <2>3. p + 2 * c + 2 <= L
        BY <1>2, <2>1
    <2> QED
        BY <2>1, <2>2, <2>3 DEF URC_header_len
<1>4. /\ pc' = pc
      /\ buffer' = Moved(p, L - (strip.parsed_len + (p - strip.cur) + URC_header_len))
      /\ strip'.cur = cur /\ strip'.valid_len = strip.valid_len + (p - strip.cur)
      /\ strip'.parsed_len = strip.parsed_len + (p - strip.cur) + URC_header_len
      /\ strip'.total_len = strip.total_len
    BY <1>1, <1>3, RemoveTypes
<1>5. /\ strip.parsed_len + (p - strip.cur) + URC_header_len = p + 2 * (c + 1)
      /\ strip.valid_len + (p - strip.cur) = p
    <2>1. /\ p \in Nat /\ B \in Nat /\ c \in Nat
          /\ strip.valid_len = B /\ strip.parsed_len = B + 2 * c /\ strip.cur = B
        BY <1>1
    <2> HIDE DEF p, L, B, d, s
    <2>2. p - strip.cur \in Int /\ B + (p - strip.cur) = p
        BY <2>1
    <2> QED
        BY <2>1, <2>2 DEF URC_header_len
<1>6. buffer' = Moved(p, L - (p + 2 * (c + 1)))
    BY <1>4, <1>5
<1>7. segs' = s
    BY DEF segs
<1>8. Len(buffer') = L
    <2>1. DOMAIN buffer = 1..L
        BY Facts
    <2>2. DOMAIN buffer' = 1..L
        BY <1>6, <2>1 DEF Moved
    <2>3. buffer' \in Seq(Bytes')
        BY <1>1, <1>3, RemoveTypes DEF TypeOK
    <2> HIDE DEF L
    <2> QED
        BY <1>1, <2>2, <2>3
<1>9. ASSUME NEW i \in 1..(L - 2 * (c + 1))
      PROVE  buffer'[i] = IF i <= S[c + 1] THEN Data(i) ELSE Stream(s)[i + 2 * (c + 1)]
    <2>1. buffer'[i] = IF i <= p THEN buffer[i] ELSE buffer[i + 2]
        BY <1>6, MovedOf
    <2>2. S[c + 1] = p + d
        <3>1. S[c + 1] = S[(c + 1) - 1] + d /\ (c + 1) - 1 = c
            BY <1>1, <1>2, SumsOf
        <3> QED
            BY <3>1
    <2>3. /\ i \in Nat /\ i >= 1 /\ i \in 1..(L - 2 * c) /\ i + 2 \in 1..(L - 2 * c)
          /\ (i + 2) + 2 * c = i + 2 * (c + 1) /\ i + 2 * (c + 1) <= L
        <3>1. i \in 1..(L - 2 * (c + 1)) /\ L \in Nat /\ c \in Nat
            BY <1>1
        <3> HIDE DEF L
        <3> QED
            BY <3>1
    <2>4. CASE i <= p
        <3>1. i <= S[c + 1]
            <4>1. i <= p + d
                <5> HIDE DEF p, d, S, L
                <5>1. i \in Nat /\ p \in Nat /\ d \in Nat /\ i <= p
                    BY <1>1, <1>2, <2>3, <2>4
                <5> QED
                    BY <5>1
            <4> QED
                BY <2>2, <4>1
        <3> QED
            BY <1>1, <2>1, <2>3, <2>4, <3>1
    <2>5. CASE ~(i <= p)
        <3>1. buffer'[i] = buffer[i + 2]
            BY <2>1, <2>5
        <3>2. ~(i + 2 <= p)
            <4> HIDE DEF p
            <4> QED
                BY <1>1, <2>3, <2>5
        <3>3. buffer[i + 2] = Stream(s)[i + 2 * (c + 1)]
            <4> HIDE DEF p, L
            <4>1. buffer[i + 2] = Stream(s)[(i + 2) + 2 * c]
                BY <1>1, <2>3, <3>2
            <4> QED
                BY <2>3, <4>1
        <3>4. i <= S[c + 1] => Stream(s)[i + 2 * (c + 1)] = Data(i)
            <4> SUFFICES ASSUME i <= S[c + 1] PROVE Stream(s)[i + 2 * (c + 1)] = Data(i)
                OBVIOUS
            <4>1. HasReport(Stream(s), s, c + 1) /\ (c + 1) - 1 = c
                BY <1>1, <1>2, StreamOf
            <4>2. i - p \in 1..d
                <5> HIDE DEF p, d, S
                <5> QED
                    BY <1>1, <1>2, <2>2, <2>3, <2>5
            <4>3. Stream(s)[Ends(s, c) + 2 + (i - p)] = Data(p + (i - p))
                BY <4>1, <4>2 DEF HasReport
            <4>4. Ends(s, c) = 2 * c + p
                BY DEF Ends
            <4>5. Ends(s, c) + 2 + (i - p) = i + 2 * (c + 1) /\ p + (i - p) = i
                <5> HIDE DEF p
                <5> QED
                    BY <1>1, <2>3, <4>4
            <4> QED
                BY <4>3, <4>5
        <3> QED
            BY <3>1, <3>3, <3>4
    <2> QED
        BY <2>4, <2>5
<1>10. /\ c + 1 # 0 /\ (c + 1) - 1 = c
    BY <1>1
<1> HIDE DEF p, L, B, d, s, S
<1>11. /\ Len(buffer') = Ends(segs', J)
       /\ \A i \in 1..(Len(buffer') - 2 * (c + 1)) :
             buffer'[i] = IF i <= Sums(segs')[c + 1] THEN Data(i) ELSE Stream(segs')[i + 2 * (c + 1)]
    BY <1>1, <1>7, <1>8, <1>9 DEF S
<1>12. LET before == IF c + 1 = 0 THEN 0 ELSE Sums(segs')[(c + 1) - 1]
       IN  /\ strip'.valid_len = before /\ strip'.parsed_len = before + 2 * (c + 1)
           /\ strip'.cur <= before /\ (c + 1 < J => strip'.cur = before)
    <2>1. Sums(segs')[(c + 1) - 1] = p
        BY <1>7, <1>10 DEF p, S
    <2>2. cur <= p /\ (c + 1 < J => cur = p)
        BY DEF p, S, s
    <2> QED
        BY <1>4, <1>5, <1>10, <2>1, <2>2
<1>13. strip'.total_len \in {0, Total(segs')} /\ URC_data' = segs'[1]
    BY <1>1, <1>4, <1>7
<1>14. Stripping(J, c + 1)'
    BY <1>11, <1>12, <1>13 DEF Stripping
<1> QED
    BY <1>4, <1>14

\* What is left when all heads are removed is what the server has sent, if it is as long as the
\* head of the message says.
LEMMA AllRemoved ==
    ASSUME TypeOK, NEW J \in 1..Len(segs), Stripping(J, J), Accepted(Sums(segs)[J])
    PROVE  SubSeq(buffer, 1, Sums(segs)[J]) = Sent(segs)
<1> DEFINE s == segs
           p == Sums(s)[J]
           q == SubSeq(buffer, 1, p)
<1>0. J \in 0..J
    OBVIOUS
<1>1. /\ s \in Seq(Nat \ {0}) /\ Len(s) \in Nat /\ J \in Nat /\ J \in 0..Len(s)
      /\ p \in Nat /\ Len(buffer) = 2 * J + p
      /\ strip.total_len \in {0, Total(s)}
      /\ \A i \in 1..(Len(buffer) - 2 * J) :
            buffer[i] = IF i <= p THEN Data(i) ELSE Stream(s)[i + 2 * J]
    BY <1>0, LoopAt
<1>2. p = Total(s)
    BY <1>1 DEF Accepted
<1>3. J = Len(s)
    <2> SUFFICES ASSUME J # Len(s) PROVE FALSE
        OBVIOUS
    <2>1. J < Len(s) /\ Len(s) \in 0..Len(s)
        BY <1>1
    <2>2. Sums(s)[J] < Sums(s)[Len(s)] /\ Sums(s)[J] \in Nat /\ Sums(s)[Len(s)] \in Nat
        BY <1>1, <2>1, SumsGrow
    <2> QED
        BY <1>2, <2>2 DEF Total
<1>4. /\ Sent(s) \in Seq(Bytes) /\ Len(Sent(s)) = p /\ \A i \in 1..p : Sent(s)[i] = Data(i)
    BY <1>1, <1>2, SentOf, Facts
<1>5. \A i \in 1..p : buffer[i] = Data(i)
    <2> TAKE i \in 1..p
    <2> HIDE DEF p
    <2>1. i \in 1..(Len(buffer) - 2 * J) /\ i <= p
        BY <1>1
    <2> QED
        BY <1>1, <2>1
<1>6. q \in Seq(Bytes) /\ Len(q) = p /\ \A i \in 1..p : q[i] = buffer[i]
    <2>1. buffer \in Seq(Bytes)
        BY Facts
    <2> HIDE DEF p
    <2>2. p <= Len(buffer)
        BY <1>1
    <2> QED
        BY <1>1, <2>1, <2>2
<1> HIDE DEF p, q, s
<1>7. \A i \in 1..p : q[i] = Sent(s)[i]
    BY <1>4, <1>5, <1>6
<1>8. q = Sent(s)
    BY <1>4, <1>6, <1>7, SeqEqual
<1> QED
    BY <1>8 DEF q, p, s

\* One turn of the loop.
LEMMA RemoveHeadsReads ==
    ASSUME TypeOK, Shape, Strips, Undisturbed(answer), remove_heads
    PROVE  Reading' /\ Exact' /\ Strips'
<1> DEFINE rest == Len(buffer) - strip.parsed_len
           same == Heads({URC_data})
           others == Heads(1..Total(segs))
<1>1. /\ pc = "strip"
      /\ UNCHANGED <<answer, modem, tty, ATBuf, recv_tmp_buf, isRetryToRecv, URC_data, reports>>
    BY Turn, Zenon
<1>2. \/ rest = 0 /\ Stripped(strip.valid_len)
      \/ rest > 0 /\ same # {} /\ RemoveHead(Lowest(same), Lowest(same))
      \/ rest > 0 /\ same = {} /\ others # {} /\ RemoveHead(Lowest(others), strip.cur)
      \/ rest > 0 /\ others = {} /\ Stripped(strip.valid_len + rest)
    BY Turn, Zenon
<1>3. IsUIM /\ segs' = segs /\ (IsUIM' <=> IsUIM)
    BY <1>1 DEF Strips, segs, IsUIM
<1>4. PICK J \in 1..Len(segs) : \E c \in 0..J : Stripping(J, c)
    BY <1>1 DEF Strips
<1>5. PICK c \in 0..J : Stripping(J, c)
    BY <1>4
<1> DEFINE p == Sums(segs)[c]
           L == Len(buffer)
           B == Before(c)
<1>6. /\ Len(segs) \in Nat /\ J \in Nat /\ c \in Nat /\ p \in Nat /\ B \in Nat
      /\ L = 2 * J + Sums(segs)[J] /\ Sums(segs)[J] \in Nat
      /\ strip.valid_len = B /\ strip.parsed_len = B + 2 * c
      /\ B <= p /\ (c > 0 => B < p) /\ (c < J => strip.cur = B)
      /\ J >= 1 /\ URC_data = segs[1] /\ strip.cur \in Nat
    BY <1>5, LoopAt
<1>7. CASE c < J
    <2> DEFINE d == segs[c + 1]
    <2>1. d \in 1..Total(segs) /\ d \in Nat /\ p + 2 + d <= L - 2 * c /\ c + 1 \in 1..Len(segs)
        BY <1>5, <1>7, NextHead
    <2>2. rest > 0 /\ ~(rest = 0)
        <3> HIDE DEF p, L, B, d
        <3> QED
            BY <1>6, <2>1 DEF L
    <2>3. others # {} /\ Lowest(others) = p
        BY <1>1, <1>5, <1>7, <2>1, NextFound
    <2>4. d = URC_data => same # {} /\ Lowest(same) = p
        BY <1>1, <1>5, <1>7, NextFound
    <2>5. d # URC_data => c + 1 = J /\ same = {}
        <3> SUFFICES ASSUME d # URC_data PROVE c + 1 = J /\ same = {}
            OBVIOUS
        <3>1. c + 1 = J
            <4> SUFFICES ASSUME c + 1 # J PROVE FALSE
                OBVIOUS
            <4>1. c + 1 \in 1..(Len(segs) - 1)
                BY <1>6, <1>7
            <4>2. segs[c + 1] = segs[1]
                BY <1>3, <4>1 DEF Undisturbed, segs, IsUIM
            <4> QED
                BY <1>6, <4>2
        <3>2. same = {}
            BY <1>1, <1>5, <3>1, LastHead
        <3> QED
            BY <3>1, <3>2
    <2> HIDE DEF same, others, rest
    <2>6. PICK cur \in Nat : /\ cur <= p /\ (c + 1 < J => cur = p)
                             /\ RemoveHead(p, cur)
        <3>1. CASE same # {} /\ RemoveHead(Lowest(same), Lowest(same))
            <4>1. d = URC_data
                BY <2>5, <3>1
            <4>2. RemoveHead(p, p)
                BY <2>4, <3>1, <4>1
            <4>3. p \in Nat /\ p <= p
                BY <1>6
            <4> QED
                BY <4>2, <4>3
        <3>2. CASE same = {} /\ RemoveHead(Lowest(others), strip.cur)
            <4>1. d # URC_data
                BY <2>4, <3>2
            <4>2. ~(c + 1 < J)
                BY <1>6, <2>5, <4>1
            <4>3. RemoveHead(p, strip.cur) /\ strip.cur \in Nat /\ strip.cur <= p
                BY <1>6, <1>7, <2>3, <3>2
            <4> QED
                BY <4>2, <4>3
        <3> QED
            BY <1>2, <2>2, <2>3, <3>1, <3>2
    <2>7. pc' = pc /\ Stripping(J, c + 1)'
        BY <1>1, <1>5, <1>7, <2>6, OneRemoved
    <2>8. c + 1 \in 0..J
        BY <1>6, <1>7
    <2>9. Strips'
        BY <1>3, <2>7, <2>8 DEF Strips
    <2> QED
        BY <1>1, <2>7, <2>9 DEF Reading, Begun, Exact
<1>8. CASE c = J
    <2>1. Stripping(J, J)
        BY <1>5, <1>8
    <2>2. same = {} /\ others = {}
        BY <2>1, NoHeadLeft
    <2>3. ~(rest = 0) /\ strip.valid_len + rest = p
        <3> HIDE DEF p, L, B
        <3>1. p = Sums(segs)[J]
            BY <1>8 DEF p
        <3>2. L \in Nat /\ rest = L - (B + 2 * c)
            BY <1>6 DEF L
        <3> HIDE DEF rest
        <3>3. L = 2 * c + p /\ B < p /\ p \in Nat /\ B \in Nat /\ c \in Nat
            BY <1>6, <1>8, <3>1
        <3>4. rest = p - B
            BY <3>2, <3>3
        <3>5. rest # 0 /\ B + rest = p
            BY <3>3, <3>4
        <3> QED
            BY <1>6, <3>5
    <2> HIDE DEF same, others, rest
    <2>4. Stripped(strip.valid_len + rest)
        BY <1>2, <2>2, <2>3
    <2>5. Stripped(p)
        BY <2>3, <2>4
    <2>6. /\ buffer' = SubSeq(buffer, 1, p)
          /\ pc' = IF Accepted(p) THEN "done" ELSE "again"
        BY <2>5 DEF Stripped
    <2>7. Exact'
        <3> SUFFICES ASSUME pc' = "done" PROVE buffer' = Sent(segs')
            BY DEF Exact
        <3>1. Accepted(Sums(segs)[J])
            BY <1>8, <2>6
        <3>2. SubSeq(buffer, 1, Sums(segs)[J]) = Sent(segs)
            BY <2>1, <3>1, AllRemoved
        <3> QED
            BY <1>3, <1>8, <2>6, <3>2
    <2> QED
        BY <2>6, <2>7 DEF Reading, Begun, Strips
<1> QED
    BY <1>6, <1>7, <1>8

\* Every step keeps the text.
LEMMA NextReads ==
    ASSUME TypeOK, Shape, Undisturbed(answer), Reading, Exact, Strips, [Next]_vars
    PROVE  Reading' /\ Exact' /\ Strips'
<1>1. CASE UNCHANGED vars
    <2>1. Reading'
        BY <1>1 DEF vars, Reading, Begun, Have, segs, IsUIM
    <2>2. Exact' /\ Strips'
        BY <1>1 DEF vars, Exact, Strips, Stripping, segs, IsUIM
    <2> QED
        BY <2>1, <2>2
<1>2. CASE Next
    BY <1>2, TransmitReads, ReportReads, StartReads, MoreReads, HeadReads, ReadReads, MsgLenReads,
       SilenceReads, RemoveHeadsReads DEF Next
<1> QED
    BY <1>1, <1>2

\* An answer between whose parts nothing else comes is handed over as the server has sent it, however
\* long it is, into how many reports the modem divides it, and wherever the line pauses.
THEOREM ReceivedExactly == Spec => [](Undisturbed(answer) => Exact)
<1> DEFINE IInv == /\ TypeOK /\ Shape
                   /\ Undisturbed(answer) => Reading /\ Exact /\ Strips
<1>1. Init => IInv
    BY TypeInit, InitReads
<1>2. IInv /\ [Next]_vars => IInv'
    <2> SUFFICES ASSUME IInv, [Next]_vars PROVE IInv'
        OBVIOUS
    <2>1. TypeOK' /\ Shape'
        BY NextTypes
    <2>2. answer' = answer
        BY DEF Next, vars, Transmit, Report, reader_recv_start, read_more, head, read, msg_len, silence, remove_heads
    <2>3. Undisturbed(answer)' => Reading' /\ Exact' /\ Strips'
        <3> SUFFICES ASSUME Undisturbed(answer) PROVE Reading' /\ Exact' /\ Strips'
            BY <2>2
        <3> QED
            BY NextReads
    <2> QED
        BY <2>1, <2>3
<1>3. IInv => (Undisturbed(answer) => Exact)
    OBVIOUS
<1> QED
    BY <1>1, <1>2, <1>3, PTL DEF Spec
=============================================================================
