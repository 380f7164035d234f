------------------------ MODULE Registration_proofs -------------------------
(***************************************************************************)
(* Proofs about Registration: every step keeps the types; the state is     *)
(* IDLE while the USIM has no power; what the Listener makes of the last   *)
(* report is what mdmImodem has become; no report is handled twice.        *)
(***************************************************************************)
EXTENDS Registration, TLAPS, WellFoundedInduction, NaturalsInduction

-----------------------------------------------------------------------------
(* Induction over a set of numbers, and functions defined step by step.    *)

\* The order of the natural numbers, as a set of pairs.
LEMMA LessThan ==
    ASSUME NEW m \in Nat, NEW n \in Nat, m < n
    PROVE  <<m, n>> \in OpToRel(<, Nat)
BY Zenon DEF OpToRel

\* Induction: a set that has 0, and with a number the next one, has them all.
LEMMA SetInduction ==
    ASSUME NEW T, 0 \in T, \A n \in Nat : n \in T => n + 1 \in T
    PROVE  Nat \subseteq T
<1>1. PICK R : IsWellFoundedOn(R, Nat) /\ \A m, n \in Nat : m < n => <<m, n>> \in R
    BY NatLessThanWellFounded, LessThan, Zenon
<1> SUFFICES ASSUME Nat \ T # {} PROVE FALSE
    OBVIOUS
<1>2. PICK x \in Nat \ T : \A y \in Nat \ T : ~(<<y, x>> \in R)
    <2>1. Nat \ T \subseteq Nat
        OBVIOUS
    <2> QED
        BY <1>1, <2>1, WFMin, Zenon
<1>3. x - 1 \in Nat /\ x - 1 < x
    BY <1>2
<1>4. x - 1 \notin T
    <2> SUFFICES ASSUME x - 1 \in T PROVE FALSE
        OBVIOUS
    <2>1. (x - 1) + 1 \in T
        BY <1>3
    <2> QED
        BY <1>2, <1>3, <2>1
<1> QED
    BY <1>1, <1>2, <1>3, <1>4

\* g[j] gives the value of f at j from the one at j - 1.
FromStepToStep(f, base, n, g) == f[0] = base /\ \A j \in 1..n : f[j] = g[j][f[j - 1]]

\* A function that is defined step by step exists.
LEMMA StepByStep ==
    ASSUME NEW V, NEW base \in V, NEW n \in Nat, NEW g \in [1..n -> [V -> V]]
    PROVE  \E f \in [0..n -> V] : FromStepToStep(f, base, n, g)
<1> DEFINE Steps(f, k) == /\ f \in [0..k -> V] /\ f[0] = base
                          /\ \A j \in 1..k : f[j] = g[j][f[j - 1]]
           T == {k \in Nat : k <= n => \E f : Steps(f, k)}
<1>1. 0 \in T
    <2> DEFINE f0 == [j \in 0..0 |-> base]
    <2>1. Steps(f0, 0)
        OBVIOUS
    <2> HIDE DEF f0, Steps
    <2> QED
        BY <2>1
<1>2. ASSUME NEW k \in Nat, k \in T
      PROVE  k + 1 \in T
    <2> SUFFICES ASSUME k + 1 <= n PROVE \E f : Steps(f, k + 1)
        OBVIOUS
    <2>1. k <= n
        OBVIOUS
    <2>2. PICK f : Steps(f, k)
        <3> HIDE DEF Steps
        <3> QED
            BY <1>2, <2>1
    <2>3. /\ f \in [0..k -> V] /\ f[0] = base
          /\ \A j \in 1..k : f[j] = g[j][f[j - 1]]
        BY <2>2
    <2>4. f[k] \in V /\ k + 1 \in 1..n
        BY <2>3
    <2> DEFINE next == g[k + 1][f[k]]
    <2>5. next \in V
        BY <2>4
    <2> HIDE DEF next
    <2> DEFINE h == [j \in 0..(k + 1) |-> IF j = k + 1 THEN next ELSE f[j]]
    <2>6. h \in [0..(k + 1) -> V]
        BY <2>3, <2>5
    <2>7. /\ 0 \in 0..(k + 1) /\ 0 # k + 1
          /\ \A j \in 1..k : j \in 0..(k + 1) /\ j # k + 1 /\ j - 1 \in 0..(k + 1) /\ j - 1 # k + 1
          /\ k \in 0..(k + 1) /\ k # k + 1 /\ k + 1 \in 0..(k + 1) /\ (k + 1) - 1 = k
        OBVIOUS
    <2>8. h[0] = base
        BY <2>3, <2>7
    <2>9. ASSUME NEW j \in 1..(k + 1) PROVE h[j] = g[j][h[j - 1]]
        <3>1. CASE j = k + 1
            <4>1. h[k + 1] = next /\ h[k] = f[k]
                BY <2>7
            <4> QED
                BY <2>7, <3>1, <4>1 DEF next
        <3>2. CASE j # k + 1
            <4>1. j \in 1..k
                BY <3>2
            <4>2. h[j] = f[j] /\ h[j - 1] = f[j - 1]
                BY <2>7, <4>1
            <4> QED
                BY <2>3, <4>1, <4>2
        <3> QED
            BY <3>1, <3>2
    <2> HIDE DEF h
    <2>10. Steps(h, k + 1)
        BY <2>6, <2>8, <2>9
    <2> HIDE DEF Steps
    <2> QED
        BY <2>10
<1>3. n \in T
    <2> HIDE DEF T
    <2> QED
        BY <1>1, <1>2, SetInduction
<1>4. \E f : Steps(f, n)
    <2> HIDE DEF Steps
    <2> QED
        BY <1>3
<1> QED
    BY <1>4 DEF FromStepToStep

-----------------------------------------------------------------------------
(* What one report, and what all of them amount to.                        *)

AllLines == Losses \union Specials \union {"SYS_MODE", "OTHER", "REG", "CARD_READY", "REST"}

Deeds == {"id", "report", "resume"}

Outcomes == [state : States, flags : SUBSET Flags, c : -1..4, resume : BOOLEAN, stop : BOOLEAN,
             mode : BOOLEAN, reset : BOOLEAN, then : SUBSET Deeds]

\* The flags that a report may change.
Moved == {"isRegOn", "isMifiConnected", "isTermSuspNow", "isTermRcvrNow"}

\* The flags are the same, but for those of M.
Same(f, g, M) == \A x : x \notin M => (x \in f <=> x \in g)

\* The traffic is with mdmEmodem, or will be.
Back(r) == r.resume \/ r.c \in {-1, 0} \/ (r.c = 2 /\ "isTermSuspNow" \in r.flags)

\* q is r but for what brings the traffic back.
Only(q, r) ==
    /\ q.state = r.state /\ q.stop = r.stop /\ q.mode = r.mode /\ q.reset = r.reset
    /\ q.then = r.then
    /\ Same(q.flags, r.flags, {"isTermSuspNow", "isTermRcvrNow"})

\* The next state is a state.
LEMMA NextStateOf ==
    ASSUME NEW u, NEW s \in States
    PROVE  NextState(u, s) \in States
BY DEF NextState, States

\* mdmImodem tells whether it is registered.
LEMMA ReportedOf ==
    ASSUME NEW f \in SUBSET Flags
    PROVE  /\ Reported(f) \in SUBSET Flags
           /\ Same(Reported(f), f, {"isRegOn", "isMifiConnected"})
           /\ ~modem.registered => "isRegOn" \notin Reported(f) /\ "isMifiConnected" \notin Reported(f)
<1>1. CASE modem.registered
    BY <1>1 DEF Reported, Same, Flags
<1>2. CASE ~modem.registered
    BY <1>2 DEF Reported, Same
<1> QED
    BY <1>1, <1>2

\* An outcome, by its fields.
LEMMA Fields ==
    ASSUME NEW r \in Outcomes
    PROVE  /\ r.state \in States /\ r.flags \in SUBSET Flags /\ r.c \in -1..4
           /\ r.resume \in BOOLEAN /\ r.stop \in BOOLEAN /\ r.mode \in BOOLEAN
           /\ r.reset \in BOOLEAN /\ r.then \in SUBSET Deeds
BY DEF Outcomes

\* mdmEmodem is to be recovered.
LEMMA WithResume ==
    ASSUME NEW r \in Outcomes
    PROVE  LET q == [r EXCEPT !.resume = TRUE] IN
           q \in Outcomes /\ Only(q, r) /\ Back(q)
BY DEF Outcomes, Only, Same, Back

\* ChannelNum is changed.
LEMMA WithChannel ==
    ASSUME NEW r \in Outcomes, NEW c \in -1..4
    PROVE  LET q == [r EXCEPT !.c = c] IN
           q \in Outcomes /\ Only(q, r) /\ (c \in {-1, 0} => Back(q))
BY DEF Outcomes, Only, Same, Back

\* Flags are changed.
LEMMA WithFlags ==
    ASSUME NEW r \in Outcomes, NEW f \in SUBSET Flags
    PROVE  LET q == [r EXCEPT !.flags = f] IN
           /\ q \in Outcomes /\ q.flags = f /\ q.state = r.state /\ q.c = r.c /\ q.resume = r.resume
           /\ q.stop = r.stop /\ q.mode = r.mode /\ q.reset = r.reset /\ q.then = r.then
BY DEF Outcomes

\* The traffic is given back to mdmEmodem.
LEMMA ReleasedOf ==
    ASSUME NEW r \in Outcomes
    PROVE  Released(r) \in Outcomes /\ Only(Released(r), r) /\ Back(Released(r))
<1>1. r.c \in {-1, 0, 1, 2, 3, 4} /\ r.flags \in SUBSET Flags
    BY DEF Outcomes
<1>2. Only(r, r)
    BY DEF Only, Same
<1>3. CASE r.c = 1
    <2>1. Released(r) = [r EXCEPT !.resume = TRUE]
        BY <1>3 DEF Released
    <2> QED
        BY <2>1, WithResume
<1>4. CASE r.c = 2
    <2> DEFINE f == r.flags \union {"isTermSuspNow"}
    <2>1. Released(r) = [r EXCEPT !.flags = f]
        BY <1>4 DEF Released
    <2>2. f \in SUBSET Flags /\ Same(f, r.flags, {"isTermSuspNow", "isTermRcvrNow"}) /\ "isTermSuspNow" \in f
        BY <1>1 DEF Flags, Same
    <2> HIDE DEF f
    <2> QED
        BY <1>4, <2>1, <2>2, WithFlags DEF Back, Only
<1>5. CASE r.c = 3
    <2>1. Released(r) = [r EXCEPT !.c = 0] /\ 0 \in -1..4
        BY <1>5 DEF Released
    <2> QED
        BY <2>1, WithChannel
<1>6. CASE r.c = 4
    <2>1. Released(r) = [r EXCEPT !.c = -1] /\ -1 \in -1..4
        BY <1>6 DEF Released
    <2> QED
        BY <2>1, WithChannel
<1>7. CASE r.c \in {-1, 0}
    <2>1. Released(r) = r
        BY <1>7 DEF Released
    <2> QED
        BY <1>2, <1>7, <2>1 DEF Back
<1> QED
    BY <1>1, <1>3, <1>4, <1>5, <1>6, <1>7

\* It is, and mdmEmodem may have to be recovered once more.
LEMMA DoubtedOf ==
    ASSUME NEW r \in Outcomes, NEW was
    PROVE  Doubted(r, was) \in Outcomes /\ Only(Doubted(r, was), r) /\ Back(Doubted(r, was))
<1> DEFINE s == Released(r)
           f == s.flags \union {"isTermRcvrNow"}
<1>1. s \in Outcomes /\ Only(s, r) /\ Back(s)
    BY ReleasedOf
<1>2. Doubted(r, was) \in {s, [s EXCEPT !.resume = TRUE], [s EXCEPT !.flags = f]}
    BY DEF Doubted
<1>3. f \in SUBSET Flags /\ Same(f, s.flags, {"isTermSuspNow", "isTermRcvrNow"})
      /\ ("isTermSuspNow" \in s.flags => "isTermSuspNow" \in f)
    <2>1. s.flags \in SUBSET Flags
        BY <1>1, Fields
    <2> QED
        BY <2>1 DEF Flags, Same
<1> HIDE DEF s, f
<1>4. /\ [s EXCEPT !.resume = TRUE] \in Outcomes /\ Only([s EXCEPT !.resume = TRUE], s)
      /\ Back([s EXCEPT !.resume = TRUE])
    BY <1>1, WithResume
<1>5. /\ [s EXCEPT !.flags = f] \in Outcomes /\ Only([s EXCEPT !.flags = f], s)
      /\ Back([s EXCEPT !.flags = f])
    <2>1. LET q == [s EXCEPT !.flags = f] IN
          /\ q \in Outcomes /\ q.flags = f /\ q.state = s.state /\ q.c = s.c /\ q.resume = s.resume
          /\ q.stop = s.stop /\ q.mode = s.mode /\ q.reset = s.reset /\ q.then = s.then
        BY <1>1, <1>3, WithFlags
    <2> QED
        BY <1>1, <1>3, <2>1 DEF Back, Only
<1>6. \A q : Only(q, s) => Only(q, r)
    BY <1>1 DEF Only, Same
<1> QED
    BY <1>1, <1>2, <1>4, <1>5, <1>6
\* A report of no consequence.
Harmless == {"SYS_MODE", "OTHER", "CARD_READY"}

\* mdmImodem counts neither as registered nor as dialled up.
Unset(f) == "isRegOn" \notin f /\ "isMifiConnected" \notin f

\* After an error or a rejection the rest of the batch is skipped.
LEMMA ProcessStopped ==
    ASSUME NEW r \in Outcomes, NEW u, r.stop
    PROVE  process_URC(r, u) = r
BY DEF process_URC

\* One report.
LEMMA ProcessOf ==
    ASSUME NEW r \in Outcomes, NEW u, ~r.stop
    PROVE  LET p == process_URC(r, u) IN
           /\ p \in Outcomes /\ p.reset = r.reset /\ p.then = r.then
           /\ p.state = NextState(u, r.state)
           /\ p.stop <=> u \in {"CARD_ERROR", "REJ_V01"}
           /\ Same(p.flags, r.flags, Moved)
           /\ u \in Losses /\ r.state # "REJECTED" => Unset(p.flags)
           /\ u \in Harmless /\ ~modem.registered /\ Unset(r.flags) => Unset(p.flags)
           /\ u = "CARD_READY" /\ r.state = "IDLE" /\ ~modem.registered => Unset(p.flags)
           /\ u \in {"REJ_V03", "SEARCHING"} \/ Back(r) => Back(p)
<1> DEFINE s == NextState(u, r.state)
           f == IF u = "REG" THEN r.flags \union {"isRegOn"}
                ELSE IF LosesIsRegOn(u, r.state) THEN r.flags \ {"isRegOn", "isMifiConnected"}
                ELSE IF u = "CARD_READY" /\ r.state = "IDLE" THEN Reported(r.flags)
                ELSE r.flags
           stop == u \in {"CARD_ERROR", "REJ_V01"}
           mode == r.mode \/ u = "SYS_MODE"
           q == [r EXCEPT !.state = s, !.flags = f, !.stop = stop, !.mode = mode]
           p == process_URC(r, u)
<1>1. /\ r.state \in States /\ r.flags \in SUBSET Flags /\ r.mode \in BOOLEAN
      /\ s \in States /\ stop \in BOOLEAN /\ mode \in BOOLEAN
    BY Fields, NextStateOf
<1>2. /\ Reported(r.flags) \in SUBSET Flags
      /\ Same(Reported(r.flags), r.flags, {"isRegOn", "isMifiConnected"})
      /\ ~modem.registered => Unset(Reported(r.flags))
    BY <1>1, ReportedOf DEF Unset
<1>3. f \in SUBSET Flags /\ Same(f, r.flags, {"isRegOn", "isMifiConnected"})
    BY <1>1, <1>2 DEF Same, Flags
<1>4. u \in Losses /\ r.state # "REJECTED" => Unset(f)
    BY DEF Losses, Rejections, LosesIsRegOn, Unset
<1>5. u \in Harmless => u # "REG" /\ u \notin Losses
    BY DEF Harmless, Losses, Rejections
<1>6. u \in Harmless /\ ~modem.registered /\ Unset(r.flags) => Unset(f)
    BY <1>2, <1>5 DEF LosesIsRegOn
<1>7. u = "CARD_READY" /\ r.state = "IDLE" /\ ~modem.registered => Unset(f)
    BY <1>2, <1>5 DEF LosesIsRegOn, Harmless
<1>8. /\ q \in Outcomes /\ q.reset = r.reset /\ q.then = r.then /\ q.state = s /\ q.flags = f
      /\ (q.stop <=> stop) /\ q.c = r.c /\ q.resume = r.resume
    <2> HIDE DEF s, f, stop, mode
    <2> QED
        BY <1>1, <1>3 DEF Outcomes
<1>9. p \in {q, Released(q), Doubted(q, reg_urc_state = "REGISTERED")}
      /\ (u \in {"REJ_V03", "SEARCHING"} => Back(p))
    <2>1. p = CASE u = "REJ_V03" -> Released(q)
                [] u = "SEARCHING" -> Doubted(q, reg_urc_state = "REGISTERED")
                [] OTHER -> q
        BY DEF process_URC
    <2> HIDE DEF q, p
    <2>2. Back(Released(q)) /\ Back(Doubted(q, reg_urc_state = "REGISTERED"))
        BY <1>8, ReleasedOf, DoubtedOf
    <2> QED
        BY <2>1, <2>2
<1> HIDE DEF s, f, stop, mode, q, p
<1>10. /\ Released(q) \in Outcomes /\ Only(Released(q), q) /\ Back(Released(q))
       /\ Doubted(q, reg_urc_state = "REGISTERED") \in Outcomes
       /\ Only(Doubted(q, reg_urc_state = "REGISTERED"), q)
       /\ Back(Doubted(q, reg_urc_state = "REGISTERED"))
    BY <1>8, ReleasedOf, DoubtedOf
<1>11. Only(q, q)
    BY DEF Only, Same
<1>12. p \in Outcomes /\ Only(p, q) /\ (p = q \/ Back(p))
    <2>1. CASE p = q
        BY <1>8, <1>11, <2>1
    <2>2. CASE p = Released(q)
        BY <1>10, <2>2
    <2>3. CASE p = Doubted(q, reg_urc_state = "REGISTERED")
        BY <1>10, <2>3
    <2> QED
        BY <1>9, <2>1, <2>2, <2>3
<1>13. Back(r) => Back(q)
    BY <1>3, <1>8 DEF Back, Same
<1>14. u \in {"REJ_V03", "SEARCHING"} \/ Back(r) => Back(p)
    BY <1>9, <1>12, <1>13
<1>15. /\ p.state = s /\ (p.stop <=> stop) /\ p.reset = r.reset /\ p.then = r.then
       /\ Same(p.flags, f, {"isTermSuspNow", "isTermRcvrNow"})
    BY <1>8, <1>12 DEF Only
<1>16. Same(p.flags, r.flags, Moved) /\ (Unset(f) => Unset(p.flags))
    BY <1>3, <1>15 DEF Same, Moved, Unset
<1> QED
    BY <1>4, <1>6, <1>7, <1>12, <1>14, <1>15, <1>16 DEF s, stop, p

\* Before the first report.
Base(f) ==
    [state |-> reg_urc_state, flags |-> f, c |-> ChannelNum, resume |-> FALSE,
     stop |-> FALSE, mode |-> FALSE, reset |-> FALSE, then |-> {}]

\* a[k] is what the first k reports amount to.
Folds(a, lines, f) ==
    /\ a \in [0..Len(lines) -> Outcomes]
    /\ a[0] = Base(f)
    /\ \A k \in 1..Len(lines) : a[k] = process_URC(a[k - 1], lines[k])
    /\ process_URC_array_v01(lines, f) = a[Len(lines)]

\* The loop over the reports, step by step.
LEMMA FoldOf ==
    ASSUME reg_urc_state \in States, ChannelNum \in -1..4, NEW f \in SUBSET Flags,
           NEW lines, Len(lines) \in Nat
    PROVE  \E a : Folds(a, lines, f)
<1> DEFINE n == Len(lines)
           g == [j \in 1..n |-> [v \in Outcomes |-> process_URC(v, lines[j])]]
<1>1. Base(f) \in Outcomes
    BY DEF Base, Outcomes
<1>2. \A v \in Outcomes : \A u : process_URC(v, u) \in Outcomes
    <2> TAKE v \in Outcomes
    <2> TAKE u
    <2>1. CASE v.stop
        BY <2>1, ProcessStopped
    <2>2. CASE ~v.stop
        BY <2>2, ProcessOf
    <2> QED
        BY <2>1, <2>2
<1>3. g \in [1..n -> [Outcomes -> Outcomes]]
    BY <1>2
<1>4. \A j \in 1..n : \A v \in Outcomes : g[j][v] = process_URC(v, lines[j])
    OBVIOUS
<1> HIDE DEF g, n
<1>5. PICK a \in [0..n -> Outcomes] : a[0] = Base(f) /\ \A j \in 1..n : a[j] = g[j][a[j - 1]]
    <2>1. n \in Nat
        BY DEF n
    <2>2. \E a \in [0..n -> Outcomes] : FromStepToStep(a, Base(f), n, g)
        BY <1>1, <1>3, <2>1, StepByStep, Zenon
    <2> QED
        BY <2>2 DEF FromStepToStep
<1>6. \A j \in 1..n : a[j] = process_URC(a[j - 1], lines[j])
    <2> TAKE j \in 1..n
    <2>1. n \in Nat
        BY DEF n
    <2>2. j - 1 \in 0..n
        BY <2>1
    <2>3. a[j - 1] \in Outcomes
        BY <2>2
    <2> QED
        BY <1>4, <1>5, <2>3
<1> DEFINE Is(h) == h = [k \in 0..n |-> IF k = 0 THEN Base(f) ELSE process_URC(h[k - 1], lines[k])]
<1>7. Is(a)
    <2>1. n \in Nat
        BY DEF n
    <2>2. \A k \in 0..n : a[k] = IF k = 0 THEN Base(f) ELSE process_URC(a[k - 1], lines[k])
        <3> TAKE k \in 0..n
        <3>1. k # 0 => k \in 1..n
            BY <2>1
        <3> QED
            BY <1>5, <1>6, <3>1
    <2> QED
        BY <2>2
<1> DEFINE h == CHOOSE x : Is(x)
<1>8. process_URC_array_v01(lines, f) = h[n]
    BY DEF process_URC_array_v01, Base, n
<1>9. Is(h)
    <2> HIDE DEF Is
    <2> QED
        BY <1>7, Zenon
<1>10. /\ h \in [0..n -> Outcomes] /\ h[0] = Base(f)
       /\ \A k \in 1..n : h[k] = process_URC(h[k - 1], lines[k])
    <2> HIDE DEF h
    <2>1. n \in Nat
        BY DEF n
    <2>2. DOMAIN h = 0..n /\ \A k \in 0..n : h[k] = IF k = 0 THEN Base(f) ELSE process_URC(h[k - 1], lines[k])
        BY <1>9
    <2>3. h[0] = Base(f) /\ \A k \in 1..n : h[k] = process_URC(h[k - 1], lines[k])
        <3>1. 0 \in 0..n /\ \A k \in 1..n : k \in 0..n /\ k # 0
            BY <2>1
        <3> QED
            BY <2>2, <3>1
    <2> DEFINE T == {k \in Nat : k <= n => h[k] \in Outcomes}
    <2>4. 0 \in T
        BY <1>1, <2>3
    <2>5. ASSUME NEW k \in Nat, k \in T PROVE k + 1 \in T
        <3> SUFFICES ASSUME k + 1 <= n PROVE h[k + 1] \in Outcomes
            OBVIOUS
        <3>1. k + 1 \in 1..n /\ (k + 1) - 1 = k /\ k <= n
            BY <2>1
        <3>2. h[k] \in Outcomes /\ h[k + 1] = process_URC(h[k], lines[k + 1])
            BY <2>3, <2>5, <3>1
        <3> QED
            BY <1>2, <3>2
    <2>6. Nat \subseteq T
        <3> HIDE DEF T
        <3> QED
            BY <2>4, <2>5, SetInduction
    <2>7. \A k \in 0..n : h[k] \in Outcomes
        BY <2>1, <2>6
    <2>8. h = [k \in 0..n |-> h[k]]
        BY <1>9
    <2> QED
        BY <2>3, <2>7, <2>8
<1> QED
    BY <1>8, <1>10 DEF Folds, n

\* The end of the handler.
LEMMA AtTheEndOf ==
    ASSUME NEW f \in SUBSET Flags, NEW then
    PROVE  /\ AtTheEnd(f, then) \in SUBSET Flags
           /\ Same(AtTheEnd(f, then), f, {"isRegOn", "isMifiConnected", "isNeedToSendIDMsg"})
           /\ ~modem.registered /\ Unset(f) => Unset(AtTheEnd(f, then))
<1> DEFINE g == IF "id" \in then THEN f \union {"isNeedToSendIDMsg"} ELSE f
<1>1. g \in SUBSET Flags /\ Same(g, f, {"isNeedToSendIDMsg"})
    BY DEF Flags, Same
<1>2. Unset(f) => Unset(g)
    BY DEF Unset
<1>3. AtTheEnd(f, then) \in {g, Reported(g)}
    BY DEF AtTheEnd
<1> HIDE DEF g
<1>4. /\ Reported(g) \in SUBSET Flags /\ Same(Reported(g), g, {"isRegOn", "isMifiConnected"})
      /\ ~modem.registered => Unset(Reported(g))
    BY <1>1, ReportedOf DEF Unset
<1>5. CASE AtTheEnd(f, then) = g
    BY <1>1, <1>2, <1>5 DEF Same
<1>6. CASE AtTheEnd(f, then) = Reported(g)
    BY <1>1, <1>4, <1>6 DEF Same
<1> QED
    BY <1>3, <1>5, <1>6

\* The USIM is reset, but not twice.
LEMMA ResetsUsimOf ==
    ASSUME NEW r \in Outcomes, NEW then \in SUBSET Deeds
    PROVE  LET q == ResetsUsim(r, then) IN
           /\ q \in Outcomes
           /\ "isRstingUsim" \notin r.flags =>
                 /\ q.reset /\ q.state = "IDLE" /\ q.flags = r.flags \union {"isRstingUsim"}
                 /\ Back(r) => Back(q)
<1>1. r.flags \in SUBSET Flags
    BY Fields
<1>2. CASE "isRstingUsim" \in r.flags
    <2>1. ResetsUsim(r, then) = [r EXCEPT !.flags = AtTheEnd(r.flags, then)]
        BY <1>2 DEF ResetsUsim
    <2>2. AtTheEnd(r.flags, then) \in SUBSET Flags
        BY <1>1, AtTheEndOf
    <2> QED
        BY <1>2, <2>1, <2>2, WithFlags
<1>3. CASE "isRstingUsim" \notin r.flags
    <2> DEFINE f == r.flags \union {"isRstingUsim"}
               q == [r EXCEPT !.reset = TRUE, !.then = then, !.state = "IDLE", !.flags = f]
    <2>1. ResetsUsim(r, then) = q
        BY <1>3 DEF ResetsUsim
    <2>2. f \in SUBSET Flags /\ "IDLE" \in States /\ ("isTermSuspNow" \in r.flags => "isTermSuspNow" \in f)
        BY <1>1 DEF Flags, States
    <2>3. /\ q \in Outcomes /\ q.reset /\ q.state = "IDLE" /\ q.flags = f
          /\ q.c = r.c /\ q.resume = r.resume
        <3> HIDE DEF f
        <3> QED
            BY <2>2 DEF Outcomes
    <2>4. Back(r) => Back(q)
        <3> HIDE DEF q, f
        <3> QED
            BY <2>2, <2>3 DEF Back
    <2> HIDE DEF q
    <2> QED
        BY <2>1, <2>3, <2>4 DEF f
<1> QED
    BY <1>2, <1>3

\* A rejection, or an error of the card.
LEMMA RejectedOf ==
    ASSUME NEW r \in Outcomes
    PROVE  LET q == Rejected(r) IN
           /\ q \in Outcomes
           /\ "isRstingUsim" \notin r.flags =>
                 /\ q.reset /\ q.state = "IDLE" /\ "isRstingUsim" \in q.flags /\ Back(q)
                 /\ Same(q.flags, r.flags, Moved \union {"isRstingUsim"})
<1> DEFINE f == r.flags \ {"isMifiConnected"}
           m == [r EXCEPT !.flags = f]
           l == Released(m)
<1>1. f \in SUBSET Flags /\ Same(f, r.flags, {"isMifiConnected"})
    BY Fields DEF Same
<1>2. m \in Outcomes /\ m.flags = f
    <2> HIDE DEF f
    <2> QED
        BY <1>1, WithFlags
<1> HIDE DEF m, f
<1>3. l \in Outcomes /\ Only(l, m) /\ Back(l)
    BY <1>2, ReleasedOf
<1>4. {"id", "report"} \in SUBSET Deeds
    BY DEF Deeds
<1>5. Rejected(r) = ResetsUsim(l, {"id", "report"})
    BY DEF Rejected, l, m, f
<1> HIDE DEF l
<1>6. /\ Rejected(r) \in Outcomes
      /\ "isRstingUsim" \notin l.flags =>
            /\ Rejected(r).reset /\ Rejected(r).state = "IDLE"
            /\ Rejected(r).flags = l.flags \union {"isRstingUsim"}
            /\ Back(Rejected(r))
    BY <1>3, <1>4, <1>5, ResetsUsimOf
<1>7. Same(l.flags, r.flags, Moved) /\ ("isRstingUsim" \in l.flags <=> "isRstingUsim" \in r.flags)
    BY <1>1, <1>2, <1>3 DEF Only, Same, Moved
<1> QED
    BY <1>6, <1>7 DEF Same

\* The state of an outcome is replaced.
LEMMA WithState ==
    ASSUME NEW r \in Outcomes, NEW x \in States
    PROVE  LET q == [r EXCEPT !.state = x] IN
           /\ q \in Outcomes /\ q.state = x /\ q.flags = r.flags /\ q.reset = r.reset
           /\ q.then = r.then /\ (Back(r) => Back(q))
BY DEF Outcomes, Back

\* The flags that go with a reset for a poor signal.
Poor == {"isRegOffForPoorSig", "isNeedToSendIDMsg", "isRstingUsim"}

\* q is what has been decided, without a reset of the USIM.
Stays(q, r) ==
    /\ q.reset = r.reset /\ q.then = r.then
    /\ Same(q.flags, r.flags, Moved)
    /\ ~modem.registered /\ Unset(r.flags) => Unset(q.flags)
    /\ Back(r) => Back(q)

\* q has the USIM reset.
Restarts(q, r) ==
    /\ q.reset /\ q.state = "IDLE" /\ "isRstingUsim" \in q.flags /\ Back(q)
    /\ Same(q.flags, r.flags, Moved \union Poor)

\* The network is lost.
LEMMA HandleFailOf ==
    ASSUME NEW r \in Outcomes, NEW q \in handle_FAIL(r), reg_urc_state \in States
    PROVE  /\ q \in Outcomes
           /\ "isRstingUsim" \notin r.flags /\ ~may.good_signal =>
                 \/ Restarts(q, r)
                 \/ Stays(q, r) /\ q.state = "REJECTED_15" /\ Back(q)
<1> DEFINE x == r.flags \union {"isRegOffForPoorSig", "isNeedToSendIDMsg"}
           poor == Reported(x)
           y == [r EXCEPT !.flags = poor]
           d == Doubted(y, TRUE)
           q1 == Rejected([r EXCEPT !.state = "REJECTED"])
           q2 == Released([r EXCEPT !.state = "REJECTED_15"])
           q3 == ResetsUsim(d, {})
           q4 == [r EXCEPT !.state = reg_urc_state]
<1>1. q \in {q1, q2, q3} \/ (may.good_signal /\ q = q4)
    BY DEF handle_FAIL
<1>2. {"REJECTED", "REJECTED_15"} \subseteq States /\ {} \in SUBSET Deeds
    BY DEF States
<1>3. CASE q = q1
    <2>1. LET w == [r EXCEPT !.state = "REJECTED"] IN w \in Outcomes /\ w.flags = r.flags
        BY <1>2, WithState
    <2>2. /\ q1 \in Outcomes
          /\ "isRstingUsim" \notin r.flags =>
                 /\ q1.reset /\ q1.state = "IDLE" /\ "isRstingUsim" \in q1.flags /\ Back(q1)
                 /\ Same(q1.flags, r.flags, Moved \union {"isRstingUsim"})
        BY <2>1, RejectedOf
    <2> HIDE DEF q1
    <2> QED
        BY <1>3, <2>2 DEF Restarts, Same, Poor
<1>4. CASE q = q2
    <2> DEFINE w == [r EXCEPT !.state = "REJECTED_15"]
    <2>1. /\ w \in Outcomes /\ w.state = "REJECTED_15" /\ w.flags = r.flags /\ w.reset = r.reset
          /\ w.then = r.then
        BY <1>2, WithState
    <2> HIDE DEF w
    <2>2. Released(w) \in Outcomes /\ Only(Released(w), w) /\ Back(Released(w))
        BY <2>1, ReleasedOf
    <2>3. q = Released(w)
        BY <1>4 DEF w
    <2> QED
        BY <2>1, <2>2, <2>3 DEF Stays, Only, Same, Moved, Unset
<1>5. CASE q = q3
    <2>1. x \in SUBSET Flags /\ Same(x, r.flags, Poor)
        BY Fields DEF Flags, Same, Poor
    <2> HIDE DEF x
    <2>2. poor \in SUBSET Flags /\ Same(poor, x, {"isRegOn", "isMifiConnected"})
        BY <2>1, ReportedOf
    <2> HIDE DEF poor
    <2>3. y \in Outcomes /\ y.flags = poor
        BY <2>2, WithFlags
    <2> HIDE DEF y
    <2>4. d \in Outcomes /\ Only(d, y) /\ Back(d)
        BY <2>3, DoubtedOf
    <2> HIDE DEF d
    <2>5. /\ q3 \in Outcomes
          /\ "isRstingUsim" \notin d.flags =>
                 q3.reset /\ q3.state = "IDLE" /\ q3.flags = d.flags \union {"isRstingUsim"} /\ Back(q3)
        BY <1>2, <2>4, ResetsUsimOf
    <2>6. Same(d.flags, r.flags, Moved \union Poor)
        BY <2>1, <2>2, <2>3, <2>4 DEF Only, Same, Moved, Poor
    <2>7. "isRstingUsim" \in d.flags <=> "isRstingUsim" \in r.flags
        <3>1. "isRstingUsim" \in x <=> "isRstingUsim" \in r.flags
            BY DEF x
        <3> QED
            BY <2>2, <2>3, <2>4, <3>1 DEF Only, Same
    <2>8. Same(d.flags \union {"isRstingUsim"}, r.flags, Moved \union Poor)
        BY <2>6 DEF Same, Poor
    <2> HIDE DEF q3
    <2> QED
        BY <1>5, <2>5, <2>7, <2>8 DEF Restarts
<1>6. CASE may.good_signal /\ q = q4
    BY <1>6, WithState
<1> QED
    BY <1>1, <1>3, <1>4, <1>5, <1>6

\* What the reports amount to is acted on.
LEMMA HandleOf ==
    ASSUME NEW r \in Outcomes, NEW q \in handle_reg_urc_state_var(r), reg_urc_state \in States
    PROVE  /\ q \in Outcomes
           /\ /\ "isRstingUsim" \notin r.flags /\ ~may.good_signal
              /\ reg_urc_state \notin {"CARD_ERROR", "REJECTED"}
              =>
                 \/ /\ Restarts(q, r)
                    /\ r.state # reg_urc_state /\ r.state \in {"CARD_ERROR", "REJECTED", "FAIL"}
                 \/ /\ Stays(q, r)
                    /\ q.state \notin {"CARD_ERROR", "REJECTED"}
                    /\ q.state = r.state \/ (r.state = "FAIL" /\ q.state = "REJECTED_15")
                    /\ r.state # reg_urc_state /\ r.state \in {"FAIL", "REJECTED_15", "REJECTED_111"}
                       => Back(q)
<1>1. Stays(r, r)
    BY DEF Stays, Same
<1>2. CASE r.state = reg_urc_state \/ r.state \in {"IDLE", "CARD_READY", "NOT_REGISTERED"}
    <2>1. CASE r.state = reg_urc_state
        <3>1. q = r
            BY <2>1 DEF handle_reg_urc_state_var
        <3> QED
            BY <1>1, <2>1, <3>1
    <2>2. CASE r.state # reg_urc_state /\ r.state \in {"IDLE", "CARD_READY", "NOT_REGISTERED"}
        <3>1. q = r
            BY <2>2 DEF handle_reg_urc_state_var
        <3> QED
            BY <1>1, <2>2, <3>1
    <2> QED
        BY <1>2, <2>1, <2>2
<1>3. CASE r.state # reg_urc_state /\ r.state \in {"CARD_ERROR", "REJECTED"}
    <2>1. q = Rejected(r)
        BY <1>3 DEF handle_reg_urc_state_var
    <2> QED
        BY <1>3, <2>1, RejectedOf DEF Restarts, Same, Poor
<1>4. CASE r.state # reg_urc_state /\ r.state = "REGISTERED"
    <2> DEFINE f == Reported(r.flags)
    <2>1. q = [r EXCEPT !.flags = f]
        BY <1>4 DEF handle_reg_urc_state_var
    <2>2. f \in SUBSET Flags /\ Same(f, r.flags, Moved) /\ (~modem.registered => Unset(f))
          /\ ("isTermSuspNow" \in r.flags => "isTermSuspNow" \in f)
        BY Fields, ReportedOf DEF Same, Moved, Unset
    <2> HIDE DEF f
    <2>3. /\ q \in Outcomes /\ q.flags = f /\ q.state = r.state /\ q.c = r.c /\ q.resume = r.resume
          /\ q.reset = r.reset /\ q.then = r.then
        BY <2>1, <2>2, WithFlags
    <2>4. Back(r) => Back(q)
        BY <2>2, <2>3 DEF Back
    <2> QED
        BY <1>4, <2>2, <2>3, <2>4 DEF Stays
<1>5. CASE r.state # reg_urc_state /\ r.state \in {"REJECTED_15", "REJECTED_111"}
    <2>1. q = Released(r)
        BY <1>5 DEF handle_reg_urc_state_var
    <2>2. q \in Outcomes /\ Only(q, r) /\ Back(q)
        BY <2>1, ReleasedOf
    <2> QED
        BY <1>5, <2>2 DEF Stays, Only, Same, Moved, Unset
<1>6. CASE r.state # reg_urc_state /\ r.state = "FAIL"
    <2>1. q \in handle_FAIL(r)
        BY <1>6 DEF handle_reg_urc_state_var
    <2> QED
        BY <1>6, <2>1, HandleFailOf
<1>7. r.state \in States
    BY Fields
<1> QED
    BY <1>2, <1>3, <1>4, <1>5, <1>6, <1>7 DEF States

\* The status is reported.
LEMMA UploadOf ==
    ASSUME NEW r \in Outcomes
    PROVE  /\ need_to_upload_stat_inf(r) \in SUBSET Flags
           /\ Same(need_to_upload_stat_inf(r), r.flags, {"isRegOn", "isMifiConnected"})
           /\ ~modem.registered /\ Unset(r.flags) => Unset(need_to_upload_stat_inf(r))
<1>1. need_to_upload_stat_inf(r) \in {r.flags, Reported(r.flags)}
    BY DEF need_to_upload_stat_inf
<1>2. r.flags \in SUBSET Flags
    BY Fields
<1> QED
    BY <1>1, <1>2, ReportedOf DEF Same, Unset

-----------------------------------------------------------------------------
(* Types.                                                                  *)

Pcs == [Listener : {"select", "reset_uim", "session_illegal", "rebooted"},
        EvtLoop : {"loop", "reset_uim", "timed_out"}, then : SUBSET Deeds]

Modems == [power : {"on", "going_down", "off"}, registered : BOOLEAN]

\* The types, as the provers need them.
LEMMA Facts ==
    ASSUME TypeOK
    PROVE  /\ modem \in Modems /\ wire \in Seq(Lines) /\ URC_array \in Seq(Lines \ {"REST"})
           /\ Len(URC_array) <= MAX_URC_ARRAY_LEN /\ MAX_URC_ARRAY_LEN \in Nat \ {0}
           /\ urc_fragment \in (Lines \ {"REST"}) \union {"none"}
           /\ reg_urc_state \in States /\ ChannelNum \in -1..4
           /\ resume \in BOOLEAN /\ flags \in SUBSET Flags /\ pc \in Pcs
           /\ uim_sender \in BOOLEAN /\ isUimRstOperCplt \in BOOLEAN
           /\ may \in Cases /\ may.says \subseteq Losses \union Specials \union {"SYS_MODE", "OTHER"}
           /\ may.urcs \in Nat /\ may.timeouts \in Nat
           /\ left.urcs \in 0..may.urcs /\ left.timeouts \in 0..may.timeouts
<1>1. left.may \in Cases /\ left.urcs \in 0..may.urcs /\ left.timeouts \in 0..may.timeouts
    BY DEF TypeOK
<1> QED
    BY <1>1, RegistrationAssumption DEF TypeOK, Pcs, Modems, Deeds, may

\* A step that leaves Cases, and takes something that may still come, keeps the types.
LEMMA TypeFrom ==
    ASSUME TypeOK,
           modem' \in Modems, wire' \in Seq(Lines), URC_array' \in Seq(Lines \ {"REST"}),
           Len(URC_array') <= MAX_URC_ARRAY_LEN,
           urc_fragment' \in (Lines \ {"REST"}) \union {"none"},
           reg_urc_state' \in States, ChannelNum' \in -1..4, resume' \in BOOLEAN,
           flags' \in SUBSET Flags, pc' \in Pcs, uim_sender' \in BOOLEAN,
           isUimRstOperCplt' \in BOOLEAN,
           \/ left' = left
           \/ left.urcs > 0 /\ left' = [left EXCEPT !.urcs = left.urcs - 1]
           \/ left.timeouts > 0 /\ left' = [left EXCEPT !.timeouts = left.timeouts - 1]
    PROVE  TypeOK' /\ may' = may
<1>1. /\ left \in [may : Cases, urcs : 0..may.urcs, timeouts : 0..may.timeouts]
      /\ may.urcs \in Nat /\ may.timeouts \in Nat
    BY Facts DEF TypeOK
<1>2. /\ left' \in [may : Cases, urcs : 0..may.urcs, timeouts : 0..may.timeouts]
      /\ left'.may = left.may
    <2>1. CASE left' = left
        BY <1>1, <2>1
    <2>2. CASE left.urcs > 0 /\ left' = [left EXCEPT !.urcs = left.urcs - 1]
        BY <1>1, <2>2
    <2>3. CASE left.timeouts > 0 /\ left' = [left EXCEPT !.timeouts = left.timeouts - 1]
        BY <1>1, <2>3
    <2> QED
        BY <2>1, <2>2, <2>3
<1>3. may' = may /\ Lines' = Lines
    BY <1>2 DEF may, Lines
<1> QED
    BY <1>2, <1>3 DEF TypeOK, Modems, Pcs, Deeds

\* The first states have the types.
LEMMA TypeInit ==
    ASSUME Init
    PROVE  TypeOK
<1>1. PICK c \in Cases : left = [may |-> c, urcs |-> c.urcs, timeouts |-> c.timeouts]
    BY DEF Init
<1>2. c.urcs \in Nat /\ c.timeouts \in Nat /\ MAX_URC_ARRAY_LEN \in Nat \ {0} /\ may = c
    BY <1>1, RegistrationAssumption DEF may
<1>3. left \in [may : Cases, urcs : 0..may.urcs, timeouts : 0..may.timeouts]
    BY <1>1, <1>2
<1>4. "CARD_READY" \in Lines
    BY DEF Lines
<1>5. <<"CARD_READY">> \in Seq(Lines) /\ <<>> \in Seq(Lines \ {"REST"}) /\ Len(<<>>) <= MAX_URC_ARRAY_LEN
    BY <1>2, <1>4
<1>6. pc \in [Listener : {"select", "reset_uim", "session_illegal", "rebooted"},
              EvtLoop : {"loop", "reset_uim", "timed_out"},
              then : SUBSET {"id", "report", "resume"}]
    BY DEF Init
<1>7. /\ wire \in Seq(Lines) /\ URC_array \in Seq(Lines \ {"REST"})
      /\ Len(URC_array) <= MAX_URC_ARRAY_LEN /\ urc_fragment = "none"
    BY <1>5, Zenon DEF Init
<1>8. modem \in [power : {"on", "going_down", "off"}, registered : BOOLEAN]
    BY DEF Init
<1>9. reg_urc_state \in States
    BY DEF Init, States
<1>10. ChannelNum \in -1..4
    <2>1. ChannelNum = 0
        BY DEF Init
    <2> QED
        BY <2>1
<1>11. resume = FALSE /\ flags = {} /\ uim_sender = FALSE /\ isUimRstOperCplt = FALSE
    BY Zenon DEF Init
<1> QED
    BY <1>3, <1>6, <1>7, <1>8, <1>9, <1>10, <1>11 DEF TypeOK

\* mdmImodem reports.
LEMMA SaysTypes ==
    ASSUME TypeOK, NEW line \in Lines, NEW m \in Modems, Says(line, m),
           \/ left' = left
           \/ left.urcs > 0 /\ left' = [left EXCEPT !.urcs = left.urcs - 1]
    PROVE  TypeOK' /\ may' = may
<1>1. Append(wire, line) \in Seq(Lines)
    BY Facts
<1> QED
    BY <1>1, Facts, TypeFrom DEF Says

\* The three ways it does.
LEMMA ModemTypes ==
    ASSUME TypeOK, Registers \/ Reports \/ PowersDown
    PROVE  TypeOK' /\ may' = may
<1>1. modem \in Modems
    BY Facts
<1>2. CASE Registers
    <2>1. "REG" \in Lines /\ [modem EXCEPT !.registered = TRUE] \in Modems
        BY <1>1 DEF Lines, Modems
    <2> QED
        BY <1>2, <2>1, SaysTypes DEF Registers
<1>3. CASE Reports
    <2>1. PICK u \in may.says :
              Says(u, [power |-> IF u = "NOT_AVAILABLE" THEN "off" ELSE modem.power,
                       registered |-> modem.registered /\ u \in {"SYS_MODE", "OTHER"}])
        BY <1>3 DEF Reports
    <2>2. [power |-> IF u = "NOT_AVAILABLE" THEN "off" ELSE modem.power,
           registered |-> modem.registered /\ u \in {"SYS_MODE", "OTHER"}] \in Modems
        BY <1>1 DEF Modems
    <2>3. left.urcs > 0 /\ left' = [left EXCEPT !.urcs = left.urcs - 1]
        BY <1>3 DEF Reports
    <2> QED
        BY <2>1, <2>2, <2>3, SaysTypes DEF Lines
<1>4. CASE PowersDown
    <2>1. "NOT_AVAILABLE" \in Lines /\ [power |-> "off", registered |-> FALSE] \in Modems
        BY DEF Lines, Modems
    <2> QED
        BY <1>4, <2>1, SaysTypes DEF PowersDown
<1> QED
    BY <1>2, <1>3, <1>4

\* What the lines of n reports are: a sequence of lines without a REST.
LEMMA LinesOfTypes ==
    ASSUME TypeOK, NEW n \in 1..Len(wire), NEW cut \in BOOLEAN
    PROVE  /\ LinesOf(n, cut) \in Seq(Lines \ {"REST"})
           /\ Len(LinesOf(n, cut)) = IF cut THEN n - 1 ELSE n
<1> DEFINE m == IF cut THEN n - 1 ELSE n
<1>1. /\ wire \in Seq(Lines) /\ Len(wire) \in Nat
      /\ urc_fragment \in (Lines \ {"REST"}) \union {"none"} /\ "OTHER" \in Lines \ {"REST"}
    BY Facts DEF Lines
<1>2. m \in Nat /\ m <= Len(wire)
    BY <1>1
<1> HIDE DEF m
<1> DEFINE t(i) == IF wire[i] # "REST" THEN wire[i]
                   ELSE IF urc_fragment # "none" THEN urc_fragment ELSE "OTHER"
<1>3. \A i \in 1..m : t(i) \in Lines \ {"REST"}
    <2> TAKE i \in 1..m
    <2>1. i \in 1..Len(wire)
        BY <1>1, <1>2
    <2>2. wire[i] \in Lines
        BY <1>1, <2>1
    <2> QED
        BY <1>1, <2>2
<1>4. LinesOf(n, cut) = [i \in 1..m |-> t(i)]
    BY DEF LinesOf, m
<1> HIDE DEF t
<1>5. [i \in 1..m |-> t(i)] \in Seq(Lines \ {"REST"}) /\ Len([i \in 1..m |-> t(i)]) = m
    BY <1>2, <1>3
<1> QED
    BY <1>4, <1>5 DEF m

\* What is put into the array when the bytes are counted to the end.
LEMMA CountedTypes ==
    ASSUME TypeOK, NEW n \in 1..Len(wire), NEW cut \in BOOLEAN
    PROVE  LET p == Counted(n, cut) IN
           /\ Kept \in Seq(Lines \ {"REST"}) /\ Kept \o LinesOf(n, cut) \in Seq(Lines \ {"REST"})
           /\ p.lines \in Seq(Lines \ {"REST"}) /\ Len(p.lines) <= MAX_URC_ARRAY_LEN
           /\ Len(Kept \o LinesOf(n, cut)) <= MAX_URC_ARRAY_LEN =>
                 p.lines = Kept \o LinesOf(n, cut) /\ p.full = FALSE
<1> DEFINE S == Lines \ {"REST"}
           l == LinesOf(n, cut)
           all == Kept \o l
           M == MAX_URC_ARRAY_LEN
           e == IF Len(all) > M THEN M ELSE Len(all)
<1>1. URC_array \in Seq(S) /\ M \in Nat \ {0} /\ l \in Seq(S)
    BY Facts, LinesOfTypes
<1> HIDE DEF S, l, M
<1>2. Kept \in Seq(S)
    BY <1>1 DEF Kept
<1>3. all \in Seq(S) /\ Len(all) \in Nat
    BY <1>1, <1>2
<1> HIDE DEF all
<1>4. e \in 0..Len(all) /\ e <= M
    BY <1>1, <1>3
<1> HIDE DEF e
<1>5. SubSeq(all, 1, e) \in Seq(S) /\ Len(SubSeq(all, 1, e)) = e
    BY <1>3, <1>4
<1> DEFINE b == Len(all) > M
           h == SubSeq(all, 1, e)
<1>6. Counted(n, cut) = [lines |-> h, full |-> b]
    BY DEF Counted, all, l, e, M
<1>7. Len(all) <= M => e = Len(all) /\ ~(Len(all) > M)
    BY <1>1, <1>3 DEF e
<1>8. SubSeq(all, 1, Len(all)) = all
    BY <1>3
<1> DEFINE p == Counted(n, cut)
<1>9. p.lines = SubSeq(all, 1, e) /\ p.full = b
    <2> HIDE DEF b, h
    <2>1. p.lines = h /\ p.full = b
        BY <1>6
    <2> QED
        BY <2>1 DEF h
<1> HIDE DEF p
<1>10. p.lines \in Seq(S) /\ Len(p.lines) <= M
    BY <1>4, <1>5, <1>9
<1>11. Len(all) <= M => p.lines = all /\ p.full = FALSE
    <2> SUFFICES ASSUME Len(all) <= M PROVE p.lines = all /\ p.full = FALSE
        OBVIOUS
    <2>1. p.lines = SubSeq(all, 1, Len(all))
        BY <1>7, <1>9, Zenon
    <2>2. p.full = FALSE
        <3>1. b = FALSE
            BY <1>7
        <3> QED
            BY <1>9, <3>1, Zenon
    <2> QED
        BY <1>8, <2>1, <2>2, Zenon
<1> QED
    BY <1>2, <1>3, <1>10, <1>11, Zenon DEF all, l, S, M, p

\* What the first part of a report is taken for is a line.
LEMMA MisreadTypes ==
    ASSUME NEW u \in Lines \ {"REST"}
    PROVE  Misread(u) \subseteq Lines \ {"REST"}
<1>1. {"OTHER", "FAIL", "CARD_ERROR"} \subseteq Lines \ {"REST"}
    BY DEF Lines
<1> QED
    BY <1>1 DEF Misread

\* What is put into the array when they are not.
LEMMA OverrunTypes ==
    ASSUME TypeOK, NEW n \in 1..Len(wire), NEW cut \in BOOLEAN, cut => wire[n] # "REST",
           NEW p \in Overrun(n, cut)
    PROVE  p.lines \in Seq(Lines \ {"REST"}) /\ Len(p.lines) <= MAX_URC_ARRAY_LEN
<1> DEFINE S == Lines \ {"REST"}
           M == MAX_URC_ARRAY_LEN
           old == Kept \o LinesOf(n, cut)
           V == IF cut THEN Misread(wire[n]) ELSE {"OTHER"}
<1>1. M \in Nat /\ wire[n] \in Lines /\ "OTHER" \in S /\ old \in Seq(S)
    <2>1. M \in Nat /\ wire \in Seq(Lines)
        BY Facts
    <2>2. wire[n] \in Lines
        <3> HIDE DEF M, S, old
        <3> QED
            BY <2>1
    <2>3. "OTHER" \in S
        BY DEF Lines
    <2>4. old \in Seq(S)
        BY CountedTypes
    <2> QED
        BY <2>1, <2>2, <2>3, <2>4
<1>2. V \subseteq S
    <2>1. cut => Misread(wire[n]) \subseteq S
        BY <1>1, MisreadTypes
    <2> QED
        BY <1>1, <2>1
<1> DEFINE whole(u) == [i \in 1..M |-> IF i <= Len(Kept \o LinesOf(n, cut) \o <<u>>)
                                       THEN (Kept \o LinesOf(n, cut) \o <<u>>)[i] ELSE "OTHER"]
<1>3. PICK u \in V : p = [lines |-> whole(u), full |-> TRUE]
    BY DEF Overrun
<1> DEFINE all == old \o <<u>>
<1>4. u \in S
    BY <1>2, <1>3
<1>5. whole(u) = [i \in 1..M |-> IF i <= Len(all) THEN all[i] ELSE "OTHER"]
    OBVIOUS
<1>6. p.lines = whole(u)
    <2> HIDE DEF whole
    <2> QED
        BY <1>3
<1> HIDE DEF S, M, old, V, whole
<1>7. all \in Seq(S)
    BY <1>1, <1>4
<1> HIDE DEF all
<1>8. \A i \in 1..M : (IF i <= Len(all) THEN all[i] ELSE "OTHER") \in S
    BY <1>1, <1>7
<1>9. whole(u) \in Seq(S) /\ Len(whole(u)) = M
    <2> DEFINE t(i) == IF i <= Len(all) THEN all[i] ELSE "OTHER"
    <2>1. \A i \in 1..M : t(i) \in S
        BY <1>8
    <2>2. whole(u) = [i \in 1..M |-> t(i)]
        BY <1>5
    <2> HIDE DEF t
    <2>3. [i \in 1..M |-> t(i)] \in Seq(S) /\ Len([i \in 1..M |-> t(i)]) = M
        BY <1>1, <2>1
    <2> QED
        BY <2>2, <2>3
<1>10. p.lines \in Seq(S) /\ Len(p.lines) <= M
    BY <1>1, <1>6, <1>9
<1> QED
    BY <1>10 DEF S, M

\* What is put into the array.
LEMMA ParseTypes ==
    ASSUME TypeOK, NEW n \in 1..Len(wire), NEW cut \in BOOLEAN, cut => wire[n] # "REST",
           NEW p \in parse_raw_URC_data(n, cut)
    PROVE  p.lines \in Seq(Lines \ {"REST"}) /\ Len(p.lines) <= MAX_URC_ARRAY_LEN
<1>1. p = Counted(n, cut) \/ p \in Overrun(n, cut)
    BY DEF parse_raw_URC_data
<1>2. CASE p = Counted(n, cut)
    BY <1>2, CountedTypes
<1>3. CASE p \in Overrun(n, cut)
    BY <1>3, OverrunTypes
<1> QED
    BY <1>1, <1>2, <1>3

\* What is left on the wire.
LEMMA WireTypes ==
    ASSUME TypeOK, NEW n \in 1..Len(wire), NEW cut \in BOOLEAN
    PROVE  (IF cut THEN <<"REST">> ELSE <<>>) \o SubSeq(wire, n + 1, Len(wire)) \in Seq(Lines)
<1>1. wire \in Seq(Lines) /\ "REST" \in Lines
    BY Facts DEF Lines
<1>2. SubSeq(wire, n + 1, Len(wire)) \in Seq(Lines)
    BY <1>1
<1>3. (IF cut THEN <<"REST">> ELSE <<>>) \in Seq(Lines)
    BY <1>1
<1> QED
    BY <1>2, <1>3

\* The fragment.
LEMMA FragmentTypes ==
    ASSUME TypeOK, NEW n \in 1..Len(wire), NEW cut \in BOOLEAN, cut => wire[n] # "REST", NEW full
    PROVE  Fragment(n, cut, full) \in (Lines \ {"REST"}) \union {"none"}
<1>1. wire[n] \in Lines
    BY Facts
<1> QED
    BY <1>1, Facts DEF Fragment

\* The USIM is reset for a session that is illegal.
LEMMA SessionIllegalTypes ==
    ASSUME TypeOK, NEW f \in SUBSET Flags, SessionIllegal(f)
    PROVE  /\ urc_fragment' = "none" /\ reg_urc_state' \in States
           /\ ChannelNum' \in -1..4 /\ resume' \in BOOLEAN /\ flags' \in SUBSET Flags
           /\ pc' \in Pcs /\ uim_sender' \in BOOLEAN
<1>1. ChannelNum \in -1..4 /\ resume \in BOOLEAN /\ pc \in Pcs
    BY Facts
<1>2. [pc EXCEPT !.Listener = "session_illegal", !.then = {"id", "resume"}] \in Pcs
    BY <1>1 DEF Pcs, Deeds
<1>3. f \union {"isRstingUsim"} \in SUBSET Flags
    BY DEF Flags
<1> QED
    BY <1>1, <1>2, <1>3 DEF SessionIllegal, States

\* The reports are handled.
LEMMA HandledTypes ==
    ASSUME TypeOK, NEW f \in SUBSET Flags, NEW lines, Len(lines) \in Nat, NEW fragment,
           Handled(lines, f, fragment)
    PROVE  /\ urc_fragment' = fragment /\ reg_urc_state' \in States
           /\ ChannelNum' \in -1..4 /\ resume' \in BOOLEAN /\ flags' \in SUBSET Flags
           /\ pc' \in Pcs /\ uim_sender' \in BOOLEAN
<1>1. /\ reg_urc_state \in States /\ ChannelNum \in -1..4 /\ resume \in BOOLEAN
      /\ pc \in Pcs /\ uim_sender \in BOOLEAN
    BY Facts
<1> DEFINE p == process_URC_array_v01(lines, f)
           resumes(r) == IF r.resume THEN {"resume"} ELSE {}
           new(r) == [pc EXCEPT !.Listener = "reset_uim", !.then = r.then \union resumes(r)]
<1>2. p \in Outcomes
    <2>1. PICK a : Folds(a, lines, f)
        BY <1>1, FoldOf
    <2>2. Len(lines) \in 0..Len(lines)
        OBVIOUS
    <2> QED
        BY <2>1, <2>2 DEF Folds
<1>3. PICK r \in handle_reg_urc_state_var(p) :
          /\ reg_urc_state' = r.state /\ ChannelNum' = r.c
          /\ flags' = need_to_upload_stat_inf(r)
          /\ urc_fragment' = fragment
          /\ pc' = IF r.reset THEN new(r) ELSE pc
          /\ resume' = (resume \/ p.resume \/ (r.resume /\ ~r.reset))
          /\ uim_sender' = (uim_sender \/ r.reset)
    BY DEF Handled
<1> HIDE DEF p
<1>4. r \in Outcomes
    BY <1>1, <1>2, HandleOf
<1>5. r.then \in SUBSET Deeds /\ r.state \in States /\ r.c \in -1..4
    BY <1>4, Fields
<1>6. new(r) \in Pcs
    BY <1>1, <1>5 DEF Pcs, Deeds
<1>7. need_to_upload_stat_inf(r) \in SUBSET Flags
    BY <1>4, UploadOf
<1>8. resume' \in BOOLEAN /\ uim_sender' \in BOOLEAN
    BY <1>3
<1> HIDE DEF new
<1>9. pc' \in Pcs
    BY <1>1, <1>3, <1>6
<1> QED
    BY <1>3, <1>5, <1>7, <1>8, <1>9

\* The reports are looked through, and acted on.
LEMMA CheckedTypes ==
    ASSUME TypeOK, NEW lines \in Seq(Lines \ {"REST"}),
           NEW fragment \in (Lines \ {"REST"}) \union {"none"}, Checked(lines, fragment)
    PROVE  /\ urc_fragment' \in {fragment, "none", urc_fragment} /\ reg_urc_state' \in States
           /\ ChannelNum' \in -1..4 /\ resume' \in BOOLEAN /\ flags' \in SUBSET Flags
           /\ pc' \in Pcs /\ uim_sender' \in BOOLEAN
<1> DEFINE Seen(u) == \E i \in DOMAIN lines : lines[i] = u
           f == IF Seen("NOT_AVAILABLE") THEN flags \union {"not_available_mark"} ELSE flags
           na == lines # <<>> /\ "not_available_mark" \in f
           Known == /\ urc_fragment' \in {fragment, "none", urc_fragment} /\ reg_urc_state' \in States
                    /\ ChannelNum' \in -1..4 /\ resume' \in BOOLEAN /\ flags' \in SUBSET Flags
                    /\ pc' \in Pcs /\ uim_sender' \in BOOLEAN
           si == IF na THEN NotAvailable(f) \union {"isSessIllegalRecved"} ELSE f
<1>1. /\ reg_urc_state \in States /\ ChannelNum \in -1..4 /\ resume \in BOOLEAN
      /\ flags \in SUBSET Flags /\ pc \in Pcs /\ uim_sender \in BOOLEAN
    BY Facts
<1>2. f \in SUBSET Flags
    BY <1>1 DEF Flags
<1>3. NotAvailable(f) \in SUBSET Flags
    BY <1>2 DEF NotAvailable, Flags
<1>4. si \in SUBSET Flags
    BY <1>2, <1>3 DEF Flags
<1>5. f \ {"isSessIllegalRecved"} \in SUBSET Flags
    BY <1>2
<1>6. \/ Reboots
      \/ SessionIllegal(si)
      \/ Ignored(NotAvailable(f), "none")
      \/ Ignored(f \ {"isSessIllegalRecved"}, "none")
      \/ Ignored(f, "none")
      \/ Ignored(f, fragment)
      \/ Handled(lines, f, fragment)
    BY DEF Checked
<1> HIDE DEF f, na, si, Seen
<1>7. ASSUME NEW g \in SUBSET Flags, NEW x \in {fragment, "none"}, Ignored(g, x)
      PROVE  Known
    BY <1>1, <1>7 DEF Ignored
<1>8. CASE Reboots
    <2>1. [pc EXCEPT !.Listener = "rebooted"] \in Pcs
        BY <1>1 DEF Pcs
    <2> QED
        BY <1>1, <1>8, <2>1 DEF Reboots
<1>9. CASE SessionIllegal(si)
    BY <1>4, <1>9, SessionIllegalTypes
<1>10. CASE Handled(lines, f, fragment)
    <2>1. Len(lines) \in Nat
        OBVIOUS
    <2> QED
        BY <1>2, <1>10, <2>1, HandledTypes
<1> QED
    BY <1>2, <1>3, <1>5, <1>6, <1>7, <1>8, <1>9, <1>10

\* A read, taken apart.
LEMMA ReadOf ==
    ASSUME TypeOK, urc_parse_hdlr
    PROVE  \E n \in 1..Len(wire), cut \in BOOLEAN :
           \E p \in parse_raw_URC_data(n, cut) :
               /\ cut => wire[n] # "REST"
               /\ wire' = (IF cut THEN <<"REST">> ELSE <<>>) \o SubSeq(wire, n + 1, Len(wire))
               /\ URC_array' = p.lines
               /\ Checked(p.lines, Fragment(n, cut, p.full))
BY DEF urc_parse_hdlr

\* A read when there is room: its bytes are counted to the end.
LEMMA CountedRead ==
    ASSUME TypeOK, Room, urc_parse_hdlr
    PROVE  \E n \in 1..Len(wire), cut \in BOOLEAN :
               LET p == Counted(n, cut) IN
               /\ cut => wire[n] # "REST"
               /\ wire' = (IF cut THEN <<"REST">> ELSE <<>>) \o SubSeq(wire, n + 1, Len(wire))
               /\ URC_array' = p.lines
               /\ Checked(p.lines, Fragment(n, cut, p.full))
<1>0. PICK n \in 1..Len(wire), cut \in BOOLEAN : \E p \in parse_raw_URC_data(n, cut) :
          /\ cut => wire[n] # "REST"
          /\ wire' = (IF cut THEN <<"REST">> ELSE <<>>) \o SubSeq(wire, n + 1, Len(wire))
          /\ URC_array' = p.lines
          /\ Checked(p.lines, Fragment(n, cut, p.full))
    BY ReadOf
<1>1. PICK p \in parse_raw_URC_data(n, cut) :
          /\ cut => wire[n] # "REST"
          /\ wire' = (IF cut THEN <<"REST">> ELSE <<>>) \o SubSeq(wire, n + 1, Len(wire))
          /\ URC_array' = p.lines
          /\ Checked(p.lines, Fragment(n, cut, p.full))
    BY <1>0
<1>2. ~(n > CHAR_REPORTS)
    <2>1. Len(wire) \in Nat /\ CHAR_REPORTS \in Nat
        BY Facts, RegistrationAssumption
    <2> QED
        BY <2>1 DEF Room
<1>3. p = Counted(n, cut)
    BY <1>2 DEF parse_raw_URC_data
<1> QED
    BY <1>1, <1>3

\* It keeps the types.
LEMMA ReadTypes ==
    ASSUME TypeOK, urc_parse_hdlr
    PROVE  TypeOK' /\ may' = may
<1>0. PICK n \in 1..Len(wire), cut \in BOOLEAN : \E p \in parse_raw_URC_data(n, cut) :
          /\ cut => wire[n] # "REST"
          /\ wire' = (IF cut THEN <<"REST">> ELSE <<>>) \o SubSeq(wire, n + 1, Len(wire))
          /\ URC_array' = p.lines
          /\ Checked(p.lines, Fragment(n, cut, p.full))
    BY ReadOf
<1>1. PICK p \in parse_raw_URC_data(n, cut) :
          /\ cut => wire[n] # "REST"
          /\ wire' = (IF cut THEN <<"REST">> ELSE <<>>) \o SubSeq(wire, n + 1, Len(wire))
          /\ URC_array' = p.lines
          /\ Checked(p.lines, Fragment(n, cut, p.full))
    BY <1>0
<1> DEFINE x == Fragment(n, cut, p.full)
<1>2. wire' \in Seq(Lines)
    BY <1>1, WireTypes
<1>3. p.lines \in Seq(Lines \ {"REST"}) /\ Len(p.lines) <= MAX_URC_ARRAY_LEN
    BY <1>1, ParseTypes
<1>4. x \in (Lines \ {"REST"}) \union {"none"}
    BY <1>1, FragmentTypes
<1>5. Checked(p.lines, x) /\ URC_array' = p.lines
    BY <1>1
<1> HIDE DEF x
<1>6. /\ urc_fragment' \in {x, "none", urc_fragment} /\ reg_urc_state' \in States
      /\ ChannelNum' \in -1..4 /\ resume' \in BOOLEAN /\ flags' \in SUBSET Flags
      /\ pc' \in Pcs /\ uim_sender' \in BOOLEAN
    BY <1>3, <1>4, <1>5, CheckedTypes
<1>7. /\ modem' \in Modems /\ isUimRstOperCplt' \in BOOLEAN /\ left' = left
      /\ urc_fragment \in (Lines \ {"REST"}) \union {"none"}
    BY Facts DEF urc_parse_hdlr
<1> QED
    BY <1>2, <1>3, <1>4, <1>5, <1>6, <1>7, TypeFrom

\* The other steps of the Listener, and those of UimSender, do.
LEMMA UsimTypes ==
    ASSUME TypeOK, UsimReset \/ mifi_status_hdlr \/ UimSender
    PROVE  TypeOK' /\ may' = may
<1>1. modem \in Modems /\ pc \in Pcs /\ flags \in SUBSET Flags
    BY Facts
<1>2. CASE UsimReset
    <2>1. [pc EXCEPT !.Listener = "select", !.then = {}] \in Pcs
        BY <1>1 DEF Pcs
    <2>2. AtTheEnd(flags, pc.then) \in SUBSET Flags
        BY <1>1, AtTheEndOf
    <2> QED
        BY <1>2, <2>1, <2>2, Facts, TypeFrom DEF UsimReset
<1>3. CASE mifi_status_hdlr
    <2>1. flags \union {"isMifiConnected"} \in SUBSET Flags /\ 3 \in -1..4
        BY <1>1 DEF Flags
    <2> QED
        BY <1>3, <2>1, Facts, TypeFrom DEF mifi_status_hdlr
<1>4. CASE UimSender
    <2>1. flags \union {"isAutoReprotPowerDown"} \in SUBSET Flags
        BY <1>1 DEF Flags
    <2>2. (IF modem.power = "on" THEN [modem EXCEPT !.power = "going_down"] ELSE modem) \in Modems
        BY <1>1 DEF Modems
    <2> QED
        BY <1>4, <2>1, <2>2, Facts, TypeFrom DEF UimSender
<1> QED
    BY <1>2, <1>3, <1>4

\* The steps of EvtLoop that have to do with an APDU and the ID do.
LEMMA EvtLoopTypes ==
    ASSUME TypeOK, ApduRsp_timeout_ext_cb \/ AfterTimeout \/ IdAnswered
    PROVE  TypeOK' /\ may' = may
<1>1. /\ modem \in Modems /\ pc \in Pcs /\ flags \in SUBSET Flags /\ wire \in Seq(Lines)
      /\ ChannelNum \in -1..4
    BY Facts
<1>2. CASE ApduRsp_timeout_ext_cb
    <2>1. /\ flags \union {"isEnableManualApdu"} \in SUBSET Flags
          /\ flags \union {"isEnableManualApdu", "isRegOffForPoorSig", "isNeedToSendIDMsg",
                           "isRstingUsim"} \in SUBSET Flags
        BY <1>1 DEF Flags
    <2>2. flags' \in SUBSET Flags
        BY <1>2, <2>1 DEF ApduRsp_timeout_ext_cb
    <2>3. [pc EXCEPT !.EvtLoop = IF Has("isRstingUsim") THEN "timed_out" ELSE "reset_uim"] \in Pcs
        BY <1>1 DEF Pcs
    <2>4. pc' \in Pcs /\ reg_urc_state' \in States /\ uim_sender' \in BOOLEAN
        BY <1>2, <2>3, Facts DEF ApduRsp_timeout_ext_cb, States
    <2>5. left.timeouts > 0 /\ left' = [left EXCEPT !.timeouts = left.timeouts - 1]
        BY <1>2 DEF ApduRsp_timeout_ext_cb
    <2> QED
        BY <1>2, <2>2, <2>4, <2>5, Facts, TypeFrom DEF ApduRsp_timeout_ext_cb
<1>3. CASE AfterTimeout
    <2>1. [pc EXCEPT !.EvtLoop = "loop"] \in Pcs
        BY <1>1 DEF Pcs
    <2>2. ChannelNum' \in -1..4
        <3>1. ChannelNum' \in {0, -1, ChannelNum}
            BY <1>3 DEF AfterTimeout
        <3> QED
            BY <1>1, <3>1
    <2>3. /\ flags \ {"not_available_mark"} \in SUBSET Flags
          /\ flags \union {"PowerUpUsimAfterRecvingUrcRpt"} \in SUBSET Flags
        BY <1>1 DEF Flags
    <2>4. flags' \in SUBSET Flags /\ resume' \in BOOLEAN /\ isUimRstOperCplt' \in BOOLEAN
        BY <1>1, <1>3, <2>3, Facts DEF AfterTimeout
    <2> QED
        BY <1>3, <2>1, <2>2, <2>4, Facts, TypeFrom DEF AfterTimeout
<1>4. CASE IdAnswered
    <2>1. flags' \in SUBSET Flags
        BY <1>1, <1>4 DEF IdAnswered, power_up_virtual_usim
    <2>2. modem' \in Modems
        <3>1. [modem EXCEPT !.power = "on"] \in Modems
            BY <1>1 DEF Modems
        <3> QED
            BY <1>1, <1>4, <3>1 DEF IdAnswered, power_up_virtual_usim
    <2>3. wire' \in Seq(Lines)
        <3>1. "CARD_READY" \in Lines
            BY DEF Lines
        <3>2. Append(wire, "CARD_READY") \in Seq(Lines)
            BY <1>1, <3>1
        <3> QED
            BY <1>1, <1>4, <3>2 DEF IdAnswered, power_up_virtual_usim
    <2> QED
        BY <1>4, <2>1, <2>2, <2>3, Facts, TypeFrom DEF IdAnswered
<1> QED
    BY <1>2, <1>3, <1>4

\* EvtLoop changes ChannelNum.
LEMMA MovesTypes ==
    ASSUME TypeOK, NEW c \in -1..4, NEW f \in SUBSET Flags, EvtLoopMoves(c, f), resume' \in BOOLEAN
    PROVE  TypeOK' /\ may' = may
BY Facts, TypeFrom DEF EvtLoopMoves

\* The recovery of mdmEmodem, and the moves of the traffic, do.
LEMMA ChannelTypes ==
    ASSUME TypeOK, Resumes \/ Recovered \/ HandsOver
    PROVE  TypeOK' /\ may' = may
<1>1. flags \in SUBSET Flags /\ resume \in BOOLEAN
    BY Facts
<1>2. /\ flags \union {"isTermSuspNow"} \in SUBSET Flags
      /\ flags \union {"PowerUpUsimAfterRecvingUrcRpt"} \in SUBSET Flags
      /\ flags \ {"isTermRcvrNow"} \in SUBSET Flags /\ flags \ {"isTermSuspNow"} \in SUBSET Flags
    BY <1>1 DEF Flags
<1>3. {-1, 0, 1, 2, 3, 4} \subseteq -1..4
    OBVIOUS
<1>4. CASE Resumes
    <2>1. resume' \in BOOLEAN
        BY <1>4 DEF Resumes
    <2> QED
        BY <1>1, <1>2, <1>3, <1>4, <2>1, MovesTypes DEF Resumes
<1>5. CASE Recovered
    <2>1. resume' \in BOOLEAN
        BY <1>1, <1>5 DEF Recovered
    <2> QED
        BY <1>1, <1>2, <1>3, <1>5, <2>1, MovesTypes DEF Recovered
<1>6. CASE HandsOver
    <2>1. resume' \in BOOLEAN
        BY <1>1, <1>6 DEF HandsOver
    <2> QED
        BY <1>1, <1>2, <1>3, <1>6, <2>1, MovesTypes DEF HandsOver
<1> QED
    BY <1>4, <1>5, <1>6

\* Every step does, and leaves the case as it is.
LEMMA TypeNext ==
    ASSUME TypeOK, [Next]_vars
    PROVE  TypeOK' /\ may' = may
<1>1. CASE Next
    BY <1>1, ModemTypes, ReadTypes, UsimTypes, EvtLoopTypes, ChannelTypes DEF Next
<1>2. CASE UNCHANGED vars
    BY <1>2 DEF vars, TypeOK, Lines, may
<1> QED
    BY <1>1, <1>2

\* TypeOK: a read leaves nothing in URC_array but lines, and no more of them than it has
\* room for; reg_urc_state and ChannelNum stay what the program names.
THEOREM TypeCorrect == Spec => []TypeOK
<1>1. Init => TypeOK
    BY TypeInit
<1>2. TypeOK /\ [Next]_vars => TypeOK'
    BY TypeNext
<1> QED
    BY <1>1, <1>2, PTL DEF Spec

-----------------------------------------------------------------------------
(* While mdmImodem is silent: the inductive invariant.                     *)

\* A report that was not read, whole or the first part of it.
Unread(i) == IF wire[i] = "REST" THEN urc_fragment ELSE wire[i]
Unheard == [i \in 1..Len(wire) |-> Unread(i)]

\* The last report of s that is not harmless is one of S; there is none.
Decided(s, S) ==
    \E j \in 1..Len(s) : s[j] \in S /\ \A k \in (j + 1)..Len(s) : s[k] \in Harmless
Calm(s) == \A j \in 1..Len(s) : s[j] \in Harmless

Lost == Losses \union {"SESSION_ILLEGAL"}

\* The traffic is with mdmEmodem, or will be.
Asked ==
    resume \/ (pc.Listener \in {"reset_uim", "session_illegal"} /\ "resume" \in pc.then)
Taken == Asked \/ ChannelNum \in {-1, 0} \/ (ChannelNum = 2 /\ Has("isTermSuspNow"))

\* A report comes in two parts, the first of which is the fragment.
Cut == urc_fragment # "none" <=> wire # <<>> /\ wire[1] = "REST"
Whole == \A i \in 1..Len(wire) : wire[i] = "REST" => i = 1

Abnormal == {"isUimPwrDwn", "not_available_mark", "isEnableManualApdu", "isRegOffForPoorSig",
             "isSessIllegalRecved"}

NoReset ==
    /\ modem.power = "on" /\ ~uim_sender /\ pc.EvtLoop = "loop"
    /\ \A f \in Abnormal : f \notin flags
    /\ Cut /\ Whole
    /\ \A i \in 1..Len(wire) :
          Unread(i) # "NOT_AVAILABLE" /\ (Unread(i) \in Fatal => i = Len(wire))
    /\ \A i \in 1..Len(Kept) : Kept[i] \notin Fatal \union {"NOT_AVAILABLE"}
    /\ reg_urc_state \notin {"CARD_ERROR", "REJECTED"}
    /\ reg_urc_state = "IDLE" => wire # <<>> /\ Unread(1) = "CARD_READY" /\ Kept = <<>>
    /\ modem.registered =>
          \/ Decided(Unheard, {"REG"})
          \/ /\ Calm(Unheard) /\ reg_urc_state = "REGISTERED"
             /\ Calm(Kept) \/ Decided(Kept, {"REG"})
    /\ ~modem.registered =>
          \/ Decided(Unheard, Lost)
          \/ /\ Calm(Unheard) /\ reg_urc_state # "REGISTERED"
             /\ Calm(Kept) \/ Decided(Kept, Lost)
    /\ ~modem.registered /\ Answered /\ Calm(Unheard) /\ reg_urc_state # "IDLE" => Unset(flags)
    /\ reg_urc_state # "REGISTERED" /\ Answered => Taken

InReset ==
    /\ uim_sender <=> modem.power = "on"
    /\ modem.power # "on" => Has("isAutoReprotPowerDown")
    /\ modem.power = "off" => ~modem.registered
    /\ Has("not_available_mark") => Has("isUimPwrDwn")
    /\ Has("isUimPwrDwn") => modem.power = "off" /\ wire = <<>> /\ urc_fragment = "none"
    /\ ~Has("isSessIllegalRecved")
    /\ Whole
    /\ \A i \in 1..Len(wire) :
          Unread(i) = "NOT_AVAILABLE" => i = Len(wire) /\ modem.power = "off"
    /\ \A i \in 1..Len(Kept) : Kept[i] # "NOT_AVAILABLE"
    /\ reg_urc_state \in {"IDLE", "FAIL"}
    /\ Has("isEnableManualApdu") => ~Answered
    /\ \/ Has("isEnableManualApdu")
       \/ /\ Cut /\ Kept = <<>>
          /\ wire = <<>> \/ (Len(wire) = 1 /\ Unread(1) = "NOT_AVAILABLE")
    /\ Answered => reg_urc_state = "IDLE" /\ ~modem.registered /\ Taken /\ pc.EvtLoop = "loop"

CalmInv == Silent => IF Has("isRstingUsim") THEN InReset ELSE NoReset

-----------------------------------------------------------------------------
(* A batch of reports.                                                     *)

\* What a report that resets nothing makes of the state.
LEMMA NextStateFacts ==
    ASSUME NEW u, NEW s \in States, s \notin {"CARD_ERROR", "REJECTED"},
           u \notin Fatal, ~may.good_signal
    PROVE  LET t == NextState(u, s) IN
           /\ t \in States /\ t \notin {"CARD_ERROR", "REJECTED"}
           /\ s # "IDLE" => t # "IDLE"
           /\ s = "IDLE" /\ u = "CARD_READY" => t = "CARD_READY"
           /\ u \in Harmless /\ s # "IDLE" => t = s
           /\ u = "REG" /\ s # "IDLE" => t = "REGISTERED"
           /\ u \in Losses => t # "REGISTERED"
           /\ t = "FAIL" => s = "FAIL"
           /\ \/ t \in {"REGISTERED", "REJECTED_15", "REJECTED_111"} \/ t = s
              \/ u \in {"REJ_V03", "SEARCHING"} \/ s = "IDLE"
<1>1. u \notin {"CARD_ERROR", "REJ_V01", "SESSION_ILLEGAL", "FAIL"}
    BY DEF Fatal
<1>2. u \in Losses => u \in {"SEARCHING", "REJ_V03", "REJ_V02", "REJ_V04"}
    BY <1>1 DEF Losses, Rejections
<1>3. s \in {"IDLE", "CARD_READY", "REGISTERED", "NOT_REGISTERED", "FAIL", "REJECTED_15",
             "REJECTED_111"}
    BY DEF States
<1> DEFINE t == NextState(u, s)
<1>4. t \in States
    BY NextStateOf
<1>5. /\ t \notin {"CARD_ERROR", "REJECTED"}
      /\ s # "IDLE" => t # "IDLE"
      /\ s = "IDLE" /\ u = "CARD_READY" => t = "CARD_READY"
      /\ u \in Harmless /\ s # "IDLE" => t = s
      /\ u = "REG" /\ s # "IDLE" => t = "REGISTERED"
      /\ t = "FAIL" => s = "FAIL"
    BY <1>1, <1>3 DEF NextState, Harmless
<1>6. u \in Losses => t # "REGISTERED"
    BY <1>2, <1>3 DEF NextState
<1>7. \/ t \in {"REGISTERED", "REJECTED_15", "REJECTED_111"} \/ t = s
      \/ u \in {"REJ_V03", "SEARCHING"} \/ s = "IDLE"
    BY <1>1, <1>3 DEF NextState
<1> QED
    BY <1>4, <1>5, <1>6, <1>7

\* None of the first k reports resets the USIM.
Clean(s, k) == \A i \in 1..k : s[i] \notin Fatal

\* What stays true while they are handled.
Going(r, f, k) ==
    /\ ~r.stop /\ ~r.reset /\ r.then = {} /\ r.state \notin {"CARD_ERROR", "REJECTED"}
    /\ Same(r.flags, f, Moved)
    /\ Back(Base(f)) => Back(r)
    /\ (reg_urc_state # "REGISTERED" => Back(Base(f))) =>
          r.state \in {"REGISTERED", "REJECTED_15", "REJECTED_111"} \/ Back(r)
    /\ k > 0 => r.state # "IDLE"
    /\ r.state = "FAIL" => reg_urc_state = "FAIL"

\* As long as none of them does.
LEMMA FoldClean ==
    ASSUME NEW a, NEW lines, NEW f \in SUBSET Flags, Folds(a, lines, f), Len(lines) \in Nat,
           ~may.good_signal, reg_urc_state \notin {"CARD_ERROR", "REJECTED"},
           reg_urc_state = "IDLE" /\ Len(lines) > 0 => lines[1] = "CARD_READY",
           NEW m \in 0..Len(lines), Clean(lines, m)
    PROVE  Going(a[m], f, m)
<1> DEFINE n == Len(lines)
           T == {k \in Nat : k <= m => Going(a[k], f, k)}
<1>1. a \in [0..n -> Outcomes] /\ a[0] = Base(f)
      /\ \A k \in 1..n : a[k] = process_URC(a[k - 1], lines[k])
    BY DEF Folds
<1>2. 0 \in T
    <2>1. Going(a[0], f, 0)
        BY <1>1 DEF Base, Going, Same
    <2> QED
        BY <2>1
<1>3. ASSUME NEW k \in Nat, k \in T PROVE k + 1 \in T
    <2> SUFFICES ASSUME k + 1 <= m PROVE Going(a[k + 1], f, k + 1)
        OBVIOUS
    <2> DEFINE r == a[k]
               u == lines[k + 1]
               p == process_URC(r, u)
    <2>1. k \in 0..n /\ k + 1 \in 1..n /\ (k + 1) - 1 = k /\ k <= m /\ k + 1 \in 1..m
        OBVIOUS
    <2>2. r \in Outcomes /\ Going(r, f, k) /\ a[k + 1] = p
        BY <1>1, <1>3, <2>1
    <2>3. u \notin Fatal
        BY <2>1 DEF Clean
    <2>4. u \notin {"CARD_ERROR", "REJ_V01"}
        BY <2>3 DEF Fatal
    <2>5. k = 0 => r.state = reg_urc_state
        BY <1>1 DEF Base
    <2>6. r.state = "IDLE" => u = "CARD_READY"
        <3>1. r.state = "IDLE" => k = 0
            BY <2>2 DEF Going
        <3> QED
            BY <2>1, <2>5, <3>1
    <2> HIDE DEF r, u, p
    <2>7. r.state \in States /\ r.state \notin {"CARD_ERROR", "REJECTED"} /\ ~r.stop
        BY <2>2, Fields DEF Going
    <2>8. /\ p \in Outcomes /\ p.reset = r.reset /\ p.then = r.then
          /\ p.state = NextState(u, r.state)
          /\ p.stop <=> u \in {"CARD_ERROR", "REJ_V01"}
          /\ Same(p.flags, r.flags, Moved)
          /\ u \in {"REJ_V03", "SEARCHING"} \/ Back(r) => Back(p)
        BY <2>2, <2>7, ProcessOf DEF p
    <2>9. LET t == NextState(u, r.state) IN
          /\ t \notin {"CARD_ERROR", "REJECTED"}
          /\ r.state # "IDLE" => t # "IDLE"
          /\ r.state = "IDLE" /\ u = "CARD_READY" => t = "CARD_READY"
          /\ t = "FAIL" => r.state = "FAIL"
          /\ \/ t \in {"REGISTERED", "REJECTED_15", "REJECTED_111"} \/ t = r.state
             \/ u \in {"REJ_V03", "SEARCHING"} \/ r.state = "IDLE"
        BY <2>3, <2>7, NextStateFacts
    <2>10. /\ p.state # "IDLE" /\ p.state \notin {"CARD_ERROR", "REJECTED"}
           /\ p.state = "FAIL" => reg_urc_state = "FAIL"
        BY <2>2, <2>6, <2>8, <2>9 DEF Going
    <2>11. ~p.stop /\ ~p.reset /\ p.then = {} /\ Same(p.flags, f, Moved)
        BY <2>2, <2>4, <2>8 DEF Going, Same
    <2>12. Back(Base(f)) => Back(p)
        BY <2>2, <2>8 DEF Going
    <2>13. ASSUME reg_urc_state # "REGISTERED" => Back(Base(f))
           PROVE  p.state \in {"REGISTERED", "REJECTED_15", "REJECTED_111"} \/ Back(p)
        <3>1. r.state \in {"REGISTERED", "REJECTED_15", "REJECTED_111"} \/ Back(r)
            BY <2>2, <2>13 DEF Going
        <3>2. r.state = "IDLE" => Back(r)
            BY <3>1
        <3> QED
            BY <2>8, <2>9, <3>1, <3>2
    <2> QED
        BY <2>2, <2>10, <2>11, <2>12, <2>13 DEF Going
<1>4. m \in T
    <2>1. Nat \subseteq T
        <3> HIDE DEF T
        <3> QED
            BY <1>2, <1>3, SetInduction
    <2> QED
        BY <2>1
<1> QED
    BY <1>4

\* Harmless reports change nothing once the card is ready.
LEMMA FoldTail ==
    ASSUME NEW a, NEW lines, NEW f \in SUBSET Flags, Folds(a, lines, f), Len(lines) \in Nat,
           ~may.good_signal, NEW j \in 0..Len(lines),
           ~a[j].stop, a[j].state \notin {"CARD_ERROR", "REJECTED", "IDLE"},
           \A k \in (j + 1)..Len(lines) : lines[k] \in Harmless
    PROVE  LET r == a[Len(lines)] IN
           /\ r.state = a[j].state
           /\ ~modem.registered /\ Unset(a[j].flags) => Unset(r.flags)
<1> DEFINE n == Len(lines)
           Kind(r) == /\ ~r.stop /\ r.state = a[j].state
                      /\ ~modem.registered /\ Unset(a[j].flags) => Unset(r.flags)
           T == {k \in Nat : j + k <= n => Kind(a[j + k])}
<1>1. a \in [0..n -> Outcomes] /\ \A k \in 1..n : a[k] = process_URC(a[k - 1], lines[k])
    BY DEF Folds
<1>2. 0 \in T
    OBVIOUS
<1>3. ASSUME NEW k \in Nat, k \in T PROVE k + 1 \in T
    <2> SUFFICES ASSUME j + (k + 1) <= n PROVE Kind(a[j + (k + 1)])
        OBVIOUS
    <2> DEFINE i == j + k
               r == a[i]
               u == lines[i + 1]
               p == process_URC(r, u)
    <2>1. i \in 0..n /\ i + 1 \in 1..n /\ (i + 1) - 1 = i /\ j + k <= n /\ j + (k + 1) = i + 1
          /\ i + 1 \in (j + 1)..n
        OBVIOUS
    <2>2. r \in Outcomes /\ Kind(r) /\ a[i + 1] = p
        BY <1>1, <1>3, <2>1
    <2>3. u \in Harmless
        BY <2>1
    <2> HIDE DEF i, r, u, p
    <2>4. u \notin Fatal /\ u \notin {"CARD_ERROR", "REJ_V01"}
        BY <2>3 DEF Fatal, Harmless
    <2>5. r.state \in States /\ r.state \notin {"CARD_ERROR", "REJECTED", "IDLE"} /\ ~r.stop
        BY <2>2, Fields
    <2>6. /\ p.state = NextState(u, r.state)
          /\ p.stop <=> u \in {"CARD_ERROR", "REJ_V01"}
          /\ u \in Harmless /\ ~modem.registered /\ Unset(r.flags) => Unset(p.flags)
        BY <2>2, <2>5, ProcessOf DEF p
    <2>7. NextState(u, r.state) = r.state
        BY <2>3, <2>4, <2>5, NextStateFacts
    <2>8. Kind(p)
        BY <2>2, <2>3, <2>4, <2>6, <2>7
    <2> QED
        BY <2>1, <2>2, <2>8
<1>4. n - j \in T
    <2>1. Nat \subseteq T
        <3> HIDE DEF T
        <3> QED
            BY <1>2, <1>3, SetInduction
    <2> QED
        BY <2>1
<1>5. j + (n - j) = n /\ n \in Nat
    OBVIOUS
<1>6. Kind(a[n])
    BY <1>4, <1>5
<1> QED
    BY <1>6

\* The last report of the batch that is not harmless is a registration, or a loss.
LEMMA FoldDecided ==
    ASSUME NEW a, NEW lines, NEW f \in SUBSET Flags, Folds(a, lines, f), Len(lines) \in Nat,
           ~may.good_signal, reg_urc_state \in States \ {"CARD_ERROR", "REJECTED"},
           reg_urc_state = "IDLE" /\ Len(lines) > 0 => lines[1] = "CARD_READY",
           Clean(lines, Len(lines))
    PROVE  LET r == a[Len(lines)] IN
           /\ Decided(lines, {"REG"}) => r.state = "REGISTERED"
           /\ Decided(lines, Lost) =>
                 r.state # "REGISTERED" /\ (~modem.registered => Unset(r.flags))
<1> DEFINE n == Len(lines)
<1>1. a \in [0..n -> Outcomes] /\ a[0] = Base(f)
      /\ \A k \in 1..n : a[k] = process_URC(a[k - 1], lines[k])
    BY DEF Folds
<1>2. ASSUME NEW j \in 1..n, lines[j] \in Lost \union {"REG"},
             \A k \in (j + 1)..n : lines[k] \in Harmless
      PROVE  /\ lines[j] = "REG" => a[n].state = "REGISTERED"
             /\ lines[j] \in Lost => a[n].state # "REGISTERED" /\ (~modem.registered => Unset(a[n].flags))
    <2> DEFINE r == a[j - 1]
               u == lines[j]
               p == process_URC(r, u)
    <2>1. j - 1 \in 0..n /\ j \in 0..n /\ (\A i \in 1..(j - 1) : i \in 1..n) /\ \A i \in 1..j : i \in 1..n
        OBVIOUS
    <2>2. Clean(lines, j - 1) /\ Clean(lines, j) /\ u \notin Fatal
        BY <2>1 DEF Clean
    <2>3. Going(r, f, j - 1) /\ Going(a[j], f, j)
        BY <2>1, <2>2, FoldClean
    <2>4. r \in Outcomes /\ a[j] = p
        BY <1>1, <2>1
    <2>5. r.state = "IDLE" => u = "CARD_READY"
        <3>1. r.state = "IDLE" => j = 1
            BY <2>3 DEF Going
        <3>2. j = 1 => r.state = reg_urc_state
            BY <1>1 DEF Base
        <3>3. n > 0
            OBVIOUS
        <3> QED
            BY <3>1, <3>2, <3>3
    <2>6. u = "REG" \/ (u \in Losses /\ u # "REG" /\ u # "CARD_READY")
        BY <1>2, <2>2 DEF Lost, Fatal, Losses, Rejections
    <2>7. r.state # "IDLE" /\ (u \in Lost => u \in Losses)
        BY <2>5, <2>6 DEF Lost, Losses, Rejections
    <2>8. ~a[j].stop /\ a[j].state \notin {"CARD_ERROR", "REJECTED", "IDLE"}
        BY <2>3 DEF Going
    <2> HIDE DEF r, u, p, n
    <2>9. r.state \in States /\ r.state \notin {"CARD_ERROR", "REJECTED"} /\ ~r.stop
        BY <2>3, <2>4, Fields DEF Going
    <2>10. /\ p.state = NextState(u, r.state)
           /\ u \in Losses /\ r.state # "REJECTED" => Unset(p.flags)
        BY <2>4, <2>9, ProcessOf DEF p
    <2>11. /\ u = "REG" => NextState(u, r.state) = "REGISTERED"
           /\ u \in Losses => NextState(u, r.state) # "REGISTERED"
        BY <2>2, <2>7, <2>9, NextStateFacts
    <2>12. /\ a[n].state = a[j].state
           /\ ~modem.registered /\ Unset(a[j].flags) => Unset(a[n].flags)
        BY <1>2, <2>1, <2>8, FoldTail DEF n
    <2>13. /\ u = "REG" => a[n].state = "REGISTERED"
           /\ u \in Lost => a[n].state # "REGISTERED" /\ (~modem.registered => Unset(a[n].flags))
        BY <2>4, <2>7, <2>9, <2>10, <2>11, <2>12
    <2> QED
        BY <2>13 DEF u
<1>3. ASSUME Decided(lines, {"REG"}) PROVE a[n].state = "REGISTERED"
    <2>1. PICK j \in 1..n : lines[j] = "REG" /\ \A k \in (j + 1)..n : lines[k] \in Harmless
        BY <1>3 DEF Decided
    <2> QED
        BY <1>2, <2>1
<1>4. ASSUME Decided(lines, Lost)
      PROVE  a[n].state # "REGISTERED" /\ (~modem.registered => Unset(a[n].flags))
    <2>1. PICK j \in 1..n : lines[j] \in Lost /\ \A k \in (j + 1)..n : lines[k] \in Harmless
        BY <1>4 DEF Decided
    <2> QED
        BY <1>2, <2>1
<1> QED
    BY <1>3, <1>4

\* All reports of the batch are harmless.
LEMMA FoldCalm ==
    ASSUME NEW a, NEW lines, NEW f \in SUBSET Flags, Folds(a, lines, f), Len(lines) \in Nat,
           ~may.good_signal, reg_urc_state \in States \ {"CARD_ERROR", "REJECTED"}, Calm(lines)
    PROVE  LET r == a[Len(lines)] IN
           /\ reg_urc_state # "IDLE" =>
                 r.state = reg_urc_state /\ (~modem.registered /\ Unset(f) => Unset(r.flags))
           /\ reg_urc_state = "IDLE" /\ Len(lines) > 0 /\ lines[1] = "CARD_READY" =>
                 r.state = "CARD_READY" /\ (~modem.registered => Unset(r.flags))
<1> DEFINE n == Len(lines)
<1>1. a \in [0..n -> Outcomes] /\ a[0] = Base(f)
      /\ \A k \in 1..n : a[k] = process_URC(a[k - 1], lines[k])
    BY DEF Folds
<1>2. a[0].state = reg_urc_state /\ a[0].flags = f /\ ~a[0].stop /\ a[0] \in Outcomes
    <2>1. 0 \in 0..n
        OBVIOUS
    <2>2. a[0] \in Outcomes
        BY <1>1, <2>1
    <2>3. a[0].state = reg_urc_state /\ a[0].flags = f /\ a[0].stop = FALSE
        BY <1>1 DEF Base
    <2> QED
        BY <2>2, <2>3
<1>3. ASSUME reg_urc_state # "IDLE"
      PROVE  a[n].state = reg_urc_state /\ (~modem.registered /\ Unset(f) => Unset(a[n].flags))
    <2>1. 0 \in 0..n /\ \A k \in (0 + 1)..n : lines[k] \in Harmless
        BY DEF Calm
    <2>2. a[0].state \notin {"CARD_ERROR", "REJECTED", "IDLE"}
        BY <1>2, <1>3
    <2>3. /\ a[n].state = a[0].state
          /\ ~modem.registered /\ Unset(a[0].flags) => Unset(a[n].flags)
        BY <1>2, <2>1, <2>2, FoldTail
    <2> QED
        BY <1>2, <2>3
<1>4. ASSUME reg_urc_state = "IDLE", n > 0, lines[1] = "CARD_READY"
      PROVE  a[n].state = "CARD_READY" /\ (~modem.registered => Unset(a[n].flags))
    <2> DEFINE p == process_URC(a[0], "CARD_READY")
    <2>1. 1 \in 1..n /\ 1 - 1 = 0 /\ 1 \in 0..n
        BY <1>4
    <2>2. a[1] = p
        BY <1>1, <1>4, <2>1
    <2>3. /\ p.state = NextState("CARD_READY", a[0].state)
          /\ p.stop <=> "CARD_READY" \in {"CARD_ERROR", "REJ_V01"}
          /\ a[0].state = "IDLE" /\ ~modem.registered => Unset(p.flags)
        BY <1>2, ProcessOf
    <2> HIDE DEF p
    <2>4. "CARD_READY" \notin Fatal
        BY DEF Fatal
    <2>5. NextState("CARD_READY", "IDLE") = "CARD_READY"
        BY DEF NextState
    <2>6. p.state = "CARD_READY" /\ ~p.stop /\ (~modem.registered => Unset(p.flags))
        BY <1>2, <1>4, <2>3, <2>5
    <2>7. \A k \in (1 + 1)..n : lines[k] \in Harmless
        BY DEF Calm
    <2>8. ~a[1].stop /\ a[1].state \notin {"CARD_ERROR", "REJECTED", "IDLE"}
        BY <2>2, <2>6
    <2>9. /\ a[n].state = a[1].state
          /\ ~modem.registered /\ Unset(a[1].flags) => Unset(a[n].flags)
        BY <2>1, <2>7, <2>8, FoldTail
    <2> QED
        BY <2>2, <2>6, <2>9
<1> QED
    BY <1>3, <1>4

\* What a batch amounts to, if nothing but its last report may reset the USIM.
Batch(r, lines, f) ==
    /\ r \in Outcomes /\ ~r.reset /\ Same(r.flags, f, Moved)
    /\ Back(Base(f)) => Back(r)
    /\ (reg_urc_state # "REGISTERED" => Back(Base(f))) =>
          \/ r.state \in {"REGISTERED", "REJECTED_15", "REJECTED_111"} \/ Back(r)
          \/ r.state \in {"CARD_ERROR", "REJECTED", "FAIL"} /\ r.state # reg_urc_state
    /\ Len(lines) > 0 => r.state # "IDLE"
    /\ r.state \in {"CARD_ERROR", "REJECTED", "FAIL"} /\ r.state # reg_urc_state =>
          ~Clean(lines, Len(lines))
    /\ Decided(lines, {"REG"}) => r.state = "REGISTERED"
    /\ Decided(lines, Lost) => r.state # "REGISTERED" /\ (~modem.registered => Unset(r.flags))
    /\ Calm(lines) /\ reg_urc_state # "IDLE" =>
          r.state = reg_urc_state /\ (~modem.registered /\ Unset(f) => Unset(r.flags))
    /\ Calm(lines) /\ reg_urc_state = "IDLE" /\ Len(lines) > 0 =>
          r.state # "REGISTERED" /\ (~modem.registered => Unset(r.flags))

\* The batch does.
LEMMA BatchOf ==
    ASSUME NEW lines, NEW f \in SUBSET Flags, Len(lines) \in Nat,
           ~may.good_signal, reg_urc_state \in States \ {"CARD_ERROR", "REJECTED"},
           ChannelNum \in -1..4,
           reg_urc_state = "IDLE" /\ Len(lines) > 0 => lines[1] = "CARD_READY",
           \A i \in 1..Len(lines) :
               lines[i] # "SESSION_ILLEGAL" /\ (lines[i] \in Fatal => i = Len(lines))
    PROVE  Batch(process_URC_array_v01(lines, f), lines, f)
<1> DEFINE n == Len(lines)
<1>1. PICK a : Folds(a, lines, f)
    BY FoldOf
<1>2. /\ a \in [0..n -> Outcomes] /\ a[0] = Base(f)
      /\ \A k \in 1..n : a[k] = process_URC(a[k - 1], lines[k])
      /\ process_URC_array_v01(lines, f) = a[n]
    BY <1>1 DEF Folds
<1>3. a[n] \in Outcomes
    <2>1. n \in 0..n
        OBVIOUS
    <2> QED
        BY <1>2, <2>1
<1>4. CASE Clean(lines, n)
    <2>1. Going(a[n], f, n)
        <3>1. n \in 0..n
            OBVIOUS
        <3> QED
            BY <1>1, <1>4, <3>1, FoldClean
    <2>2. /\ Decided(lines, {"REG"}) => a[n].state = "REGISTERED"
          /\ Decided(lines, Lost) =>
                a[n].state # "REGISTERED" /\ (~modem.registered => Unset(a[n].flags))
        BY <1>1, <1>4, FoldDecided
    <2>3. ASSUME Calm(lines)
          PROVE  /\ reg_urc_state # "IDLE" =>
                       a[n].state = reg_urc_state /\ (~modem.registered /\ Unset(f) => Unset(a[n].flags))
                 /\ reg_urc_state = "IDLE" /\ n > 0 =>
                       a[n].state # "REGISTERED" /\ (~modem.registered => Unset(a[n].flags))
        BY <1>1, <2>3, FoldCalm
    <2> DEFINE r == a[n]
    <2> HIDE DEF r
    <2> QED
        BY <1>2, <1>3, <1>4, <2>1, <2>2, <2>3 DEF Going, Batch, r
<1>5. CASE ~Clean(lines, n)
    <2>1. n > 0 /\ lines[n] \in Fatal
        BY <1>5 DEF Clean
    <2> DEFINE r == a[n - 1]
               u == lines[n]
               p == process_URC(r, u)
    <2>2. n - 1 \in 0..n /\ n \in 1..n /\ \A i \in 1..(n - 1) : i \in 1..n /\ i # n
        BY <2>1
    <2>3. Clean(lines, n - 1)
        BY <2>2 DEF Clean
    <2>4. Going(r, f, n - 1)
        BY <1>1, <2>2, <2>3, FoldClean
    <2>5. r \in Outcomes /\ a[n] = p
        BY <1>2, <2>2
    <2>6. u \in {"CARD_ERROR", "REJ_V01", "FAIL"}
        BY <2>1, <2>2 DEF Fatal
    <2>7. r.state = "IDLE" => u = "CARD_READY"
        <3>1. r.state = "IDLE" => n - 1 = 0
            <4>1. n - 1 = 0 \/ n - 1 > 0
                <5>1. n \in Nat
                    OBVIOUS
                <5> HIDE DEF n
                <5> QED
                    BY <2>1, <5>1
            <4> HIDE DEF r
            <4> QED
                BY <2>4, <4>1 DEF Going
        <3>2. n - 1 = 0 => r.state = reg_urc_state
            <4>1. a[0].state = reg_urc_state
                BY <1>2 DEF Base
            <4>2. n - 1 = 0 => r = a[0]
                OBVIOUS
            <4> HIDE DEF r
            <4> QED
                BY <4>1, <4>2
        <3>3. n - 1 = 0 => n = 1
            OBVIOUS
        <3> QED
            BY <2>1, <3>1, <3>2, <3>3
    <2>8. ~Decided(lines, {"REG"}) /\ ~Calm(lines)
        <3>1. u \notin Harmless /\ u # "REG"
            BY <2>6 DEF Harmless
        <3>2. \A j \in 1..n : j = n \/ n \in (j + 1)..n
            OBVIOUS
        <3> QED
            BY <2>2, <3>1, <3>2 DEF Decided, Calm
    <2> HIDE DEF u, p
    <2>9. r.state \in States /\ r.state \notin {"CARD_ERROR", "REJECTED", "IDLE"} /\ ~r.stop /\ ~r.reset
        <3> HIDE DEF r
        <3> QED
            BY <2>4, <2>5, <2>6, <2>7, Fields DEF Going
    <2>10. /\ p \in Outcomes /\ p.reset = r.reset
           /\ p.state = NextState(u, r.state)
           /\ Same(p.flags, r.flags, Moved)
           /\ u \in Losses /\ r.state # "REJECTED" => Unset(p.flags)
           /\ Back(r) => Back(p)
        <3> HIDE DEF r
        <3> QED
            BY <2>5, <2>9, ProcessOf DEF p
    <2>11. /\ NextState(u, r.state) \in {"CARD_ERROR", "REJECTED", "FAIL", r.state}
           /\ NextState(u, r.state) # "REGISTERED"
        BY <2>6, <2>9 DEF NextState
    <2>12. u \in Losses
        BY <2>6 DEF Losses, Rejections
    <2>13. Unset(p.flags) /\ p.state # "IDLE" /\ p.state # "REGISTERED"
        BY <2>9, <2>10, <2>11, <2>12
    <2>14. Same(p.flags, f, Moved) /\ (Back(Base(f)) => Back(p)) /\ ~p.reset
        BY <2>4, <2>9, <2>10 DEF Going, Same
    <2>15. ASSUME reg_urc_state # "REGISTERED" => Back(Base(f))
           PROVE  \/ p.state \in {"REGISTERED", "REJECTED_15", "REJECTED_111"} \/ Back(p)
                  \/ p.state \in {"CARD_ERROR", "REJECTED", "FAIL"} /\ p.state # reg_urc_state
        <3>1. r.state \in {"REGISTERED", "REJECTED_15", "REJECTED_111"} \/ Back(r)
            BY <2>4, <2>15 DEF Going
        <3>2. CASE p.state = r.state
            BY <2>10, <3>1, <3>2
        <3>3. CASE p.state # r.state /\ p.state = reg_urc_state
            <4>1. Back(Base(f))
                BY <2>13, <2>15, <3>3
            <4> QED
                BY <2>14, <4>1
        <3>4. CASE p.state # r.state /\ p.state # reg_urc_state
            BY <2>10, <2>11, <3>4
        <3> QED
            BY <3>2, <3>3, <3>4
    <2> HIDE DEF r
    <2>16. Batch(p, lines, f)
        BY <1>5, <2>8, <2>10, <2>13, <2>14, <2>15 DEF Batch
    <2> QED
        BY <1>2, <2>5, <2>16
<1> QED
    BY <1>4, <1>5

-----------------------------------------------------------------------------
(* A read.                                                                 *)

\* How many reports of a read are complete.
Complete(n, cut) == IF cut THEN n - 1 ELSE n

\* Two sequences, one behind the other, by their places.
LEMMA JoinOf ==
    ASSUME NEW B, NEW p \in Seq(B), NEW q \in Seq(B)
    PROVE  /\ p \o q \in Seq(B) /\ Len(p \o q) = Len(p) + Len(q)
           /\ Len(p) \in Nat /\ Len(q) \in Nat
           /\ \A i \in 1..Len(p) : (p \o q)[i] = p[i]
           /\ \A i \in 1..Len(q) : (p \o q)[Len(p) + i] = q[i]
OBVIOUS

\* What is left on the wire.
Remaining(n, cut) == (IF cut THEN <<"REST">> ELSE <<>>) \o SubSeq(wire, n + 1, Len(wire))

\* Which is what comes after the reports that are complete.
LEMMA WireAfter ==
    ASSUME TypeOK, NEW n \in 1..Len(wire), NEW cut \in BOOLEAN
    PROVE  LET w == Remaining(n, cut) IN
           /\ Complete(n, cut) \in 0..Len(wire)
           /\ Len(w) = Len(wire) - Complete(n, cut)
           /\ \A i \in 1..Len(w) :
                 /\ i + Complete(n, cut) \in 1..Len(wire)
                 /\ w[i] = IF cut /\ i = 1 THEN "REST" ELSE wire[i + Complete(n, cut)]
<1> DEFINE l == Len(wire)
           t == SubSeq(wire, n + 1, l)
           w == Remaining(n, cut)
<1>1. wire \in Seq(Lines) /\ l \in Nat /\ n \in 1..l
    BY Facts
<1>2. /\ t \in Seq(Lines) /\ Len(t) = l - n
      /\ \A i \in 1..(l - n) : t[i] = wire[n + i]
    BY <1>1
<1>3. CASE cut
    <2>1. w = <<"REST">> \o t
        BY <1>3 DEF Remaining
    <2>2. <<"REST">> \in Seq({"REST"}) /\ Len(<<"REST">>) = 1 /\ <<"REST">>[1] = "REST"
        OBVIOUS
    <2> DEFINE r == <<"REST">>
    <2> HIDE DEF l, t, r, w
    <2>3. Len(r \o t) = 1 + (l - n) /\ (r \o t)[1] = "REST"
          /\ \A i \in 2..(1 + (l - n)) : (r \o t)[i] = t[i - 1]
        <3>1. r \in Seq(Lines) /\ Len(r) = 1 /\ r[1] = "REST"
            BY <2>2 DEF r, Lines
        <3>2. r \in Seq(Lines) /\ t \in Seq(Lines)
            BY <1>2, <3>1
        <3>3. Len(r \o t) = Len(r) + Len(t) /\ (r \o t)[1] = r[1]
              /\ \A i \in 1..Len(t) : (r \o t)[Len(r) + i] = t[i]
            <4>1. /\ Len(r \o t) = Len(r) + Len(t)
                  /\ \A i \in 1..Len(r) : (r \o t)[i] = r[i]
                  /\ \A i \in 1..Len(t) : (r \o t)[Len(r) + i] = t[i]
                BY <3>2, JoinOf
            <4>2. 1 \in 1..Len(r)
                BY <3>1
            <4> QED
                BY <4>1, <4>2
        <3>4. 1 + Len(t) = 1 + (l - n)
            BY <1>2
        <3>5. ASSUME NEW i \in 2..(1 + (l - n)) PROVE (r \o t)[i] = t[i - 1]
            <4>1. i - 1 \in 1..(l - n) /\ 1 + (i - 1) = i
                BY <1>1
            <4> QED
                BY <1>2, <3>1, <3>3, <4>1
        <3> QED
            BY <3>1, <3>3, <3>4, <3>5
    <2>4. \A i \in 2..(1 + (l - n)) : t[i - 1] = wire[i + (n - 1)]
        <3> TAKE i \in 2..(1 + (l - n))
        <3>1. i - 1 \in 1..(l - n) /\ n + (i - 1) = i + (n - 1)
            BY <1>1
        <3> QED
            BY <1>2, <3>1
    <2>5. Complete(n, cut) = n - 1
        BY <1>3 DEF Complete
    <2>6. Len(w) = l - (n - 1) /\ n - 1 \in 0..l
        <3>1. Len(w) = 1 + (l - n)
            BY <2>1, <2>3, Zenon DEF r
        <3>2. 1 + (l - n) = l - (n - 1) /\ n - 1 \in 0..l
            BY <1>1
        <3> QED
            BY <3>1, <3>2
    <2>7. ASSUME NEW i \in 1..(l - (n - 1))
          PROVE  i + (n - 1) \in 1..l /\ w[i] = IF i = 1 THEN "REST" ELSE wire[i + (n - 1)]
        <3>1. i + (n - 1) \in 1..l /\ (i # 1 => i \in 2..(1 + (l - n)))
            BY <1>1
        <3> QED
            BY <2>1, <2>3, <2>4, <3>1 DEF r
    <2> QED
        BY <1>3, <2>5, <2>6, <2>7 DEF l, w
<1>4. CASE ~cut
    <2>1. w = <<>> \o t
        BY <1>4 DEF Remaining
    <2>2. <<>> \o t = t
        BY <1>2
    <2>3. Complete(n, cut) = n
        BY <1>4 DEF Complete
    <2> HIDE DEF l, t, w
    <2>4. Len(w) = l - n /\ n \in 0..l
        <3>1. w = t
            BY <2>1, <2>2, Zenon
        <3>2. Len(w) = l - n
            BY <1>2, <3>1, Zenon
        <3>3. n \in 0..l
            BY <1>1
        <3> QED
            BY <3>2, <3>3
    <2>5. ASSUME NEW i \in 1..(l - n)
          PROVE  i + n \in 1..l /\ w[i] = wire[i + n]
        <3>1. n + i = i + n /\ i + n \in 1..l
            BY <1>1
        <3> QED
            BY <1>2, <2>1, <2>2, <3>1
    <2> QED
        BY <1>4, <2>3, <2>4, <2>5 DEF l, w
<1> QED
    BY <1>3, <1>4

\* The lines of a read are the reports that were not read, as long as no part is missing.
LEMMA LinesAre ==
    ASSUME TypeOK, Cut, Whole, NEW n \in 1..Len(wire), NEW cut \in BOOLEAN
    PROVE  /\ Len(LinesOf(n, cut)) = Complete(n, cut)
           /\ \A i \in 1..Complete(n, cut) : LinesOf(n, cut)[i] = Unread(i)
<1>1. wire \in Seq(Lines) /\ Len(wire) \in Nat /\ n \in 1..Len(wire)
    BY Facts
<1>2. Len(LinesOf(n, cut)) = Complete(n, cut) /\ Complete(n, cut) \in 0..Len(wire)
    <2>1. Len(LinesOf(n, cut)) = Complete(n, cut)
        BY LinesOfTypes DEF Complete
    <2>2. Complete(n, cut) \in 0..Len(wire)
        BY <1>1 DEF Complete
    <2> QED
        BY <2>1, <2>2
<1>3. ASSUME NEW i \in 1..Complete(n, cut)
      PROVE  LinesOf(n, cut)[i] = Unread(i)
    <2>1. i \in 1..(IF cut THEN n - 1 ELSE n) /\ i \in 1..Len(wire)
        BY <1>2 DEF Complete
    <2>2. wire[i] = "REST" => urc_fragment # "none"
        BY <2>1 DEF Cut, Whole
    <2>3. LinesOf(n, cut)[i] = IF wire[i] # "REST" THEN wire[i]
                               ELSE IF urc_fragment # "none" THEN urc_fragment ELSE "OTHER"
        BY <2>1 DEF LinesOf
    <2> QED
        BY <2>2, <2>3 DEF Unread
<1> QED
    BY <1>2, <1>3

\* The array, when there is room.
LEMMA ArrayIs ==
    ASSUME TypeOK, Len(Kept) + Len(wire) <= MAX_URC_ARRAY_LEN,
           NEW n \in 1..Len(wire), NEW cut \in BOOLEAN
    PROVE  LET p == Counted(n, cut) IN
           /\ p.lines = Kept \o LinesOf(n, cut) /\ p.full = FALSE
           /\ Fragment(n, cut, p.full) = IF cut THEN wire[n] ELSE "none"
           /\ Len(p.lines) = Len(Kept) + Complete(n, cut)
           /\ \A i \in 1..Len(Kept) : p.lines[i] = Kept[i]
           /\ \A i \in 1..Complete(n, cut) : p.lines[Len(Kept) + i] = LinesOf(n, cut)[i]
<1> DEFINE k == Kept
           l == LinesOf(n, cut)
           p == Counted(n, cut)
           M == MAX_URC_ARRAY_LEN
<1>1. /\ k \in Seq(Lines \ {"REST"}) /\ l \in Seq(Lines \ {"REST"})
      /\ Len(l) = Complete(n, cut)
    BY LinesOfTypes, CountedTypes DEF Complete
<1>2. Complete(n, cut) \in 0..Len(wire) /\ Len(wire) \in Nat /\ M \in Nat
    BY Facts DEF Complete
<1>3. Len(k \o l) <= M => p.lines = k \o l /\ p.full = FALSE
    BY CountedTypes
<1>4. Len(k) + Len(wire) <= M
    OBVIOUS
<1>5. Fragment(n, cut, FALSE) = IF cut THEN wire[n] ELSE "none"
    BY DEF Fragment
<1> DEFINE c == Complete(n, cut)
<1> HIDE DEF k, l, p, M, c
<1>6. /\ Len(k \o l) = Len(k) + c /\ Len(k) \in Nat
      /\ \A i \in 1..Len(k) : (k \o l)[i] = k[i]
      /\ \A i \in 1..c : (k \o l)[Len(k) + i] = l[i]
    BY <1>1, <1>2 DEF c
<1>7. Len(k \o l) <= M
    BY <1>2, <1>4, <1>6 DEF c
<1>8. p.lines = k \o l /\ p.full = FALSE
    BY <1>3, <1>7
<1>9. Fragment(n, cut, p.full) = IF cut THEN wire[n] ELSE "none"
    BY <1>5, <1>8
<1> QED
    BY <1>6, <1>8, <1>9 DEF k, l, p, c

\* What was not read stays, as it was.
LEMMA UnheardAfter ==
    ASSUME TypeOK, Cut, Whole, NEW n \in 1..Len(wire), NEW cut \in BOOLEAN,
           cut => wire[n] # "REST",
           wire' = Remaining(n, cut),
           urc_fragment' = IF cut THEN wire[n] ELSE "none"
    PROVE  /\ Cut' /\ Whole'
           /\ \A i \in 1..Len(wire') : Unread(i)' = Unread(i + Complete(n, cut))
<1> DEFINE c == Complete(n, cut)
<1>1. /\ c \in 0..Len(wire) /\ Len(wire') = Len(wire) - c
      /\ \A i \in 1..Len(wire') :
            i + c \in 1..Len(wire) /\ wire'[i] = IF cut /\ i = 1 THEN "REST" ELSE wire[i + c]
    BY WireAfter, Zenon
<1>2. c = (IF cut THEN n - 1 ELSE n) /\ wire[n] \in Lines /\ Len(wire) \in Nat /\ n \in Nat /\ n > 0
    BY Facts DEF Complete
<1>3. "none" \notin Lines
    <2>1. may.says \subseteq Losses \union Specials \union {"SYS_MODE", "OTHER"}
        BY Facts
    <2> QED
        BY <2>1 DEF Lines, Losses, Rejections, Specials
<1> HIDE DEF c
<1>4. ASSUME NEW i \in 1..Len(wire'), ~(cut /\ i = 1)
      PROVE  wire'[i] # "REST" /\ wire'[i] = Unread(i + c)
    <2>1. i + c # 1
        BY <1>1, <1>2, <1>4
    <2>2. wire[i + c] # "REST"
        BY <1>1, <2>1 DEF Whole
    <2> QED
        BY <1>1, <1>4, <2>2 DEF Unread
<1>5. ASSUME NEW i \in 1..Len(wire') PROVE Unread(i)' = Unread(i + c)
    <2>1. Unread(i)' = IF wire'[i] = "REST" THEN urc_fragment' ELSE wire'[i]
        BY DEF Unread
    <2>2. CASE cut /\ i = 1
        <3>1. i + c = n
            BY <1>2, <2>2
        <3>2. Unread(n) = wire[n]
            BY <2>2 DEF Unread
        <3> QED
            BY <1>1, <2>1, <2>2, <3>1, <3>2
    <2>3. CASE ~(cut /\ i = 1)
        BY <1>4, <2>1, <2>3
    <2> QED
        BY <2>2, <2>3
<1>6. Whole'
    BY <1>4 DEF Whole
<1>7. Cut'
    <2> DEFINE w == wire'
    <2>1. w # <<>> => 1 \in 1..Len(w)
        <3>1. w \in Seq(Lines)
            BY WireTypes DEF Remaining
        <3> HIDE DEF w
        <3> QED
            BY <3>1
    <2>2. cut => w # <<>> /\ w[1] = "REST" /\ urc_fragment' # "none"
        <3> SUFFICES ASSUME cut PROVE w # <<>> /\ w[1] = "REST" /\ urc_fragment' # "none"
            OBVIOUS
        <3>1. 1 \in 1..Len(w)
            <4>1. c < Len(wire) /\ c \in Nat /\ Len(wire) \in Nat
                BY <1>1, <1>2
            <4>2. Len(w) = Len(wire) - c
                BY <1>1
            <4> HIDE DEF w
            <4> QED
                BY <4>1, <4>2
        <3>2. w # <<>>
            <4> HIDE DEF w
            <4>1. Len(<<>>) = 0
                OBVIOUS
            <4> QED
                BY <3>1, <4>1
        <3> QED
            BY <1>1, <1>2, <1>3, <3>1, <3>2
    <2>3. ~cut => ~(w # <<>> /\ w[1] = "REST")
        BY <1>4, <2>1
    <2> HIDE DEF w
    <2>4. urc_fragment' # "none" <=> cut
        BY <2>2
    <2>5. (urc_fragment' # "none" <=> (w # <<>> /\ w[1] = "REST"))
        BY <2>2, <2>3, <2>4
    <2> QED
        BY <2>5 DEF Cut, w
<1> QED
    BY <1>5, <1>6, <1>7 DEF c

\* The lines of a read are what was kept, K, and the first c reports of T, and R is the rest.
Reads(T, K, lines, R, c) ==
    /\ Len(T) \in Nat /\ Len(K) \in Nat /\ c \in 0..Len(T)
    /\ Len(lines) = Len(K) + c /\ Len(R) = Len(T) - c
    /\ \A i \in 1..Len(K) : lines[i] = K[i]
    /\ \A i \in 1..c : lines[Len(K) + i] = T[i]
    /\ \A i \in 1..Len(R) : R[i] = T[i + c]

\* The places of the lines, and those of the reports.
LEMMA ReadsOf ==
    ASSUME NEW T, NEW K, NEW lines, NEW R, NEW c, Reads(T, K, lines, R, c)
    PROVE  /\ \A i \in 1..Len(lines) :
                 \/ i \in 1..Len(K) /\ lines[i] = K[i]
                 \/ i - Len(K) \in 1..c /\ lines[i] = T[i - Len(K)]
           /\ \A i \in 1..Len(T) :
                 \/ i \in 1..c /\ Len(K) + i \in 1..Len(lines) /\ lines[Len(K) + i] = T[i]
                 \/ i - c \in 1..Len(R) /\ R[i - c] = T[i]
           /\ \A i \in 1..Len(R) : i + c \in 1..Len(T) /\ R[i] = T[i + c]
           /\ \A i \in 1..Len(K) : i \in 1..Len(lines) /\ lines[i] = K[i]
<1> DEFINE t == Len(T)
           k == Len(K)
           n == Len(lines)
           r == Len(R)
<1>1. t \in Nat /\ k \in Nat /\ c \in 0..t /\ n = k + c /\ r = t - c
    BY DEF Reads
<1>2. /\ \A i \in 1..k : lines[i] = K[i]
      /\ \A i \in 1..c : lines[k + i] = T[i]
      /\ \A i \in 1..r : R[i] = T[i + c]
    BY DEF Reads
<1> HIDE DEF t, k, n, r
<1>3. ASSUME NEW i \in 1..n
      PROVE  (i \in 1..k /\ lines[i] = K[i]) \/ (i - k \in 1..c /\ lines[i] = T[i - k])
    <2>1. i \in 1..k \/ (i - k \in 1..c /\ k + (i - k) = i)
        BY <1>1
    <2> QED
        BY <1>2, <2>1
<1>4. ASSUME NEW i \in 1..t
      PROVE  \/ i \in 1..c /\ k + i \in 1..n /\ lines[k + i] = T[i]
             \/ i - c \in 1..r /\ R[i - c] = T[i]
    <2>1. (i \in 1..c /\ k + i \in 1..n) \/ (i - c \in 1..r /\ (i - c) + c = i)
        BY <1>1
    <2> QED
        BY <1>2, <2>1
<1>5. \A i \in 1..r : i + c \in 1..t
    BY <1>1
<1>6. \A i \in 1..k : i \in 1..n
    BY <1>1
<1> QED
    BY <1>2, <1>3, <1>4, <1>5, <1>6 DEF t, k, n, r

\* Whether the last report that counts is read, or was not.
LEMMA DecidedReads ==
    ASSUME NEW T, NEW K, NEW lines, NEW R, NEW c, Reads(T, K, lines, R, c), NEW S
    PROVE  /\ Decided(T, S) => Decided(R, S) \/ (Calm(R) /\ Decided(lines, S))
           /\ Calm(T) => Calm(R)
           /\ Calm(T) /\ Calm(K) => Calm(lines)
           /\ Calm(T) /\ Decided(K, S) => Decided(lines, S)
           /\ Calm(lines) /\ Calm(R) => Calm(T)
<1> DEFINE t == Len(T)
           k == Len(K)
           n == Len(lines)
           r == Len(R)
<1>1. t \in Nat /\ k \in Nat /\ c \in 0..t /\ n = k + c /\ r = t - c
    BY DEF Reads
<1>2. /\ \A i \in 1..n :
            \/ i \in 1..k /\ lines[i] = K[i]
            \/ i - k \in 1..c /\ lines[i] = T[i - k]
      /\ \A i \in 1..t :
            \/ i \in 1..c /\ k + i \in 1..n /\ lines[k + i] = T[i]
            \/ i - c \in 1..r /\ R[i - c] = T[i]
      /\ \A i \in 1..r : i + c \in 1..t /\ R[i] = T[i + c]
      /\ \A i \in 1..k : i \in 1..n /\ lines[i] = K[i]
    BY ReadsOf
<1>3. /\ Decided(T, S) <=>
            \E j \in 1..t : T[j] \in S /\ \A i \in (j + 1)..t : T[i] \in Harmless
      /\ Decided(R, S) <=>
            \E j \in 1..r : R[j] \in S /\ \A i \in (j + 1)..r : R[i] \in Harmless
      /\ Decided(K, S) <=>
            \E j \in 1..k : K[j] \in S /\ \A i \in (j + 1)..k : K[i] \in Harmless
      /\ Decided(lines, S) <=>
            \E j \in 1..n : lines[j] \in S /\ \A i \in (j + 1)..n : lines[i] \in Harmless
      /\ Calm(T) <=> \A i \in 1..t : T[i] \in Harmless
      /\ Calm(R) <=> \A i \in 1..r : R[i] \in Harmless
      /\ Calm(K) <=> \A i \in 1..k : K[i] \in Harmless
      /\ Calm(lines) <=> \A i \in 1..n : lines[i] \in Harmless
    BY DEF Decided, Calm
<1> HIDE DEF t, k, n, r
<1>4. ASSUME NEW j \in 1..t, T[j] \in S, \A i \in (j + 1)..t : T[i] \in Harmless
      PROVE  Decided(R, S) \/ (Calm(R) /\ Decided(lines, S))
    <2>1. CASE j \in 1..c
        <3>1. k + j \in 1..n /\ lines[k + j] = T[j]
            <4>1. ~(j - c \in 1..r)
                BY <1>1, <2>1
            <4> QED
                BY <1>2, <4>1
        <3>2. ASSUME NEW i \in (k + j + 1)..n PROVE lines[i] \in Harmless
            <4>1. i \in 1..n /\ ~(i \in 1..k) /\ i - k \in (j + 1)..t
                BY <1>1, <2>1
            <4> QED
                BY <1>2, <1>4, <4>1
        <3>3. \A i \in 1..r : R[i] \in Harmless
            <4> TAKE i \in 1..r
            <4>1. i + c \in (j + 1)..t
                BY <1>1, <2>1
            <4> QED
                BY <1>2, <1>4, <4>1
        <3> QED
            BY <1>3, <1>4, <3>1, <3>2, <3>3
    <2>2. CASE ~(j \in 1..c)
        <3>1. j - c \in 1..r /\ R[j - c] = T[j]
            BY <1>2, <2>2
        <3>2. ASSUME NEW i \in (j - c + 1)..r PROVE R[i] \in Harmless
            <4>1. i \in 1..r /\ i + c \in (j + 1)..t
                BY <1>1, <2>2
            <4> QED
                BY <1>2, <1>4, <4>1
        <3> QED
            BY <1>3, <1>4, <3>1, <3>2
    <2> QED
        BY <2>1, <2>2
<1>5. Decided(T, S) => Decided(R, S) \/ (Calm(R) /\ Decided(lines, S))
    BY <1>3, <1>4
<1>6. Calm(T) => Calm(R)
    BY <1>2, <1>3
<1>7. ASSUME Calm(T), Calm(K) PROVE Calm(lines)
    <2>1. ASSUME NEW i \in 1..n PROVE lines[i] \in Harmless
        <3>1. i - k \in 1..c => i - k \in 1..t
            BY <1>1
        <3> QED
            BY <1>2, <1>3, <1>7, <3>1
    <2> QED
        BY <1>3, <2>1
<1>8. ASSUME Calm(T), Decided(K, S) PROVE Decided(lines, S)
    <2>1. PICK j \in 1..k : K[j] \in S /\ \A i \in (j + 1)..k : K[i] \in Harmless
        BY <1>3, <1>8
    <2>2. j \in 1..n /\ lines[j] \in S
        BY <1>2, <2>1
    <2>3. ASSUME NEW i \in (j + 1)..n PROVE lines[i] \in Harmless
        <3>1. i \in 1..n /\ (i \in 1..k => i \in (j + 1)..k) /\ (i - k \in 1..c => i - k \in 1..t)
            BY <1>1
        <3> QED
            BY <1>2, <1>3, <1>8, <2>1, <3>1
    <2> QED
        BY <1>3, <2>2, <2>3
<1>9. Calm(lines) /\ Calm(R) => Calm(T)
    BY <1>2, <1>3
<1> QED
    BY <1>5, <1>6, <1>7, <1>8, <1>9

\* A read when there is room and no part is missing.
LEMMA ReadIs ==
    ASSUME TypeOK, Cut, Whole, Room, urc_parse_hdlr
    PROVE  \E n \in 1..Len(wire), cut \in BOOLEAN :
               LET x == IF cut THEN wire[n] ELSE "none" IN
               /\ cut => wire[n] # "REST"
               /\ wire' = Remaining(n, cut) /\ Len(wire') = Len(wire) - Complete(n, cut)
               /\ Checked(URC_array', x)
               /\ Len(URC_array') = Len(Kept) + Complete(n, cut)
               /\ \A i \in 1..Len(Kept) : URC_array'[i] = Kept[i]
               /\ \A i \in 1..Complete(n, cut) : URC_array'[Len(Kept) + i] = Unread(i)
<1>1. PICK n \in 1..Len(wire), cut \in BOOLEAN :
          LET p == Counted(n, cut) IN
          /\ cut => wire[n] # "REST"
          /\ wire' = (IF cut THEN <<"REST">> ELSE <<>>) \o SubSeq(wire, n + 1, Len(wire))
          /\ URC_array' = p.lines
          /\ Checked(p.lines, Fragment(n, cut, p.full))
    BY CountedRead
<1> DEFINE p == Counted(n, cut)
           x == IF cut THEN wire[n] ELSE "none"
           c == Complete(n, cut)
<1>2. /\ Fragment(n, cut, p.full) = x
      /\ Len(p.lines) = Len(Kept) + c
      /\ \A i \in 1..Len(Kept) : p.lines[i] = Kept[i]
      /\ \A i \in 1..c : p.lines[Len(Kept) + i] = LinesOf(n, cut)[i]
    <2>1. Len(Kept) + Len(wire) <= MAX_URC_ARRAY_LEN
        BY DEF Room
    <2> QED
        BY <2>1, ArrayIs
<1>3. \A i \in 1..c : LinesOf(n, cut)[i] = Unread(i)
    BY LinesAre
<1>4. (cut => wire[n] # "REST") /\ wire' = Remaining(n, cut) /\ URC_array' = p.lines
      /\ Checked(p.lines, Fragment(n, cut, p.full))
    BY <1>1 DEF Remaining
<1>5. Len(Remaining(n, cut)) = Len(wire) - c
    BY WireAfter
<1> HIDE DEF p, x, c
<1>6. /\ wire' = Remaining(n, cut) /\ Len(wire') = Len(wire) - c
      /\ Checked(URC_array', x)
      /\ Len(URC_array') = Len(Kept) + c
      /\ \A i \in 1..Len(Kept) : URC_array'[i] = Kept[i]
      /\ \A i \in 1..c : URC_array'[Len(Kept) + i] = Unread(i)
    <2>1. /\ Checked(URC_array', x) /\ Len(URC_array') = Len(Kept) + c
          /\ Len(wire') = Len(wire) - c
        BY <1>2, <1>4, <1>5, Zenon
    <2>2. \A i \in 1..Len(Kept) : URC_array'[i] = Kept[i]
        BY <1>2, <1>4
    <2>3. \A i \in 1..c : URC_array'[Len(Kept) + i] = Unread(i)
        BY <1>2, <1>3, <1>4
    <2> QED
        BY <1>4, <2>1, <2>2, <2>3
<1> QED
    BY <1>4, <1>6 DEF x, c

\* The sequences of the read, unless the fragment is thrown away.
LEMMA ReadsAre ==
    ASSUME TypeOK, Cut, Whole, NEW n \in 1..Len(wire), NEW cut \in BOOLEAN,
           cut => wire[n] # "REST", wire' = Remaining(n, cut),
           urc_fragment' = IF cut THEN wire[n] ELSE "none",
           Len(URC_array') = Len(Kept) + Complete(n, cut),
           \A i \in 1..Len(Kept) : URC_array'[i] = Kept[i],
           \A i \in 1..Complete(n, cut) : URC_array'[Len(Kept) + i] = Unread(i)
    PROVE  /\ Reads(Unheard, Kept, URC_array', Unheard', Complete(n, cut))
           /\ Cut' /\ Whole' /\ Len(wire') = Len(wire) - Complete(n, cut)
           /\ Complete(n, cut) \in 0..Len(wire) /\ Len(wire) \in Nat /\ Len(Kept) \in Nat
<1> DEFINE c == Complete(n, cut)
           w == wire'
<1>1. Cut' /\ Whole' /\ \A i \in 1..Len(w) : Unread(i)' = Unread(i + c)
    BY UnheardAfter
<1>2. /\ c \in 0..Len(wire) /\ Len(Remaining(n, cut)) = Len(wire) - c
      /\ \A i \in 1..Len(Remaining(n, cut)) : i + c \in 1..Len(wire)
    BY WireAfter
<1>3. Len(w) = Len(wire) - c
    BY <1>2, Zenon
<1>4. Len(wire) \in Nat /\ Len(Kept) \in Nat
    BY Facts, CountedTypes
<1>5. Unheard' = [i \in 1..Len(w) |-> Unread(i)']
    BY DEF Unheard
<1>6. Len(w) \in Nat /\ \A i \in 1..Len(w) : i + c \in 1..Len(wire)
    BY <1>2, <1>3, <1>4
<1> HIDE DEF c, w
<1>7. Len(Unheard) = Len(wire) /\ \A i \in 1..Len(wire) : Unheard[i] = Unread(i)
    BY <1>4 DEF Unheard
<1>8. Len(Unheard') = Len(w) /\ \A i \in 1..Len(w) : Unheard'[i] = Unread(i)'
    BY <1>5, <1>6
<1>9. \A i \in 1..Len(w) : Unheard'[i] = Unheard[i + c]
    BY <1>1, <1>6, <1>7, <1>8
<1>10. \A i \in 1..c : URC_array'[Len(Kept) + i] = Unheard[i]
    <2>1. \A i \in 1..c : i \in 1..Len(wire)
        BY <1>2, <1>4
    <2> QED
        BY <1>7, <2>1 DEF c
<1>11. Reads(Unheard, Kept, URC_array', Unheard', c)
    BY <1>2, <1>3, <1>4, <1>7, <1>8, <1>9, <1>10 DEF Reads, c
<1> QED
    BY <1>1, <1>2, <1>3, <1>4, <1>11 DEF c, w

\* As long as no USIM is reset, a read looks for an illegal session, and then acts on the
\* reports, unless they are of no interest.
LEMMA CheckedCalm ==
    ASSUME NEW lines, NEW x, Checked(lines, x), \A i \in DOMAIN lines : lines[i] # "NOT_AVAILABLE",
           ~Has("isRstingUsim"), \A f \in Abnormal : f \notin flags
    PROVE  \/ /\ \E i \in DOMAIN lines : lines[i] = "SESSION_ILLEGAL"
              /\ SessionIllegal(flags)
           \/ /\ \A i \in DOMAIN lines : lines[i] \in {"SESSION_ILLEGAL", "OTHER"}
              /\ \A i \in DOMAIN lines : lines[i] # "SESSION_ILLEGAL"
              /\ Ignored(flags, x)
           \/ /\ \E i \in DOMAIN lines : lines[i] # "OTHER"
              /\ \A i \in DOMAIN lines : lines[i] # "SESSION_ILLEGAL"
              /\ Handled(lines, flags, x)
<1> DEFINE Seen(u) == \E i \in DOMAIN lines : lines[i] = u
           f == IF Seen("NOT_AVAILABLE") THEN flags \union {"not_available_mark"} ELSE flags
           na == lines # <<>> /\ "not_available_mark" \in f
           valid == \E i \in DOMAIN lines : Valid(lines[i])
<1>1. "not_available_mark" \notin flags /\ ~Has("isSessIllegalRecved") /\ ~Ignores
    BY DEF Abnormal, Ignores, Has
<1>2. ~Seen("NOT_AVAILABLE")
    OBVIOUS
<1>3. f = flags /\ ~na
    BY <1>1, <1>2
<1>4. valid => \E i \in DOMAIN lines : lines[i] # "OTHER"
    BY DEF Valid
<1>5. ~valid => \A i \in DOMAIN lines : lines[i] \in {"SESSION_ILLEGAL", "OTHER"}
    BY DEF Valid, Specials
<1>6. Checked(lines, x) =
        CASE na /\ ~Has("isAutoReprotPowerDown") -> Reboots
          [] Seen("SESSION_ILLEGAL") /\ ~Has("isRstingUsim")
                /\ (na => Has("isAutoReprotPowerDown")) ->
                SessionIllegal(IF na THEN NotAvailable(f) \union {"isSessIllegalRecved"} ELSE f)
          [] na /\ Has("isAutoReprotPowerDown")
                /\ ~(Seen("SESSION_ILLEGAL") /\ ~Has("isRstingUsim")) ->
                Ignored(NotAvailable(f), "none")
          [] OTHER ->
                IF Has("isSessIllegalRecved") THEN Ignored(f \ {"isSessIllegalRecved"}, "none")
                ELSE IF Ignores THEN Ignored(f, "none")
                ELSE IF ~valid THEN Ignored(f, x)
                ELSE Handled(lines, f, x)
    BY DEF Checked
<1> HIDE DEF f, na, valid, Seen
<1>7. CASE Seen("SESSION_ILLEGAL")
    <2>1. SessionIllegal(flags)
        BY <1>3, <1>6, <1>7
    <2> QED
        BY <1>7, <2>1 DEF Seen
<1>8. CASE ~Seen("SESSION_ILLEGAL")
    <2>1. IF ~valid THEN Ignored(flags, x) ELSE Handled(lines, flags, x)
        BY <1>1, <1>3, <1>6, <1>8
    <2>2. \A i \in DOMAIN lines : lines[i] # "SESSION_ILLEGAL"
        BY <1>8 DEF Seen
    <2> QED
        BY <1>4, <1>5, <2>1, <2>2
<1> QED
    BY <1>7, <1>8

-----------------------------------------------------------------------------
(* A read while no USIM is reset.                                          *)

\* What the read makes of the state and of the flags, if it resets nothing.
Settled(lines) ==
    /\ reg_urc_state' \notin {"CARD_ERROR", "REJECTED"}
    /\ reg_urc_state' = "IDLE" <=> reg_urc_state = "IDLE" /\ Len(lines) = 0
    /\ Decided(lines, {"REG"}) => reg_urc_state' = "REGISTERED"
    /\ Decided(lines, Lost) =>
          reg_urc_state' # "REGISTERED" /\ (~modem.registered => Unset(flags'))
    /\ Calm(lines) => (reg_urc_state' = "REGISTERED" <=> reg_urc_state = "REGISTERED")
    /\ Calm(lines) /\ ~modem.registered =>
          /\ reg_urc_state # "IDLE" /\ Unset(flags) => Unset(flags')
          /\ reg_urc_state = "IDLE" /\ Len(lines) > 0 => Unset(flags')
    /\ Answered /\ reg_urc_state' # "REGISTERED" => Taken'
    /\ Same(flags', flags, Moved) /\ pc' = pc /\ uim_sender' = uim_sender

\* The flags that make the difference are not among those.
LEMMA MovedOf ==
    ASSUME NEW f, NEW g, Same(f, g, Moved)
    PROVE  /\ "isRstingUsim" \in f <=> "isRstingUsim" \in g
           /\ \A x \in Abnormal : x \in f <=> x \in g
BY DEF Same, Moved, Abnormal

\* None of the reports that are read resets the USIM, unless it is the last there is.
LEMMA LinesCalm ==
    ASSUME NoReset, NEW c, NEW R, Reads(Unheard, Kept, URC_array', R, c), Len(wire) \in Nat
    PROVE  \A i \in 1..Len(URC_array') :
               /\ URC_array'[i] # "NOT_AVAILABLE"
               /\ URC_array'[i] \in Fatal =>
                     /\ i = Len(URC_array') /\ c = Len(wire)
                     /\ URC_array'[i] = Unheard[Len(wire)] /\ Len(wire) > 0
<1> DEFINE l == URC_array'
           k == Len(Kept)
           n == Len(wire)
<1>1. Len(Unheard) = n /\ \A i \in 1..n : Unheard[i] = Unread(i)
    BY DEF Unheard
<1>2. /\ \A i \in 1..n : Unread(i) # "NOT_AVAILABLE" /\ (Unread(i) \in Fatal => i = n)
      /\ \A i \in 1..k : Kept[i] \notin Fatal \union {"NOT_AVAILABLE"}
    BY DEF NoReset
<1>3. /\ k \in Nat /\ c \in 0..n /\ Len(l) = k + c
      /\ \A i \in 1..Len(l) :
            \/ i \in 1..k /\ l[i] = Kept[i]
            \/ i - k \in 1..c /\ l[i] = Unheard[i - k]
    BY <1>1, ReadsOf DEF Reads
<1> HIDE DEF l, k, n
<1>4. ASSUME NEW i \in 1..Len(l)
      PROVE  l[i] # "NOT_AVAILABLE" /\ (l[i] \in Fatal => i = Len(l) /\ c = n /\ l[i] = Unheard[n] /\ n > 0)
    <2>1. CASE i \in 1..k /\ l[i] = Kept[i]
        BY <1>2, <2>1
    <2>2. CASE i - k \in 1..c /\ l[i] = Unheard[i - k]
        <3>1. i - k \in 1..n /\ n \in Nat
            BY <1>3, <2>2 DEF n
        <3>2. l[i] = Unread(i - k)
            BY <1>1, <2>2, <3>1
        <3>3. l[i] # "NOT_AVAILABLE" /\ (l[i] \in Fatal => i - k = n)
            BY <1>2, <3>1, <3>2
        <3>4. i - k = n => i = Len(l) /\ c = n /\ n > 0
            BY <1>3, <2>2, <3>1
        <3> QED
            BY <2>2, <3>3, <3>4
    <2> QED
        BY <1>3, <2>1, <2>2
<1> QED
    BY <1>4 DEF l, k, n

\* Then mdmImodem is not registered.
LEMMA FatalLast ==
    ASSUME NoReset, Len(wire) \in Nat, Len(wire) > 0, Unheard[Len(wire)] \in Fatal
    PROVE  ~modem.registered
<1> DEFINE n == Len(wire)
<1>1. Unheard[n] \notin Harmless /\ Unheard[n] # "REG"
    BY DEF Fatal, Harmless
<1>2. Len(Unheard) = n
    BY DEF Unheard
<1>3. ~Decided(Unheard, {"REG"}) /\ ~Calm(Unheard)
    <2> HIDE DEF n
    <2>1. n \in 1..n /\ \A j \in 1..n : j = n \/ n \in (j + 1)..n
        BY DEF n
    <2> QED
        BY <1>1, <1>2, <2>1 DEF Decided, Calm
<1> QED
    BY <1>3 DEF NoReset

\* What was not read stays in order.
LEMMA AfterRead ==
    ASSUME NoReset, TypeOK, NEW n \in 1..Len(wire), NEW cut \in BOOLEAN,
           cut => wire[n] # "REST", wire' = Remaining(n, cut),
           urc_fragment' = IF cut THEN wire[n] ELSE "none",
           Len(URC_array') = Len(Kept) + Complete(n, cut),
           \A i \in 1..Len(Kept) : URC_array'[i] = Kept[i],
           \A i \in 1..Complete(n, cut) : URC_array'[Len(Kept) + i] = Unread(i),
           URC_array' \in Seq(Lines \ {"REST"}),
           Settled(URC_array'), modem' = modem, left' = left
    PROVE  NoReset'
<1> DEFINE c == Complete(n, cut)
           lines == URC_array'
           T == Unheard
           R == Unheard'
           K == Kept
<1>1. /\ Reads(T, K, lines, R, c)
      /\ Cut' /\ Whole' /\ Len(wire') = Len(wire) - c
      /\ c \in 0..Len(wire) /\ Len(wire) \in Nat /\ Len(K) \in Nat
    BY ReadsAre DEF NoReset
<1>2. \A S : /\ Decided(T, S) => Decided(R, S) \/ (Calm(R) /\ Decided(lines, S))
             /\ Calm(T) => Calm(R)
             /\ Calm(T) /\ Calm(K) => Calm(lines)
             /\ Calm(T) /\ Decided(K, S) => Decided(lines, S)
             /\ Calm(lines) /\ Calm(R) => Calm(T)
    BY <1>1, DecidedReads
<1>3. \A i \in 1..Len(lines) :
          lines[i] # "NOT_AVAILABLE" /\ (lines[i] \in Fatal => c = Len(wire))
    BY <1>1, LinesCalm
<1>4. cut => c # Len(wire)
    BY <1>1 DEF Complete
<1>5. Kept' = IF cut /\ wire[n] # "none" THEN lines ELSE <<>>
    BY DEF Kept
<1>6. may' = may /\ Answered' = Answered /\ Fatal' = Fatal
    BY DEF may, Answered, Fatal
<1>7. \A i \in 1..Len(wire') : i + c \in 1..Len(wire) /\ Unread(i)' = Unread(i + c)
    <2>1. \A i \in 1..Len(R) : i + c \in 1..Len(T) /\ R[i] = T[i + c]
        BY <1>1, ReadsOf
    <2>2. Len(T) = Len(wire) /\ \A i \in 1..Len(wire) : T[i] = Unread(i)
        BY <1>1 DEF Unheard
    <2>3. Len(wire') \in Nat
        BY <1>1
    <2>4. R = [i \in 1..Len(wire') |-> Unread(i)']
        BY DEF Unheard
    <2>5. Len(R) = Len(wire') /\ \A i \in 1..Len(wire') : R[i] = Unread(i)'
        BY <2>3, <2>4
    <2> QED
        BY <2>1, <2>2, <2>5
<1> HIDE DEF c, lines, T, R, K
<1>8. /\ modem'.power = "on" /\ ~uim_sender' /\ pc'.EvtLoop = "loop"
      /\ \A f \in Abnormal : f \notin flags'
      /\ reg_urc_state' \notin {"CARD_ERROR", "REJECTED"}
    <2>1. Same(flags', flags, Moved) /\ pc' = pc /\ uim_sender' = uim_sender
          /\ reg_urc_state' \notin {"CARD_ERROR", "REJECTED"}
        BY DEF Settled
    <2>2. \A x \in Abnormal : x \in flags' <=> x \in flags
        BY <2>1, MovedOf
    <2> QED
        BY <2>1, <2>2 DEF NoReset
<1>9. \A i \in 1..Len(wire') :
          Unread(i)' # "NOT_AVAILABLE" /\ (Unread(i)' \in Fatal' => i = Len(wire'))
    <2> TAKE i \in 1..Len(wire')
    <2>1. i + c \in 1..Len(wire) /\ Unread(i)' = Unread(i + c)
        BY <1>7
    <2>2. Unread(i + c) # "NOT_AVAILABLE" /\ (Unread(i + c) \in Fatal => i + c = Len(wire))
        BY <2>1 DEF NoReset
    <2>3. i + c = Len(wire) => i = Len(wire')
        BY <1>1
    <2> QED
        BY <1>6, <2>1, <2>2, <2>3
<1>10. \A i \in 1..Len(Kept') : Kept'[i] \notin Fatal' \union {"NOT_AVAILABLE"}
    <2>1. CASE Kept' = <<>>
        BY <2>1
    <2>2. CASE Kept' = lines /\ cut
        BY <1>3, <1>4, <1>6, <2>2
    <2> QED
        BY <1>5, <2>1, <2>2
<1>11. reg_urc_state' = "IDLE" => wire' # <<>> /\ Unread(1)' = "CARD_READY" /\ Kept' = <<>>
    <2> SUFFICES ASSUME reg_urc_state' = "IDLE"
                 PROVE  wire' # <<>> /\ Unread(1)' = "CARD_READY" /\ Kept' = <<>>
        OBVIOUS
    <2>1. reg_urc_state = "IDLE" /\ Len(lines) = 0
        BY DEF Settled, lines
    <2>2. c = 0 /\ Len(wire') = Len(wire)
        <3>1. Len(lines) = Len(K) + c
            BY <1>1 DEF Reads
        <3> DEFINE k == Len(K)
                   l == Len(lines)
                   w == Len(wire)
        <3>2. k \in Nat /\ c \in Nat /\ l = k + c /\ l = 0 /\ w \in Nat /\ Len(wire') = w - c
            BY <1>1, <2>1, <3>1
        <3> HIDE DEF k, l, w
        <3>3. c = 0 /\ w - c = w
            BY <3>2
        <3> QED
            BY <3>2, <3>3 DEF w
    <2>3. wire # <<>> /\ Unread(1) = "CARD_READY"
        BY <2>1 DEF NoReset
    <2>4. wire \in Seq(Lines)
        BY Facts
    <2>5. Len(wire) > 0
        BY <2>3, <2>4
    <2>6. Len(wire') > 0
        BY <2>2, <2>5
    <2>7. wire' # <<>>
        <3>1. Len(<<>>) = 0
            OBVIOUS
        <3> QED
            BY <2>6, <3>1
    <2>8. Unread(1)' = Unread(1)
        <3>1. 1 \in 1..Len(wire') /\ 1 + c = 1
            BY <1>1, <2>2, <2>6
        <3> QED
            BY <1>7, <3>1
    <2>9. Kept' = <<>>
        <3>1. lines = <<>>
            <4>1. lines \in Seq(Lines \ {"REST"})
                BY DEF lines
            <4> QED
                BY <2>1, <4>1
        <3> QED
            BY <1>5, <3>1
    <2> QED
        BY <2>3, <2>7, <2>8, <2>9
<1>12. modem'.registered =>
          \/ Decided(Unheard', {"REG"})
          \/ /\ Calm(Unheard') /\ reg_urc_state' = "REGISTERED"
             /\ Calm(Kept') \/ Decided(Kept', {"REG"})
    <2> SUFFICES ASSUME modem.registered, ~Decided(R, {"REG"})
                 PROVE  /\ Calm(R) /\ reg_urc_state' = "REGISTERED"
                        /\ Calm(Kept') \/ Decided(Kept', {"REG"})
        BY DEF R
    <2>1. \/ Decided(T, {"REG"})
          \/ /\ Calm(T) /\ reg_urc_state = "REGISTERED"
             /\ Calm(K) \/ Decided(K, {"REG"})
        BY DEF NoReset, T, K
    <2>2. Calm(R) /\ (Decided(lines, {"REG"}) \/ (Calm(lines) /\ reg_urc_state = "REGISTERED"))
        BY <1>2, <2>1
    <2>3. reg_urc_state' = "REGISTERED"
        BY <2>2 DEF Settled, lines
    <2>4. Calm(Kept') \/ Decided(Kept', {"REG"})
        <3>1. CASE Kept' = <<>>
            BY <3>1 DEF Calm
        <3>2. CASE Kept' = lines
            BY <2>2, <3>2
        <3> QED
            BY <1>5, <3>1, <3>2
    <2> QED
        BY <2>2, <2>3, <2>4
<1>13. ~modem'.registered =>
          \/ Decided(Unheard', Lost)
          \/ /\ Calm(Unheard') /\ reg_urc_state' # "REGISTERED"
             /\ Calm(Kept') \/ Decided(Kept', Lost)
    <2> SUFFICES ASSUME ~modem.registered, ~Decided(R, Lost)
                 PROVE  /\ Calm(R) /\ reg_urc_state' # "REGISTERED"
                        /\ Calm(Kept') \/ Decided(Kept', Lost)
        BY DEF R
    <2>1. \/ Decided(T, Lost)
          \/ /\ Calm(T) /\ reg_urc_state # "REGISTERED"
             /\ Calm(K) \/ Decided(K, Lost)
        BY DEF NoReset, T, K
    <2>2. Calm(R) /\ (Decided(lines, Lost) \/ (Calm(lines) /\ reg_urc_state # "REGISTERED"))
        BY <1>2, <2>1
    <2>3. reg_urc_state' # "REGISTERED"
        BY <2>2 DEF Settled, lines
    <2>4. Calm(Kept') \/ Decided(Kept', Lost)
        <3>1. CASE Kept' = <<>>
            BY <3>1 DEF Calm
        <3>2. CASE Kept' = lines
            BY <2>2, <3>2
        <3> QED
            BY <1>5, <3>1, <3>2
    <2> QED
        BY <2>2, <2>3, <2>4
<1>14. ~modem'.registered /\ Answered' /\ Calm(Unheard') /\ reg_urc_state' # "IDLE" => Unset(flags')
    <2> SUFFICES ASSUME ~modem.registered, Answered, Calm(R), reg_urc_state' # "IDLE"
                 PROVE  Unset(flags')
        BY <1>6 DEF R
    <2>1. \/ Decided(T, Lost)
          \/ Calm(T) /\ (Calm(K) \/ Decided(K, Lost))
        BY DEF NoReset, T, K
    <2>2. ~Decided(R, Lost)
        <3>1. \A x \in Lost : x \notin Harmless
            BY DEF Lost, Losses, Rejections, Harmless
        <3> QED
            BY <3>1 DEF Calm, Decided
    <2>3. Decided(lines, Lost) \/ (Calm(lines) /\ Calm(T))
        BY <1>2, <2>1, <2>2
    <2>4. CASE Decided(lines, Lost)
        BY <2>4 DEF Settled, lines
    <2>5. CASE Calm(lines) /\ Calm(T) /\ reg_urc_state # "IDLE"
        <3>1. Unset(flags)
            BY <2>5 DEF NoReset, T
        <3> QED
            BY <2>5, <3>1 DEF Settled, lines
    <2>6. CASE Calm(lines) /\ reg_urc_state = "IDLE" /\ Len(lines) > 0
        BY <2>6 DEF Settled, lines
    <2>7. CASE reg_urc_state = "IDLE" /\ ~(Len(lines) > 0)
        <3>1. Len(lines) \in Nat
            <4>1. lines \in Seq(Lines \ {"REST"})
                BY DEF lines
            <4> QED
                BY <4>1
        <3>2. Len(lines) = 0
            BY <2>7, <3>1
        <3> QED
            BY <2>7, <3>2 DEF Settled, lines
    <2> QED
        BY <2>3, <2>4, <2>5, <2>6, <2>7
<1>15. reg_urc_state' # "REGISTERED" /\ Answered' => Taken'
    BY <1>6 DEF Settled
<1> QED
    BY <1>1, <1>8, <1>9, <1>10, <1>11, <1>12, <1>13, <1>14, <1>15 DEF NoReset

\* Reports of no interest settle nothing.
LEMMA IgnoredSettles ==
    ASSUME NoReset, NEW lines, NEW x, Len(lines) \in Nat, Ignored(flags, x),
           \A i \in 1..Len(lines) : lines[i] = "OTHER",
           reg_urc_state = "IDLE" /\ Len(lines) > 0 => lines[1] = "CARD_READY"
    PROVE  Settled(lines) /\ urc_fragment' = x
<1>1. /\ flags' = flags /\ urc_fragment' = x /\ reg_urc_state' = reg_urc_state
      /\ ChannelNum' = ChannelNum /\ resume' = resume /\ pc' = pc /\ uim_sender' = uim_sender
    BY DEF Ignored
<1>2. reg_urc_state \notin {"CARD_ERROR", "REJECTED"} /\ (Answered /\ reg_urc_state # "REGISTERED" => Taken)
    BY DEF NoReset
<1>3. reg_urc_state = "IDLE" => Len(lines) = 0
    <2> DEFINE n == Len(lines)
    <2>1. n \in Nat /\ (n > 0 => 1 \in 1..n)
        OBVIOUS
    <2>2. n > 0 => lines[1] = "OTHER"
        BY <2>1
    <2>3. reg_urc_state = "IDLE" => ~(n > 0)
        BY <2>2
    <2> HIDE DEF n
    <2>4. ~(n > 0) => n = 0
        BY <2>1
    <2> QED
        BY <2>3, <2>4 DEF n
<1>4. ~Decided(lines, {"REG"}) /\ ~Decided(lines, Lost)
    BY DEF Decided, Lost, Losses, Rejections
<1>5. Taken => Taken'
    BY <1>1 DEF Taken, Asked, Has
<1>6. Same(flags', flags, Moved)
    BY <1>1 DEF Same
<1>7. Len(lines) > 0 => reg_urc_state # "IDLE"
    BY <1>3
<1> QED
    BY <1>1, <1>2, <1>3, <1>4, <1>5, <1>6, <1>7 DEF Settled

\* Where the traffic is, before the batch and after it.
LEMMA TakenOf ==
    ASSUME ~Asked
    PROVE  Taken <=> Back(Base(flags))
BY DEF Taken, Back, Base, Has

\* The other reports settle the state, or have the USIM reset.
LEMMA HandledSettles ==
    ASSUME NoReset, TypeOK, ~may.good_signal, ~Has("isRstingUsim"),
           NEW lines, NEW x, Len(lines) \in Nat, Len(lines) > 0, Handled(lines, flags, x),
           \A i \in 1..Len(lines) :
               lines[i] # "SESSION_ILLEGAL" /\ (lines[i] \in Fatal => i = Len(lines)),
           reg_urc_state = "IDLE" => lines[1] = "CARD_READY"
    PROVE  /\ urc_fragment' = x
           /\ \/ Settled(lines)
              \/ /\ ~Clean(lines, Len(lines))
                 /\ reg_urc_state' = "IDLE" /\ uim_sender' /\ Taken' /\ pc'.EvtLoop = "loop"
                 /\ "isRstingUsim" \in flags' /\ Same(flags', flags, Moved \union Poor)
<1> DEFINE p == process_URC_array_v01(lines, flags)
           resumes(r) == IF r.resume THEN {"resume"} ELSE {}
<1>1. /\ reg_urc_state \in States /\ ChannelNum \in -1..4 /\ flags \in SUBSET Flags /\ pc \in Pcs
      /\ uim_sender \in BOOLEAN /\ resume \in BOOLEAN
    BY Facts
<1>2. /\ reg_urc_state \notin {"CARD_ERROR", "REJECTED"} /\ pc.EvtLoop = "loop"
      /\ reg_urc_state # "REGISTERED" /\ Answered => Taken
    BY DEF NoReset
<1>3. Batch(p, lines, flags)
    <2>1. reg_urc_state \in States \ {"CARD_ERROR", "REJECTED"}
        BY <1>1, <1>2
    <2> QED
        BY <1>1, <2>1, BatchOf
<1>4. PICK q \in handle_reg_urc_state_var(p) :
          /\ reg_urc_state' = q.state /\ ChannelNum' = q.c
          /\ flags' = need_to_upload_stat_inf(q)
          /\ urc_fragment' = x
          /\ pc' = IF q.reset THEN [pc EXCEPT !.Listener = "reset_uim", !.then = q.then \union resumes(q)]
                   ELSE pc
          /\ resume' = (resume \/ p.resume \/ (q.resume /\ ~q.reset))
          /\ uim_sender' = (uim_sender \/ q.reset)
    BY DEF Handled
<1> HIDE DEF p
<1>5. p \in Outcomes /\ ~p.reset /\ Same(p.flags, flags, Moved)
    BY <1>3 DEF Batch
<1>6. "isRstingUsim" \notin p.flags
    BY <1>5, MovedOf DEF Has
<1>7. /\ q \in Outcomes
      /\ \/ /\ Restarts(q, p)
            /\ p.state # reg_urc_state /\ p.state \in {"CARD_ERROR", "REJECTED", "FAIL"}
         \/ /\ Stays(q, p)
            /\ q.state \notin {"CARD_ERROR", "REJECTED"}
            /\ q.state = p.state \/ (p.state = "FAIL" /\ q.state = "REJECTED_15")
            /\ p.state # reg_urc_state /\ p.state \in {"FAIL", "REJECTED_15", "REJECTED_111"} => Back(q)
    BY <1>1, <1>2, <1>4, <1>5, <1>6, HandleOf
<1>8. /\ Same(flags', q.flags, {"isRegOn", "isMifiConnected"})
      /\ ~modem.registered /\ Unset(q.flags) => Unset(flags')
    BY <1>4, <1>7, UploadOf
<1>9. "isTermSuspNow" \in q.flags => "isTermSuspNow" \in flags'
    BY <1>8 DEF Same
<1>10. CASE Restarts(q, p) /\ p.state # reg_urc_state /\ p.state \in {"CARD_ERROR", "REJECTED", "FAIL"}
    <2>1. ~Clean(lines, Len(lines))
        BY <1>3, <1>10 DEF Batch
    <2>2. /\ q.reset /\ q.state = "IDLE" /\ "isRstingUsim" \in q.flags /\ Back(q)
          /\ Same(q.flags, p.flags, Moved \union Poor)
        BY <1>10 DEF Restarts
    <2>3. /\ pc'.Listener = "reset_uim" /\ pc'.then = q.then \union resumes(q)
          /\ pc'.EvtLoop = pc.EvtLoop
        BY <1>1, <1>4, <2>2 DEF Pcs
    <2>4. q.resume => Asked'
        <3>1. q.resume => "resume" \in pc'.then
            BY <2>3
        <3> QED
            BY <2>3, <3>1 DEF Asked
    <2>5. Taken'
        BY <1>4, <1>9, <2>2, <2>4 DEF Taken, Back, Has
    <2>6. "isRstingUsim" \in flags' /\ Same(flags', flags, Moved \union Poor)
        BY <1>5, <1>8, <2>2 DEF Same, Moved, Poor
    <2>7. uim_sender' /\ reg_urc_state' = "IDLE" /\ urc_fragment' = x
        BY <1>4, <2>2
    <2> QED
        BY <1>2, <2>1, <2>3, <2>5, <2>6, <2>7
<1>11. CASE /\ Stays(q, p)
            /\ q.state \notin {"CARD_ERROR", "REJECTED"}
            /\ q.state = p.state \/ (p.state = "FAIL" /\ q.state = "REJECTED_15")
            /\ p.state # reg_urc_state /\ p.state \in {"FAIL", "REJECTED_15", "REJECTED_111"} => Back(q)
    <2>1. /\ ~q.reset /\ Same(q.flags, p.flags, Moved)
          /\ ~modem.registered /\ Unset(p.flags) => Unset(q.flags)
          /\ Back(p) => Back(q)
        BY <1>5, <1>11 DEF Stays
    <2>2. /\ pc' = pc /\ uim_sender' = uim_sender /\ resume' = (resume \/ p.resume \/ q.resume)
          /\ reg_urc_state' = q.state /\ ChannelNum' = q.c /\ urc_fragment' = x
        BY <1>1, <1>4, <2>1
    <2>3. Same(flags', flags, Moved)
        BY <1>5, <1>8, <2>1 DEF Same, Moved
    <2>4. ~modem.registered /\ Unset(p.flags) => Unset(flags')
        BY <1>8, <2>1
    <2>5. /\ q.state = "REGISTERED" <=> p.state = "REGISTERED"
          /\ q.state = "IDLE" <=> p.state = "IDLE"
        BY <1>11
    <2>6. p.state # "IDLE"
        BY <1>3 DEF Batch
    <2>7. /\ Decided(lines, {"REG"}) => q.state = "REGISTERED"
          /\ Decided(lines, Lost) => q.state # "REGISTERED" /\ (~modem.registered => Unset(flags'))
          /\ Calm(lines) => (q.state = "REGISTERED" <=> reg_urc_state = "REGISTERED")
          /\ Calm(lines) /\ ~modem.registered =>
                /\ reg_urc_state # "IDLE" /\ Unset(flags) => Unset(flags')
                /\ reg_urc_state = "IDLE" => Unset(flags')
        BY <1>3, <2>4, <2>5 DEF Batch
    <2>8. ASSUME Answered, q.state # "REGISTERED" PROVE Taken'
        <3>1. CASE Asked
            BY <2>2, <3>1 DEF Taken, Asked
        <3>2. CASE ~Asked
            <4>1. reg_urc_state # "REGISTERED" => Back(Base(flags))
                BY <1>2, <2>8, <3>2, TakenOf
            <4>2. \/ p.state \in {"REGISTERED", "REJECTED_15", "REJECTED_111"} \/ Back(p)
                  \/ p.state \in {"CARD_ERROR", "REJECTED", "FAIL"} /\ p.state # reg_urc_state
                BY <1>3, <4>1 DEF Batch
            <4>3. Back(Base(flags)) => Back(p)
                BY <1>3 DEF Batch
            <4>4. Back(q)
                <5>1. CASE Back(p)
                    BY <2>1, <5>1
                <5>2. CASE p.state # reg_urc_state /\ p.state \in {"FAIL", "REJECTED_15", "REJECTED_111"}
                    BY <1>11, <5>2
                <5>3. CASE p.state = reg_urc_state /\ p.state \in {"REJECTED_15", "REJECTED_111"}
                    BY <2>1, <4>1, <4>3, <5>3
                <5>4. p.state # "REGISTERED" /\ p.state \notin {"CARD_ERROR", "REJECTED"}
                    BY <1>11, <2>5, <2>8
                <5> QED
                    BY <4>2, <5>1, <5>2, <5>3, <5>4
            <4> QED
                BY <1>9, <2>2, <4>4 DEF Taken, Asked, Back, Has
        <3> QED
            BY <3>1, <3>2
    <2>9. ~(Len(lines) = 0)
        OBVIOUS
    <2>10. Settled(lines)
        BY <1>11, <2>2, <2>3, <2>5, <2>6, <2>7, <2>8, <2>9 DEF Settled
    <2> QED
        BY <2>2, <2>10
<1> QED
    BY <1>7, <1>10, <1>11

\* The USIM is reset, and there is nothing left to read.
LEMMA ResetFollows ==
    ASSUME NoReset, TypeOK, ~modem.registered, wire' = <<>>, urc_fragment' = "none",
           modem' = modem, left' = left,
           reg_urc_state' = "IDLE", uim_sender', Taken', pc'.EvtLoop = "loop",
           "isRstingUsim" \in flags', \A f \in Abnormal \ {"isRegOffForPoorSig"} : f \notin flags'
    PROVE  InReset' /\ Has("isRstingUsim")'
<1>1. modem.power = "on"
    BY DEF NoReset
<1>2. Len(wire') = 0 /\ Kept' = <<>>
    <2>1. Len(<<>>) = 0
        OBVIOUS
    <2> QED
        BY <2>1 DEF Kept
<1>3. /\ "not_available_mark" \notin flags' /\ "isUimPwrDwn" \notin flags'
      /\ "isSessIllegalRecved" \notin flags' /\ "isEnableManualApdu" \notin flags'
    BY DEF Abnormal
<1>4. Cut' /\ Whole'
    BY <1>2 DEF Cut, Whole
<1>5. \A i \in 1..Len(wire') : FALSE
    BY <1>2
<1>6. Kept' = <<>> /\ \A i \in 1..Len(Kept') : FALSE
    BY <1>2
<1>7. reg_urc_state' \in {"IDLE", "FAIL"}
    OBVIOUS
<1> QED
    BY <1>1, <1>3, <1>4, <1>5, <1>6, <1>7 DEF InReset, Has

\* A read while no USIM is reset.
LEMMA NoResetRead ==
    ASSUME Silent, NoReset, ~Has("isRstingUsim"), TypeOK, TypeOK', Room, urc_parse_hdlr
    PROVE  CalmInv'
<1>1. Cut /\ Whole /\ ~may.good_signal
    BY DEF NoReset, Silent
<1>2. PICK n \in 1..Len(wire), cut \in BOOLEAN :
          LET x == IF cut THEN wire[n] ELSE "none" IN
          /\ cut => wire[n] # "REST"
          /\ wire' = Remaining(n, cut) /\ Len(wire') = Len(wire) - Complete(n, cut)
          /\ Checked(URC_array', x)
          /\ Len(URC_array') = Len(Kept) + Complete(n, cut)
          /\ \A i \in 1..Len(Kept) : URC_array'[i] = Kept[i]
          /\ \A i \in 1..Complete(n, cut) : URC_array'[Len(Kept) + i] = Unread(i)
    BY <1>1, ReadIs
<1> DEFINE x == IF cut THEN wire[n] ELSE "none"
           c == Complete(n, cut)
           l == URC_array'
           k == Len(l)
<1>3. /\ wire' = Remaining(n, cut) /\ Len(wire') = Len(wire) - c
      /\ Checked(l, x) /\ k = Len(Kept) + c
      /\ \A i \in 1..Len(Kept) : l[i] = Kept[i]
      /\ \A i \in 1..c : l[Len(Kept) + i] = Unread(i)
    BY <1>2
<1>4. modem' = modem /\ left' = left /\ may' = may /\ Lines' = Lines
    BY DEF urc_parse_hdlr, may, Lines
<1>5. l \in Seq(Lines \ {"REST"}) /\ wire' \in Seq(Lines) /\ wire \in Seq(Lines)
    <2>1. URC_array' \in Seq(Lines' \ {"REST"}) /\ wire' \in Seq(Lines')
        BY DEF TypeOK
    <2> QED
        BY <1>4, <2>1, Facts
<1>6. Len(wire) \in Nat /\ k \in Nat /\ DOMAIN l = 1..k /\ Len(Kept) \in Nat
    <2>1. Kept \in Seq(Lines \ {"REST"})
        BY CountedTypes
    <2> QED
        BY <1>5, <2>1
<1>7. c \in 0..Len(wire) /\ (cut => c # Len(wire))
    BY <1>6 DEF Complete
<1>8. \A i \in 1..k :
          /\ l[i] # "NOT_AVAILABLE"
          /\ l[i] \in Fatal =>
                i = k /\ c = Len(wire) /\ l[i] = Unheard[Len(wire)] /\ Len(wire) > 0
    <2> DEFINE w == Len(wire)
               R == [i \in 1..(w - c) |-> Unheard[i + c]]
    <2>1. Len(Unheard) = w /\ \A i \in 1..w : Unheard[i] = Unread(i)
        BY <1>6 DEF Unheard
    <2>2. w - c \in Nat
        BY <1>6, <1>7
    <2>3. Len(R) = w - c /\ \A i \in 1..Len(R) : R[i] = Unheard[i + c]
        BY <2>2
    <2>4. \A i \in 1..c : i \in 1..w
        BY <1>6, <1>7
    <2> HIDE DEF R, w, c, k, l
    <2>5. \A i \in 1..c : l[Len(Kept) + i] = Unheard[i]
        BY <1>3, <2>1, <2>4
    <2>6. Reads(Unheard, Kept, l, R, c)
        BY <1>3, <1>6, <1>7, <2>1, <2>3, <2>5 DEF Reads, k, w
    <2> QED
        BY <1>6, <2>6, LinesCalm DEF l, k
<1>9. reg_urc_state = "IDLE" /\ k > 0 => l[1] = "CARD_READY"
    <2> SUFFICES ASSUME reg_urc_state = "IDLE", k > 0 PROVE l[1] = "CARD_READY"
        OBVIOUS
    <2>1. Kept = <<>> /\ Unread(1) = "CARD_READY"
        BY DEF NoReset
    <2>2. Len(Kept) = 0
        BY <2>1
    <2> HIDE DEF k, l, c
    <2>3. c = k /\ Len(Kept) + 1 = 1 /\ 1 \in 1..c
        BY <1>3, <1>6, <1>7, <2>2
    <2> QED
        BY <1>3, <2>1, <2>3
<1>10. \/ /\ \E i \in DOMAIN l : l[i] = "SESSION_ILLEGAL"
          /\ SessionIllegal(flags)
       \/ /\ \A i \in DOMAIN l : l[i] \in {"SESSION_ILLEGAL", "OTHER"}
          /\ \A i \in DOMAIN l : l[i] # "SESSION_ILLEGAL"
          /\ Ignored(flags, x)
       \/ /\ \E i \in DOMAIN l : l[i] # "OTHER"
          /\ \A i \in DOMAIN l : l[i] # "SESSION_ILLEGAL"
          /\ Handled(l, flags, x)
    <2>1. \A f \in Abnormal : f \notin flags
        BY DEF NoReset
    <2>2. \A i \in DOMAIN l : l[i] # "NOT_AVAILABLE"
        BY <1>6, <1>8
    <2> HIDE DEF l, x
    <2> QED
        BY <1>3, <2>1, <2>2, CheckedCalm
<1>11. ASSUME NEW i \in 1..k, l[i] \in Fatal
       PROVE  wire' = <<>> /\ x = "none" /\ ~modem.registered
    <2>1. c = Len(wire) /\ l[i] = Unheard[Len(wire)] /\ Len(wire) > 0
        BY <1>8, <1>11
    <2>2. ~modem.registered
        BY <1>6, <1>11, <2>1, FatalLast
    <2>3. Len(wire') = 0
        BY <1>3, <1>6, <2>1
    <2>4. wire' = <<>>
        BY <1>5, <2>3
    <2> QED
        BY <1>7, <2>1, <2>2, <2>4
<1>12. ASSUME NoReset', ~Has("isRstingUsim")' PROVE CalmInv'
    BY <1>12 DEF CalmInv
<1>13. ASSUME InReset', Has("isRstingUsim")' PROVE CalmInv'
    BY <1>13 DEF CalmInv
<1>14. \A f \in Abnormal : f \notin flags
    BY DEF NoReset
<1>15. ASSUME Settled(l), urc_fragment' = x PROVE CalmInv'
    <2>1. NoReset'
        BY <1>2, <1>4, <1>5, <1>15, AfterRead
    <2>2. Same(flags', flags, Moved)
        BY <1>15 DEF Settled
    <2>3. ~Has("isRstingUsim")'
        BY <2>2, MovedOf DEF Has
    <2> QED
        BY <1>12, <2>1, <2>3
<1>16. CASE /\ \E i \in DOMAIN l : l[i] = "SESSION_ILLEGAL"
            /\ SessionIllegal(flags)
    <2>1. PICK i \in 1..k : l[i] = "SESSION_ILLEGAL"
        BY <1>6, <1>16
    <2>2. wire' = <<>> /\ ~modem.registered
        BY <1>11, <2>1 DEF Fatal
    <2>3. /\ pc' = [pc EXCEPT !.Listener = "session_illegal", !.then = {"id", "resume"}]
          /\ flags' = flags \union {"isRstingUsim"} /\ urc_fragment' = "none"
          /\ reg_urc_state' = "IDLE" /\ uim_sender' = TRUE
        BY <1>16 DEF SessionIllegal
    <2>4. pc'.EvtLoop = "loop" /\ pc'.Listener = "session_illegal" /\ pc'.then = {"id", "resume"}
        <3>1. pc \in Pcs /\ pc.EvtLoop = "loop"
            BY Facts DEF NoReset
        <3> QED
            BY <2>3, <3>1 DEF Pcs
    <2>5. Taken'
        BY <2>4 DEF Taken, Asked
    <2>6. \A f \in Abnormal \ {"isRegOffForPoorSig"} : f \notin flags'
        BY <1>14, <2>3 DEF Abnormal
    <2>7. InReset' /\ Has("isRstingUsim")'
        BY <1>4, <2>2, <2>3, <2>4, <2>5, <2>6, ResetFollows
    <2> QED
        BY <1>13, <2>7
<1>17. CASE /\ \A i \in DOMAIN l : l[i] \in {"SESSION_ILLEGAL", "OTHER"}
            /\ \A i \in DOMAIN l : l[i] # "SESSION_ILLEGAL"
            /\ Ignored(flags, x)
    <2>1. \A i \in 1..k : l[i] = "OTHER"
        BY <1>6, <1>17
    <2> HIDE DEF x, l
    <2>2. Settled(l) /\ urc_fragment' = x
        BY <1>6, <1>9, <1>17, <2>1, IgnoredSettles
    <2> QED
        BY <1>15, <2>2
<1>18. CASE /\ \E i \in DOMAIN l : l[i] # "OTHER"
            /\ \A i \in DOMAIN l : l[i] # "SESSION_ILLEGAL"
            /\ Handled(l, flags, x)
    <2>1. k > 0
        BY <1>6, <1>18
    <2>2. \A i \in 1..k : l[i] # "SESSION_ILLEGAL" /\ (l[i] \in Fatal => i = k)
        BY <1>6, <1>8, <1>18
    <2>3. reg_urc_state = "IDLE" => l[1] = "CARD_READY"
        BY <1>9, <2>1
    <2>4. /\ urc_fragment' = x
          /\ \/ Settled(l)
             \/ /\ ~Clean(l, k)
                /\ reg_urc_state' = "IDLE" /\ uim_sender' /\ Taken' /\ pc'.EvtLoop = "loop"
                /\ "isRstingUsim" \in flags' /\ Same(flags', flags, Moved \union Poor)
        <3> HIDE DEF x, l
        <3> QED
            BY <1>1, <1>6, <1>18, <2>1, <2>2, <2>3, HandledSettles
    <2>5. CASE Settled(l)
        BY <1>15, <2>4, <2>5
    <2>6. CASE /\ ~Clean(l, k)
               /\ reg_urc_state' = "IDLE" /\ uim_sender' /\ Taken' /\ pc'.EvtLoop = "loop"
               /\ "isRstingUsim" \in flags' /\ Same(flags', flags, Moved \union Poor)
        <3>1. PICK i \in 1..k : l[i] \in Fatal
            BY <2>6 DEF Clean
        <3>2. wire' = <<>> /\ x = "none" /\ ~modem.registered
            BY <1>11, <3>1
        <3>3. \A f \in Abnormal \ {"isRegOffForPoorSig"} : f \notin flags'
            BY <1>14, <2>6 DEF Abnormal, Same, Moved, Poor
        <3>4. InReset' /\ Has("isRstingUsim")'
            BY <1>4, <2>4, <2>6, <3>2, <3>3, ResetFollows
        <3> QED
            BY <1>13, <3>4
    <2> QED
        BY <2>4, <2>5, <2>6
<1> QED
    BY <1>10, <1>16, <1>17, <1>18

-----------------------------------------------------------------------------
(* The other steps.                                                        *)

\* What was not read depends on three variables.
LEMMA SameReports ==
    ASSUME UNCHANGED <<wire, urc_fragment, URC_array>>
    PROVE  /\ Unheard' = Unheard /\ Kept' = Kept /\ (Cut' <=> Cut) /\ (Whole' <=> Whole)
           /\ \A i : Unread(i)' = Unread(i)
<1>1. \A i : Unread(i)' = Unread(i)
    BY DEF Unread
<1> QED
    BY <1>1 DEF Unheard, Kept, Cut, Whole

\* Steps that do not touch the traffic leave it where it is.
LEMMA TakenSame ==
    ASSUME Taken, resume' = resume, ChannelNum' = ChannelNum,
           pc'.Listener = pc.Listener, pc'.then = pc.then,
           Has("isTermSuspNow") => Has("isTermSuspNow")'
    PROVE  Taken'
BY DEF Taken, Asked

\* Those that do take it back, or leave it there.
LEMMA TakenMoves ==
    ASSUME TypeOK, Taken, UsimReset \/ Resumes \/ Recovered \/ HandsOver
    PROVE  Taken'
<1>1. pc \in Pcs /\ resume \in BOOLEAN /\ flags \in SUBSET Flags
    BY Facts
<1>2. CASE UsimReset
    <2>1. /\ resume' = (resume \/ "resume" \in pc.then) /\ ChannelNum' = ChannelNum
          /\ flags' = AtTheEnd(flags, pc.then)
        BY <1>2 DEF UsimReset
    <2>2. Same(flags', flags, {"isRegOn", "isMifiConnected", "isNeedToSendIDMsg"})
        BY <1>1, <2>1, AtTheEndOf
    <2>3. Has("isTermSuspNow") => Has("isTermSuspNow")'
        BY <2>2 DEF Same, Has
    <2> QED
        BY <2>1, <2>3 DEF Taken, Asked
<1>3. CASE Resumes
    <2>1. \/ ChannelNum' = -1
          \/ ChannelNum' = 2 /\ flags' = flags \union {"isTermSuspNow"}
        BY <1>3 DEF Resumes, EvtLoopMoves
    <2> QED
        BY <2>1 DEF Taken, Has
<1>4. CASE Recovered
    <2>1. ~resume /\ resume' = resume /\ pc' = pc
        BY <1>4 DEF Recovered, EvtLoopMoves
    <2>2. ChannelNum' \in {-1, 0} \/ ChannelNum = 4
        BY <1>4 DEF Recovered, EvtLoopMoves
    <2>3. ChannelNum = 4 => Asked
        BY DEF Taken
    <2> QED
        BY <2>1, <2>2, <2>3 DEF Taken, Asked
<1>5. CASE HandsOver
    <2>1. ~resume /\ resume' = resume /\ pc' = pc
        BY <1>5 DEF HandsOver, EvtLoopMoves
    <2>2. CASE Asked
        BY <2>1, <2>2 DEF Taken, Asked
    <2>3. CASE ~Asked
        <3>1. ChannelNum = 2 /\ Has("isTermSuspNow")
            BY <1>5, <2>3 DEF Taken, HandsOver
        <3>2. ChannelNum' = -1
            BY <1>5, <3>1 DEF HandsOver, EvtLoopMoves
        <3> QED
            BY <3>2 DEF Taken
    <2> QED
        BY <2>2, <2>3
<1> QED
    BY <1>2, <1>3, <1>4, <1>5

\* No USIM is reset, and mdmImodem says nothing.
LEMMA NoResetStays ==
    ASSUME NoReset, UNCHANGED <<wire, urc_fragment, URC_array, reg_urc_state, uim_sender, modem, left>>,
           pc'.EvtLoop = "loop", \A f \in Abnormal : f \notin flags', ~Has("isRstingUsim")',
           ~modem.registered /\ Unset(flags) => Unset(flags'),
           reg_urc_state # "REGISTERED" /\ Taken => Taken'
    PROVE  CalmInv'
<1>1. /\ Unheard' = Unheard /\ Kept' = Kept /\ (Cut' <=> Cut) /\ (Whole' <=> Whole)
      /\ \A i : Unread(i)' = Unread(i)
    BY SameReports
<1>2. may' = may /\ Answered' = Answered /\ Fatal' = Fatal
    BY DEF may, Answered, Fatal
<1>3. /\ modem'.power = "on" /\ ~uim_sender' /\ pc'.EvtLoop = "loop"
      /\ \A f \in Abnormal : f \notin flags'
      /\ Cut' /\ Whole'
    BY <1>1 DEF NoReset
<1>4. /\ \A i \in 1..Len(wire') :
            Unread(i)' # "NOT_AVAILABLE" /\ (Unread(i)' \in Fatal' => i = Len(wire'))
      /\ \A i \in 1..Len(Kept') : Kept'[i] \notin Fatal' \union {"NOT_AVAILABLE"}
      /\ reg_urc_state' \notin {"CARD_ERROR", "REJECTED"}
      /\ reg_urc_state' = "IDLE" => wire' # <<>> /\ Unread(1)' = "CARD_READY" /\ Kept' = <<>>
    BY <1>1, <1>2 DEF NoReset
<1>5. /\ modem'.registered =>
            \/ Decided(Unheard', {"REG"})
            \/ /\ Calm(Unheard') /\ reg_urc_state' = "REGISTERED"
               /\ Calm(Kept') \/ Decided(Kept', {"REG"})
      /\ ~modem'.registered =>
            \/ Decided(Unheard', Lost)
            \/ /\ Calm(Unheard') /\ reg_urc_state' # "REGISTERED"
               /\ Calm(Kept') \/ Decided(Kept', Lost)
    BY <1>1 DEF NoReset
<1>6. /\ ~modem'.registered /\ Answered' /\ Calm(Unheard') /\ reg_urc_state' # "IDLE" => Unset(flags')
      /\ reg_urc_state' # "REGISTERED" /\ Answered' => Taken'
    BY <1>1, <1>2 DEF NoReset
<1>7. NoReset'
    BY <1>3, <1>4, <1>5, <1>6 DEF NoReset
<1> QED
    BY <1>7 DEF CalmInv

\* The same while the USIM is reset.
LEMMA InResetStays ==
    ASSUME InReset, UNCHANGED <<wire, urc_fragment, URC_array>>, Has("isRstingUsim")',
           uim_sender' <=> modem'.power = "on",
           modem'.power # "on" => Has("isAutoReprotPowerDown")',
           modem'.power = "off" => ~modem'.registered,
           modem.power = "off" => modem'.power = "off",
           Has("not_available_mark")' => Has("not_available_mark"),
           Has("isUimPwrDwn")' <=> Has("isUimPwrDwn"),
           Has("isSessIllegalRecved")' => Has("isSessIllegalRecved"),
           reg_urc_state' \in {"IDLE", "FAIL"},
           Has("isEnableManualApdu") => Has("isEnableManualApdu")',
           Has("isEnableManualApdu")' => ~Answered',
           Answered' => /\ reg_urc_state' = "IDLE" /\ ~modem'.registered
                        /\ Taken' /\ pc'.EvtLoop = "loop"
    PROVE  CalmInv'
<1>1. /\ Unheard' = Unheard /\ Kept' = Kept /\ (Cut' <=> Cut) /\ (Whole' <=> Whole)
      /\ \A i : Unread(i)' = Unread(i)
    BY SameReports
<1>2. InReset'
    <2>1. /\ Has("not_available_mark")' => Has("isUimPwrDwn")'
          /\ Has("isUimPwrDwn")' => modem'.power = "off" /\ wire' = <<>> /\ urc_fragment' = "none"
          /\ ~Has("isSessIllegalRecved")' /\ Whole'
        BY <1>1 DEF InReset
    <2>2. \A i \in 1..Len(wire') :
              Unread(i)' = "NOT_AVAILABLE" => i = Len(wire') /\ modem'.power = "off"
        BY <1>1 DEF InReset
    <2>3. /\ \A i \in 1..Len(Kept') : Kept'[i] # "NOT_AVAILABLE"
          /\ Has("isEnableManualApdu")' => ~Answered'
          /\ \/ Has("isEnableManualApdu")'
             \/ /\ Cut' /\ Kept' = <<>>
                /\ wire' = <<>> \/ (Len(wire') = 1 /\ Unread(1)' = "NOT_AVAILABLE")
        BY <1>1 DEF InReset
    <2> QED
        BY <2>1, <2>2, <2>3 DEF InReset
<1> QED
    BY <1>2 DEF CalmInv

\* An APDU times out: some of it was not answered.
LEMMA TimeoutCalm ==
    ASSUME TypeOK, Silent, IF Has("isRstingUsim") THEN InReset ELSE NoReset, ApduRsp_timeout_ext_cb
    PROVE  CalmInv'
<1>1. /\ left.timeouts > 0 /\ modem.power = "on" /\ ~Has("isUimPwrDwn")
      /\ left' = [left EXCEPT !.timeouts = left.timeouts - 1]
      /\ UNCHANGED <<modem, wire, urc_fragment, URC_array, ChannelNum, resume, isUimRstOperCplt>>
    BY DEF ApduRsp_timeout_ext_cb
<1>2. left.timeouts \in 0..may.timeouts /\ may.timeouts \in Nat /\ uim_sender \in BOOLEAN
    BY Facts
<1>3. may' = may /\ left'.timeouts = left.timeouts - 1
    <2>1. left \in [may : Cases, urcs : 0..may.urcs, timeouts : 0..may.timeouts]
        BY DEF TypeOK
    <2> QED
        BY <1>1, <2>1 DEF may
<1>4. ~Answered'
    BY <1>2, <1>3 DEF Answered
<1>5. CASE Has("isRstingUsim")
    <2>1. InReset /\ uim_sender
        BY <1>1, <1>5 DEF InReset
    <2>2. /\ \A f \in flags : f \in flags'
          /\ \A f \in Abnormal :
                f \in flags' => f \in flags \/ f \in {"isEnableManualApdu", "isRegOffForPoorSig"}
          /\ "isEnableManualApdu" \in flags'
          /\ reg_urc_state' \in {reg_urc_state, "FAIL"} /\ uim_sender' = TRUE
        BY <1>5, <2>1 DEF ApduRsp_timeout_ext_cb, Has, Abnormal
    <2>3. reg_urc_state' \in {"IDLE", "FAIL"} /\ ~Has("isSessIllegalRecved") /\ ~Has("not_available_mark")
        BY <1>1, <2>1, <2>2 DEF InReset
    <2>4. /\ Has("isRstingUsim")' /\ Has("isEnableManualApdu")'
          /\ Has("not_available_mark")' => Has("not_available_mark")
          /\ Has("isUimPwrDwn")' <=> Has("isUimPwrDwn")
          /\ Has("isSessIllegalRecved")' => Has("isSessIllegalRecved")
        BY <1>5, <2>2 DEF Has, Abnormal
    <2> QED
        BY <1>1, <1>4, <2>1, <2>2, <2>3, <2>4, InResetStays
<1>6. CASE ~Has("isRstingUsim")
    <2>1. NoReset /\ ~Has("isRegOffForPoorSig")
        BY <1>6 DEF NoReset, Has, Abnormal
    <2>2. /\ flags' = flags \union {"isEnableManualApdu", "isRegOffForPoorSig",
                                    "isNeedToSendIDMsg", "isRstingUsim"}
          /\ reg_urc_state' = "FAIL" /\ uim_sender' = TRUE
        BY <1>6, <2>1 DEF ApduRsp_timeout_ext_cb
    <2>3. /\ Unheard' = Unheard /\ Kept' = Kept /\ (Cut' <=> Cut) /\ (Whole' <=> Whole)
          /\ \A i : Unread(i)' = Unread(i)
        BY <1>1, SameReports
    <2>4. /\ Has("isRstingUsim")' /\ Has("isEnableManualApdu")'
          /\ ~Has("not_available_mark")' /\ ~Has("isUimPwrDwn")' /\ ~Has("isSessIllegalRecved")'
        BY <2>1, <2>2 DEF NoReset, Has, Abnormal
    <2>5. /\ Whole' /\ modem'.power = "on"
          /\ \A i \in 1..Len(wire') : Unread(i)' # "NOT_AVAILABLE"
          /\ \A i \in 1..Len(Kept') : Kept'[i] # "NOT_AVAILABLE"
        BY <1>1, <2>1, <2>3 DEF NoReset
    <2>6. InReset'
        BY <1>4, <2>2, <2>4, <2>5 DEF InReset
    <2> QED
        BY <2>4, <2>6 DEF CalmInv
<1> QED
    BY <1>5, <1>6

\* The reset goes on, and EvtLoop does with it.
LEMMA UsimCalm ==
    ASSUME TypeOK, Silent, IF Has("isRstingUsim") THEN InReset ELSE NoReset,
           UsimReset \/ mifi_status_hdlr \/ UimSender
    PROVE  CalmInv'
<1>1. pc \in Pcs /\ flags \in SUBSET Flags
    BY Facts
<1>2. may' = may /\ (Answered' <=> Answered)
    BY DEF UsimReset, mifi_status_hdlr, UimSender, may, Answered
<1>3. CASE UsimReset
    <2>1. /\ UNCHANGED <<modem, wire, urc_fragment, URC_array, reg_urc_state, uim_sender, left>>
          /\ pc' = [pc EXCEPT !.Listener = "select", !.then = {}]
          /\ flags' = AtTheEnd(flags, pc.then)
        BY <1>3 DEF UsimReset
    <2>2. pc'.EvtLoop = pc.EvtLoop
        BY <1>1, <2>1 DEF Pcs
    <2>3. /\ Same(flags', flags, {"isRegOn", "isMifiConnected", "isNeedToSendIDMsg"})
          /\ ~modem.registered /\ Unset(flags) => Unset(flags')
        BY <1>1, <2>1, AtTheEndOf
    <2>4. /\ \A f \in Abnormal \union {"isRstingUsim", "isAutoReprotPowerDown"} :
                f \in flags' <=> f \in flags
        BY <2>3 DEF Same, Abnormal
    <2>5. Taken => Taken'
        BY <1>3, TakenMoves
    <2>6. CASE Has("isRstingUsim")
        <3>1. InReset /\ Has("isRstingUsim")'
            BY <2>4, <2>6 DEF Has
        <3>2. /\ Has("isAutoReprotPowerDown")' <=> Has("isAutoReprotPowerDown")
              /\ \A f \in Abnormal : Has(f)' <=> Has(f)
            BY <2>4 DEF Has
        <3>3. /\ Has("not_available_mark")' => Has("not_available_mark")
              /\ Has("isUimPwrDwn")' <=> Has("isUimPwrDwn")
              /\ Has("isSessIllegalRecved")' => Has("isSessIllegalRecved")
              /\ Has("isEnableManualApdu") <=> Has("isEnableManualApdu")'
            BY <3>2 DEF Abnormal
        <3>4. /\ uim_sender' <=> modem'.power = "on"
              /\ modem'.power # "on" => Has("isAutoReprotPowerDown")'
              /\ modem'.power = "off" => ~modem'.registered
              /\ reg_urc_state' \in {"IDLE", "FAIL"}
              /\ Has("isEnableManualApdu")' => ~Answered'
            BY <1>2, <2>1, <3>1, <3>2, <3>3 DEF InReset
        <3>5. Answered' => reg_urc_state' = "IDLE" /\ ~modem'.registered /\ Taken' /\ pc'.EvtLoop = "loop"
            BY <1>2, <2>1, <2>2, <2>5, <3>1 DEF InReset
        <3> QED
            BY <1>2, <2>1, <3>1, <3>3, <3>4, <3>5, InResetStays
    <2>7. CASE ~Has("isRstingUsim")
        <3>1. /\ NoReset /\ ~Has("isRstingUsim")' /\ \A f \in Abnormal : f \notin flags'
              /\ pc'.EvtLoop = "loop"
            BY <2>2, <2>4, <2>7 DEF Has, NoReset
        <3> QED
            BY <2>1, <2>3, <2>5, <3>1, NoResetStays
    <2> QED
        BY <2>6, <2>7
<1>4. CASE mifi_status_hdlr
    <2>1. /\ UNCHANGED <<modem, wire, urc_fragment, URC_array, reg_urc_state, pc, uim_sender, left>>
          /\ reg_urc_state = "REGISTERED" /\ modem.registered
          /\ flags' = flags \union {"isMifiConnected"}
        BY <1>4 DEF mifi_status_hdlr
    <2>2. ~Has("isRstingUsim") /\ NoReset
        BY <2>1 DEF InReset
    <2>3. /\ ~Has("isRstingUsim")' /\ \A f \in Abnormal : f \notin flags'
          /\ pc'.EvtLoop = "loop"
        BY <2>1, <2>2 DEF NoReset, Has, Abnormal
    <2> QED
        BY <2>1, <2>2, <2>3, NoResetStays
<1>5. CASE UimSender
    <2>1. /\ UNCHANGED <<wire, urc_fragment, URC_array, reg_urc_state, ChannelNum, resume, pc, left>>
          /\ uim_sender /\ uim_sender' = FALSE
          /\ modem' = IF modem.power = "on" THEN [modem EXCEPT !.power = "going_down"] ELSE modem
          /\ flags' = flags \union {"isAutoReprotPowerDown"}
        BY <1>5 DEF UimSender
    <2>2. Has("isRstingUsim") /\ InReset
        BY <2>1 DEF NoReset
    <2>3. modem.power = "on"
        BY <2>1, <2>2 DEF InReset
    <2>4. modem \in Modems
        BY Facts
    <2>5. modem'.power = "going_down" /\ modem'.registered = modem.registered
        BY <2>1, <2>3, <2>4 DEF Modems
    <2>6. /\ Has("isRstingUsim")' /\ Has("isAutoReprotPowerDown")'
          /\ Has("not_available_mark")' => Has("not_available_mark")
          /\ Has("isUimPwrDwn")' <=> Has("isUimPwrDwn")
          /\ Has("isSessIllegalRecved")' => Has("isSessIllegalRecved")
          /\ Has("isEnableManualApdu") <=> Has("isEnableManualApdu")'
          /\ Has("isTermSuspNow") => Has("isTermSuspNow")'
        BY <2>1, <2>2 DEF Has
    <2>7. Taken => Taken'
        BY <2>1, <2>6, TakenSame
    <2>8. Answered' => reg_urc_state' = "IDLE" /\ ~modem'.registered /\ Taken' /\ pc'.EvtLoop = "loop"
        BY <1>2, <2>1, <2>2, <2>5, <2>7 DEF InReset
    <2>9. reg_urc_state' \in {"IDLE", "FAIL"} /\ (Has("isEnableManualApdu")' => ~Answered')
        BY <1>2, <2>1, <2>2, <2>6 DEF InReset
    <2> QED
        BY <1>2, <2>1, <2>2, <2>3, <2>5, <2>6, <2>8, <2>9, InResetStays
<1> QED
    BY <1>3, <1>4, <1>5

\* The steps of EvtLoop that take the traffic back, or move it.
LEMMA ChannelCalm ==
    ASSUME TypeOK, Silent, IF Has("isRstingUsim") THEN InReset ELSE NoReset,
           Resumes \/ Recovered \/ HandsOver
    PROVE  CalmInv'
<1>1. /\ UNCHANGED <<modem, wire, urc_fragment, URC_array, reg_urc_state, pc, uim_sender, left>>
      /\ Same(flags', flags, {"isTermSuspNow", "isTermRcvrNow", "PowerUpUsimAfterRecvingUrcRpt"})
    BY DEF Resumes, Recovered, HandsOver, EvtLoopMoves, Same
<1>2. Taken => Taken'
    BY TakenMoves
<1>3. may' = may /\ (Answered' <=> Answered)
    BY <1>1 DEF may, Answered
<1>4. /\ \A f \in Abnormal \union {"isRstingUsim", "isAutoReprotPowerDown"} : Has(f)' <=> Has(f)
      /\ Unset(flags) => Unset(flags')
    BY <1>1 DEF Same, Abnormal, Has, Unset
<1>5. /\ Has("isRstingUsim")' <=> Has("isRstingUsim")
      /\ Has("isAutoReprotPowerDown")' <=> Has("isAutoReprotPowerDown")
      /\ Has("not_available_mark")' <=> Has("not_available_mark")
      /\ Has("isUimPwrDwn")' <=> Has("isUimPwrDwn")
      /\ Has("isSessIllegalRecved")' <=> Has("isSessIllegalRecved")
      /\ Has("isEnableManualApdu")' <=> Has("isEnableManualApdu")
    BY <1>4 DEF Abnormal
<1>6. CASE Has("isRstingUsim")
    <2>1. /\ InReset /\ reg_urc_state' \in {"IDLE", "FAIL"}
          /\ uim_sender' <=> modem'.power = "on"
          /\ modem'.power # "on" => Has("isAutoReprotPowerDown")'
          /\ modem'.power = "off" => ~modem'.registered
          /\ Has("isEnableManualApdu")' => ~Answered'
        BY <1>1, <1>3, <1>5, <1>6 DEF InReset
    <2>2. Answered' => reg_urc_state' = "IDLE" /\ ~modem'.registered /\ Taken' /\ pc'.EvtLoop = "loop"
        BY <1>1, <1>2, <1>3, <2>1 DEF InReset
    <2> QED
        BY <1>1, <1>3, <1>5, <1>6, <2>1, <2>2, InResetStays
<1>7. CASE ~Has("isRstingUsim")
    <2>1. NoReset /\ pc'.EvtLoop = "loop" /\ \A f \in Abnormal : f \notin flags'
        BY <1>1, <1>4, <1>7 DEF NoReset, Has
    <2> QED
        BY <1>1, <1>2, <1>4, <1>5, <1>7, <2>1, NoResetStays
<1> QED
    BY <1>6, <1>7

\* Those that follow a timeout, or the answer of the server.
LEMMA AnswerCalm ==
    ASSUME TypeOK, Silent, IF Has("isRstingUsim") THEN InReset ELSE NoReset,
           AfterTimeout \/ IdAnswered
    PROVE  CalmInv'
<1>1. pc \in Pcs
    BY Facts
<1>2. may' = may /\ (Answered' <=> Answered)
    BY DEF AfterTimeout, IdAnswered, may, Answered
<1>3. CASE AfterTimeout
    <2>1. /\ UNCHANGED <<modem, wire, urc_fragment, URC_array, reg_urc_state, uim_sender, left>>
          /\ pc.EvtLoop # "loop"
        BY <1>3 DEF AfterTimeout
    <2>2. InReset /\ Has("isRstingUsim")
        BY <2>1 DEF NoReset
    <2>3. ~Answered'
        BY <1>2, <2>1, <2>2 DEF InReset
    <2>4. \/ flags' = flags
          \/ flags' = flags \ {"not_available_mark"}
          \/ flags' = flags \union {"PowerUpUsimAfterRecvingUrcRpt"}
        BY <1>3 DEF AfterTimeout
    <2>5. /\ Has("isRstingUsim")'
          /\ Has("isAutoReprotPowerDown")' <=> Has("isAutoReprotPowerDown")
          /\ Has("not_available_mark")' => Has("not_available_mark")
          /\ Has("isUimPwrDwn")' <=> Has("isUimPwrDwn")
          /\ Has("isSessIllegalRecved")' <=> Has("isSessIllegalRecved")
          /\ Has("isEnableManualApdu")' <=> Has("isEnableManualApdu")
        BY <2>2, <2>4 DEF Has
    <2>6. /\ reg_urc_state' \in {"IDLE", "FAIL"}
          /\ uim_sender' <=> modem'.power = "on"
          /\ modem'.power # "on" => Has("isAutoReprotPowerDown")'
          /\ modem'.power = "off" => ~modem'.registered
        BY <2>1, <2>2, <2>5 DEF InReset
    <2> QED
        BY <1>2, <2>1, <2>2, <2>3, <2>5, <2>6, InResetStays
<1>4. CASE IdAnswered /\ ~Has("isUimPwrDwn")
    <2>1. /\ UNCHANGED <<modem, wire, urc_fragment, URC_array, reg_urc_state, ChannelNum, resume,
                         pc, uim_sender, left>>
          /\ flags' = flags \ {"isNeedToSendIDMsg"}
        BY <1>4 DEF IdAnswered
    <2>2. /\ Has("isRstingUsim")' <=> Has("isRstingUsim")
          /\ Has("isAutoReprotPowerDown")' <=> Has("isAutoReprotPowerDown")
          /\ Has("not_available_mark")' <=> Has("not_available_mark")
          /\ Has("isUimPwrDwn")' <=> Has("isUimPwrDwn")
          /\ Has("isSessIllegalRecved")' <=> Has("isSessIllegalRecved")
          /\ Has("isEnableManualApdu")' <=> Has("isEnableManualApdu")
          /\ Has("isTermSuspNow") => Has("isTermSuspNow")'
          /\ Unset(flags) => Unset(flags')
        BY <2>1 DEF Has, Unset
    <2>3. Taken => Taken'
        BY <2>1, <2>2, TakenSame
    <2>4. CASE Has("isRstingUsim")
        <3>1. /\ InReset /\ reg_urc_state' \in {"IDLE", "FAIL"}
              /\ uim_sender' <=> modem'.power = "on"
              /\ modem'.power # "on" => Has("isAutoReprotPowerDown")'
              /\ modem'.power = "off" => ~modem'.registered
              /\ Has("isEnableManualApdu")' => ~Answered'
            BY <1>2, <2>1, <2>2, <2>4 DEF InReset
        <3>2. Answered' => reg_urc_state' = "IDLE" /\ ~modem'.registered /\ Taken' /\ pc'.EvtLoop = "loop"
            BY <1>2, <2>1, <2>3, <3>1 DEF InReset
        <3> QED
            BY <1>2, <2>1, <2>2, <2>4, <3>1, <3>2, InResetStays
    <2>5. CASE ~Has("isRstingUsim")
        <3>1. NoReset /\ pc'.EvtLoop = "loop" /\ \A f \in Abnormal : f \notin flags'
            BY <2>1, <2>5 DEF NoReset, Has
        <3> QED
            BY <2>1, <2>2, <2>3, <2>5, <3>1, NoResetStays
    <2> QED
        BY <2>4, <2>5
<1>5. CASE IdAnswered /\ Has("isUimPwrDwn")
    <2>1. Has("isRstingUsim") /\ InReset
        BY <1>5 DEF NoReset, Has, Abnormal
    <2>2. /\ modem.power = "off" /\ wire = <<>> /\ urc_fragment = "none" /\ ~modem.registered
          /\ ~Has("isSessIllegalRecved") /\ reg_urc_state \in {"IDLE", "FAIL"} /\ ~uim_sender
        BY <1>5, <2>1 DEF InReset
    <2>3. /\ UNCHANGED <<urc_fragment, URC_array, reg_urc_state, ChannelNum, resume, pc,
                         uim_sender, left>>
          /\ pc.EvtLoop = "loop"
          /\ flags' = flags \ {"isRstingUsim", "isUimPwrDwn", "not_available_mark",
                               "isEnableManualApdu", "isRegOffForPoorSig", "isNeedToSendIDMsg"}
          /\ modem' = [modem EXCEPT !.power = "on"]
          /\ wire' = Append(wire, "CARD_READY")
        BY <1>5, <2>2 DEF IdAnswered, power_up_virtual_usim, EvtLoopRuns
    <2>4. wire' = <<"CARD_READY">>
        BY <2>2, <2>3
    <2>5. Len(wire') = 1 /\ wire'[1] = "CARD_READY" /\ wire' # <<>>
        BY <2>4
    <2>6. modem \in Modems
        BY Facts
    <2>7. modem'.power = "on" /\ ~modem'.registered
        BY <2>2, <2>3, <2>6 DEF Modems
    <2>8. ~Has("isRstingUsim")' /\ \A f \in Abnormal : f \notin flags'
        BY <2>2, <2>3 DEF Has, Abnormal
    <2>9. \A i \in 1..Len(wire') : i = 1 /\ Unread(i)' = "CARD_READY"
        BY <2>5 DEF Unread
    <2>10. Kept' = <<>> /\ \A i \in 1..Len(Kept') : FALSE
        <3>1. Kept' = <<>> /\ Len(<<>>) = 0
            BY <2>2, <2>3 DEF Kept
        <3> QED
            BY <3>1
    <2>11. Cut' /\ Whole'
        BY <2>2, <2>3, <2>5 DEF Cut, Whole
    <2>12. Calm(Unheard') /\ Calm(Kept')
        <3>1. \A i \in 1..Len(Unheard') : Unheard'[i] = "CARD_READY"
            BY <2>5, <2>9 DEF Unheard
        <3> QED
            BY <2>10, <3>1 DEF Calm, Harmless
    <2>13. "CARD_READY" \notin Fatal' /\ "CARD_READY" # "NOT_AVAILABLE"
        BY DEF Fatal
    <2>14. \A i \in 1..Len(wire') :
               Unread(i)' # "NOT_AVAILABLE" /\ (Unread(i)' \in Fatal' => i = Len(wire'))
        BY <2>9, <2>13
    <2>15. Taken => Taken'
        <3>1. Has("isTermSuspNow") => Has("isTermSuspNow")'
            BY <2>3 DEF Has
        <3> QED
            BY <2>3, <3>1, TakenSame
    <2>16. Answered' => reg_urc_state' = "IDLE" /\ Taken'
        BY <1>2, <2>1, <2>3, <2>15 DEF InReset
    <2>17. 1 \in 1..Len(wire')
        BY <2>5
    <2>18. NoReset'
        BY <2>2, <2>3, <2>5, <2>7, <2>8, <2>9, <2>10, <2>11, <2>12, <2>14, <2>16, <2>17 DEF NoReset
    <2> QED
        BY <2>8, <2>18 DEF CalmInv
<1> QED
    BY <1>3, <1>4, <1>5

\* One report more, at the end.
LEMMA OneMore ==
    ASSUME NEW T, NEW U, Len(T) \in Nat, Len(U) = Len(T) + 1,
           \A i \in 1..Len(T) : U[i] = T[i], NEW S
    PROVE  /\ U[Len(U)] \in S => Decided(U, S)
           /\ U[Len(U)] \in Harmless /\ Decided(T, S) => Decided(U, S)
           /\ U[Len(U)] \in Harmless /\ Calm(T) => Calm(U)
           /\ Calm(U) => Calm(T) /\ U[Len(U)] \in Harmless
<1> DEFINE t == Len(T)
           n == Len(U)
<1>1. t \in Nat /\ n = t + 1 /\ \A i \in 1..t : U[i] = T[i]
    OBVIOUS
<1> HIDE DEF t, n
<1>2. /\ n \in 1..n /\ \A i \in 1..t : i \in 1..n
      /\ \A i \in 1..n : i \in 1..t \/ i = n
      /\ \A k \in (n + 1)..n : FALSE
    BY <1>1
<1>3. /\ Decided(U, S) <=> \E j \in 1..n : U[j] \in S /\ \A k \in (j + 1)..n : U[k] \in Harmless
      /\ Decided(T, S) <=> \E j \in 1..t : T[j] \in S /\ \A k \in (j + 1)..t : T[k] \in Harmless
      /\ Calm(U) <=> \A j \in 1..n : U[j] \in Harmless
      /\ Calm(T) <=> \A j \in 1..t : T[j] \in Harmless
    BY DEF Decided, Calm, t, n
<1>4. U[n] \in S => Decided(U, S)
    BY <1>2, <1>3
<1>5. ASSUME U[n] \in Harmless, Decided(T, S)
      PROVE  Decided(U, S)
    <2>1. PICK j \in 1..t : T[j] \in S /\ \A k \in (j + 1)..t : T[k] \in Harmless
        BY <1>3, <1>5
    <2>2. ASSUME NEW k \in (j + 1)..n
          PROVE  U[k] \in Harmless
        <3>1. k = n \/ (k \in (j + 1)..t /\ k \in 1..t)
            BY <1>1
        <3> QED
            BY <1>1, <1>5, <2>1, <3>1
    <2>3. j \in 1..n /\ U[j] \in S
        BY <1>1, <1>2, <2>1
    <2> QED
        BY <1>3, <2>2, <2>3
<1>6. U[n] \in Harmless /\ Calm(T) => Calm(U)
    BY <1>1, <1>2, <1>3
<1>7. Calm(U) => Calm(T) /\ U[n] \in Harmless
    BY <1>1, <1>2, <1>3
<1>8. n = Len(U)
    BY DEF n
<1> QED
    BY <1>4, <1>5, <1>6, <1>7, <1>8

\* What mdmImodem says comes behind what was not read.
LEMMA SaidOf ==
    ASSUME TypeOK, NEW u \in Lines, u # "REST", wire' = Append(wire, u),
           urc_fragment' = urc_fragment, URC_array' = URC_array
    PROVE  /\ Len(wire) \in Nat /\ Len(wire') = Len(wire) + 1 /\ wire' # <<>>
           /\ \A i \in 1..Len(wire) : Unread(i)' = Unread(i) /\ i \in 1..Len(wire')
           /\ \A i \in 1..Len(wire') : i \in 1..Len(wire) \/ (i = Len(wire') /\ Unread(i)' = u)
           /\ Cut => Cut'
           /\ Whole => Whole'
           /\ Kept' = Kept
           /\ Len(Unheard) = Len(wire) /\ Len(Unheard') = Len(wire')
           /\ \A i \in 1..Len(Unheard) : Unheard'[i] = Unheard[i]
           /\ Unheard'[Len(Unheard')] = u
<1> DEFINE n == Len(wire)
           m == Len(wire')
<1>1. wire \in Seq(Lines) /\ n \in Nat
    BY Facts
<1>2. m = n + 1 /\ wire'[m] = u /\ \A i \in 1..n : wire'[i] = wire[i]
    BY <1>1
<1>3. wire # <<>> <=> n > 0
    BY <1>1
<1>4. /\ \A i \in 1..n : i \in 1..m
      /\ \A i \in 1..m : i \in 1..n \/ i = m
      /\ m \in 1..m /\ m \in Nat /\ m > 0
      /\ n = 0 => m = 1
      /\ n > 0 => 1 \in 1..n
    <2> HIDE DEF n, m
    <2> QED
        BY <1>1, <1>2
<1>5. wire' # <<>>
    <2>1. Len(<<>>) = 0 /\ ~(0 > 0)
        OBVIOUS
    <2> QED
        BY <1>4, <2>1
<1>6. \A i \in 1..n : Unread(i)' = Unread(i)
    BY <1>2 DEF Unread
<1>7. \A i : i = m => Unread(i)' = u
    BY <1>2 DEF Unread
<1>8. ASSUME Cut
      PROVE  Cut'
    <2>1. CASE n = 0
        <3>1. urc_fragment = "none" /\ wire'[1] = u
            BY <1>2, <1>3, <1>4, <1>8, <2>1 DEF Cut
        <3> QED
            BY <3>1 DEF Cut
    <2>2. CASE n > 0
        <3>1. wire'[1] = wire[1]
            BY <1>2, <1>4, <2>2
        <3> QED
            BY <1>3, <1>5, <1>8, <2>2, <3>1 DEF Cut
    <2> QED
        BY <1>1, <2>1, <2>2
<1>9. ASSUME Whole
      PROVE  Whole'
    BY <1>2, <1>4, <1>9 DEF Whole
<1>10. Kept' = Kept
    BY DEF Kept
<1>11. Len(Unheard) = n /\ \A i \in 1..n : Unheard[i] = Unread(i)
    BY <1>1 DEF Unheard
<1>12. Len(Unheard') = m /\ \A i \in 1..m : Unheard'[i] = Unread(i)'
    <2>1. Unheard' = [i \in 1..m |-> Unread(i)']
        BY DEF Unheard
    <2>2. m \in Nat
        BY <1>4
    <2> HIDE DEF m
    <2> QED
        BY <2>1, <2>2
<1>13. /\ \A i \in 1..Len(Unheard) : Unheard'[i] = Unheard[i]
       /\ Unheard'[Len(Unheard')] = u
    BY <1>4, <1>6, <1>7, <1>11, <1>12
<1> QED
    BY <1>1, <1>2, <1>4, <1>5, <1>6, <1>7, <1>8, <1>9, <1>10, <1>11, <1>12, <1>13

\* A report that leaves the power on, before any that has the USIM reset.
LEMMA NoResetSaid ==
    ASSUME TypeOK, NoReset, ~Has("isRstingUsim"), NEW u \in Lines, u \notin {"REST", "NOT_AVAILABLE"},
           NEW m, Says(u, m), left'.may = left.may, left'.timeouts = left.timeouts,
           m.power = "on",
           \A i \in DOMAIN wire : wire[i] \notin Fatal, urc_fragment \notin Fatal,
           \/ u = "REG" /\ m.registered
           \/ u \in Lost /\ ~m.registered
           \/ u \in Harmless /\ m.registered = modem.registered
    PROVE  CalmInv'
<1>1. /\ modem' = m /\ wire' = Append(wire, u)
      /\ UNCHANGED <<urc_fragment, URC_array, reg_urc_state, ChannelNum, resume, flags, pc, uim_sender>>
    BY DEF Says
<1>2. /\ Len(wire) \in Nat /\ Len(wire') = Len(wire) + 1 /\ wire' # <<>>
      /\ \A i \in 1..Len(wire) : Unread(i)' = Unread(i) /\ i \in 1..Len(wire')
      /\ \A i \in 1..Len(wire') : i \in 1..Len(wire) \/ (i = Len(wire') /\ Unread(i)' = u)
      /\ Cut => Cut'
      /\ Whole => Whole'
      /\ Kept' = Kept
      /\ Len(Unheard) = Len(wire) /\ Len(Unheard') = Len(wire')
      /\ \A i \in 1..Len(Unheard) : Unheard'[i] = Unheard[i]
      /\ Unheard'[Len(Unheard')] = u
    <2>1. u # "REST"
        OBVIOUS
    <2> QED
        BY <1>1, <2>1, SaidOf
<1>3. may' = may /\ (Answered' <=> Answered) /\ Fatal' = Fatal
    BY DEF may, Answered, Fatal
<1>4. \A i \in 1..Len(wire) : Unread(i) \notin Fatal
    <2>1. DOMAIN wire = 1..Len(wire)
        BY Facts
    <2> QED
        BY <2>1 DEF Unread
<1>5. /\ \A i \in 1..Len(wire') :
            Unread(i)' # "NOT_AVAILABLE" /\ (Unread(i)' \in Fatal' => i = Len(wire'))
      /\ \A i \in 1..Len(Kept') : Kept'[i] \notin Fatal' \union {"NOT_AVAILABLE"}
    <2>1. u # "NOT_AVAILABLE"
        OBVIOUS
    <2>2. /\ \A i \in 1..Len(wire) : Unread(i) # "NOT_AVAILABLE"
          /\ \A i \in 1..Len(Kept) : Kept[i] \notin Fatal \union {"NOT_AVAILABLE"}
        BY DEF NoReset
    <2>3. ASSUME NEW i \in 1..Len(wire')
          PROVE  Unread(i)' # "NOT_AVAILABLE" /\ (Unread(i)' \in Fatal' => i = Len(wire'))
        <3>1. CASE i \in 1..Len(wire)
            BY <1>2, <1>3, <1>4, <2>2, <3>1
        <3>2. CASE i = Len(wire') /\ Unread(i)' = u
            BY <2>1, <3>2
        <3> QED
            BY <1>2, <2>3, <3>1, <3>2
    <2> QED
        BY <1>2, <1>3, <2>2, <2>3
<1>6. ASSUME reg_urc_state' = "IDLE"
      PROVE  wire' # <<>> /\ Unread(1)' = "CARD_READY" /\ Kept' = <<>>
    <2>1. wire # <<>> /\ Unread(1) = "CARD_READY" /\ Kept = <<>>
        BY <1>1, <1>6 DEF NoReset
    <2>2. 1 \in 1..Len(wire)
        <3>1. wire \in Seq(Lines)
            BY Facts
        <3> QED
            BY <2>1, <3>1
    <2> QED
        BY <1>2, <2>1, <2>2
<1>7. \A S : /\ u \in S => Decided(Unheard', S)
             /\ u \in Harmless /\ Decided(Unheard, S) => Decided(Unheard', S)
             /\ u \in Harmless /\ Calm(Unheard) => Calm(Unheard')
             /\ Calm(Unheard') => Calm(Unheard) /\ u \in Harmless
    <2> TAKE S
    <2>1. Len(Unheard) \in Nat /\ Len(Unheard') = Len(Unheard) + 1
        BY <1>2
    <2> QED
        BY <1>2, <2>1, OneMore
<1>8. /\ Decided(Unheard', {"REG"}) \/ u # "REG"
      /\ Decided(Unheard', Lost) \/ u \notin Lost
      /\ u \in Harmless => u # "REG" /\ u \notin Lost
      /\ Calm(Unheard') => u \in Harmless
    BY <1>7 DEF Harmless, Lost, Losses, Rejections
<1>9. modem'.registered =>
            \/ Decided(Unheard', {"REG"})
            \/ /\ Calm(Unheard') /\ reg_urc_state' = "REGISTERED"
               /\ Calm(Kept') \/ Decided(Kept', {"REG"})
    <2>1. CASE u \in Harmless /\ m.registered = modem.registered
        BY <1>1, <1>2, <1>7, <2>1 DEF NoReset
    <2> QED
        BY <1>1, <1>8, <2>1
<1>10. ~modem'.registered =>
            \/ Decided(Unheard', Lost)
            \/ /\ Calm(Unheard') /\ reg_urc_state' # "REGISTERED"
               /\ Calm(Kept') \/ Decided(Kept', Lost)
    <2>1. CASE u \in Harmless /\ m.registered = modem.registered
        BY <1>1, <1>2, <1>7, <2>1 DEF NoReset
    <2> QED
        BY <1>1, <1>8, <2>1
<1>11. ~modem'.registered /\ Answered' /\ Calm(Unheard') /\ reg_urc_state' # "IDLE" => Unset(flags')
    <2>1. CASE u \in Harmless /\ m.registered = modem.registered
        BY <1>1, <1>3, <1>7, <2>1 DEF NoReset
    <2> QED
        BY <1>8, <2>1
<1>12. reg_urc_state' # "REGISTERED" /\ Answered' => Taken'
    <2>1. Taken => Taken'
        BY <1>1 DEF Taken, Asked, Has
    <2> QED
        BY <1>1, <1>3, <2>1 DEF NoReset
<1>13. /\ modem'.power = "on" /\ ~uim_sender' /\ pc'.EvtLoop = "loop"
       /\ \A f \in Abnormal : f \notin flags'
       /\ Cut' /\ Whole' /\ reg_urc_state' \notin {"CARD_ERROR", "REJECTED"}
    BY <1>1, <1>2 DEF NoReset
<1>14. NoReset'
    BY <1>5, <1>6, <1>9, <1>10, <1>11, <1>12, <1>13 DEF NoReset
<1>15. ~Has("isRstingUsim")'
    BY <1>1 DEF Has
<1> QED
    BY <1>14, <1>15 DEF CalmInv

\* mdmImodem speaks.
LEMMA ModemCalm ==
    ASSUME TypeOK, Silent, IF Has("isRstingUsim") THEN InReset ELSE NoReset,
           Registers \/ Reports \/ PowersDown
    PROVE  CalmInv'
<1>1. modem \in Modems /\ may.says \subseteq Losses \union Specials \union {"SYS_MODE", "OTHER"}
    BY Facts
<1>2. MayReport => /\ modem.power = "on" /\ ~Has("isRstingUsim")
                   /\ \A i \in DOMAIN wire : wire[i] \notin Fatal
                   /\ urc_fragment \notin Fatal
    BY DEF MayReport, Silent
<1>3. CASE Registers
    <2>1. /\ NoReset /\ modem.power = "on" /\ ~Has("isRstingUsim")
          /\ \A i \in DOMAIN wire : wire[i] \notin Fatal
          /\ urc_fragment \notin Fatal
        BY <1>2, <1>3 DEF Registers
    <2> DEFINE m == [modem EXCEPT !.registered = TRUE]
    <2>2. Says("REG", m) /\ left' = left
        BY <1>3 DEF Registers
    <2>3. m.registered /\ m.power = "on"
        BY <1>1, <2>1 DEF Modems
    <2>4. "REG" \in Lines /\ "REG" \notin {"REST", "NOT_AVAILABLE"}
        BY DEF Lines
    <2> HIDE DEF m
    <2> QED
        BY <2>1, <2>2, <2>3, <2>4, NoResetSaid
<1>4. CASE Reports
    <2>1. /\ NoReset /\ modem.power = "on" /\ ~Has("isRstingUsim")
          /\ \A i \in DOMAIN wire : wire[i] \notin Fatal
          /\ urc_fragment \notin Fatal
        BY <1>2, <1>4 DEF Reports
    <2>2. PICK u \in may.says :
              Says(u, [power |-> IF u = "NOT_AVAILABLE" THEN "off" ELSE modem.power,
                       registered |-> modem.registered /\ u \in {"SYS_MODE", "OTHER"}])
        BY <1>4 DEF Reports
    <2> DEFINE m == [power |-> IF u = "NOT_AVAILABLE" THEN "off" ELSE modem.power,
                     registered |-> modem.registered /\ u \in {"SYS_MODE", "OTHER"}]
    <2>3. u # "NOT_AVAILABLE"
        BY DEF Silent
    <2>4. /\ u \in Lost \union {"SYS_MODE", "OTHER"} /\ u \notin {"REST", "NOT_AVAILABLE"}
          /\ u \in Lines
        BY <1>1, <2>3 DEF Lost, Losses, Rejections, Specials, Lines
    <2>5. Says(u, m) /\ m.power = "on" /\ (m.registered <=> modem.registered /\ u \in {"SYS_MODE", "OTHER"})
        BY <2>1, <2>2, <2>3
    <2>6. left'.may = left.may /\ left'.timeouts = left.timeouts
        <3>1. left \in [may : Cases, urcs : 0..may.urcs, timeouts : 0..may.timeouts]
            BY DEF TypeOK
        <3>2. left' = [left EXCEPT !.urcs = left.urcs - 1]
            BY <1>4 DEF Reports
        <3> QED
            BY <3>1, <3>2
    <2>7. \/ u \in Lost /\ ~m.registered
          \/ u \in Harmless /\ m.registered = modem.registered
        <3>1. CASE u \in Lost
            <4>1. u \notin {"SYS_MODE", "OTHER"}
                BY <3>1 DEF Lost, Losses, Rejections
            <4> QED
                BY <2>5, <3>1, <4>1
        <3>2. CASE u \in {"SYS_MODE", "OTHER"}
            <4>1. m.registered \in BOOLEAN /\ modem.registered \in BOOLEAN
                BY <1>1 DEF Modems
            <4> QED
                BY <2>5, <3>2, <4>1 DEF Harmless
        <3> QED
            BY <2>4, <3>1, <3>2
    <2> HIDE DEF m
    <2> QED
        BY <2>1, <2>4, <2>5, <2>6, <2>7, NoResetSaid
<1>5. CASE PowersDown
    <2>1. /\ modem.power = "going_down" /\ left' = left
          /\ wire' = Append(wire, "NOT_AVAILABLE")
          /\ modem' = [power |-> "off", registered |-> FALSE]
          /\ UNCHANGED <<urc_fragment, URC_array, reg_urc_state, ChannelNum, resume, flags, pc, uim_sender>>
        BY <1>5 DEF PowersDown, Says
    <2>2. Has("isRstingUsim") /\ InReset
        BY <2>1 DEF NoReset
    <2>3. "NOT_AVAILABLE" \in Lines /\ "NOT_AVAILABLE" # "REST"
        BY DEF Lines
    <2>4. /\ Len(wire) \in Nat /\ Len(wire') = Len(wire) + 1 /\ wire' # <<>>
          /\ \A i \in 1..Len(wire) : Unread(i)' = Unread(i) /\ i \in 1..Len(wire')
          /\ \A i \in 1..Len(wire') :
                i \in 1..Len(wire) \/ (i = Len(wire') /\ Unread(i)' = "NOT_AVAILABLE")
          /\ Cut => Cut'
          /\ Whole => Whole'
          /\ Kept' = Kept
        BY <2>1, <2>3, SaidOf
    <2>5. modem'.power = "off" /\ ~modem'.registered
        BY <2>1
    <2>6. /\ ~uim_sender' /\ Has("isAutoReprotPowerDown")' /\ ~Has("isUimPwrDwn")'
          /\ ~Has("not_available_mark")' /\ ~Has("isSessIllegalRecved")' /\ Whole'
          /\ reg_urc_state' \in {"IDLE", "FAIL"}
        BY <2>1, <2>2, <2>4 DEF InReset, Has
    <2>7. /\ \A i \in 1..Len(wire) : Unread(i) # "NOT_AVAILABLE"
          /\ \A i \in 1..Len(Kept) : Kept[i] # "NOT_AVAILABLE"
        BY <2>1, <2>2 DEF InReset
    <2>8. \A i \in 1..Len(wire') : Unread(i)' = "NOT_AVAILABLE" => i = Len(wire')
        BY <2>4, <2>7
    <2>9. may' = may /\ (Answered' <=> Answered) /\ (Taken' <=> Taken)
        BY <2>1 DEF may, Answered, Taken, Asked, Has
    <2>10. \/ Has("isEnableManualApdu")'
           \/ Cut' /\ Kept' = <<>> /\ Len(wire') = 1 /\ Unread(1)' = "NOT_AVAILABLE"
        <3>1. CASE Has("isEnableManualApdu")
            BY <2>1, <3>1 DEF Has
        <3>2. CASE ~Has("isEnableManualApdu")
            <4>1. Cut /\ Kept = <<>> /\ (wire = <<>> \/ (Len(wire) = 1 /\ Unread(1) = "NOT_AVAILABLE"))
                BY <2>2, <3>2 DEF InReset
            <4>2. wire = <<>>
                BY <2>7, <4>1
            <4>3. Len(wire) = 0
                BY <4>2
            <4>4. Len(wire') = 1 /\ 1 \in 1..1 /\ 1 \notin 1..0
                BY <2>4, <4>3
            <4>5. Unread(1)' = "NOT_AVAILABLE"
                BY <2>4, <4>3, <4>4
            <4> QED
                BY <2>4, <4>1, <4>4, <4>5
        <3> QED
            BY <3>1, <3>2
    <2>11. Has("isEnableManualApdu")' => ~Answered'
        BY <2>1, <2>2, <2>9 DEF InReset, Has
    <2>12. Answered' => reg_urc_state' = "IDLE" /\ Taken' /\ pc'.EvtLoop = "loop"
        BY <2>1, <2>2, <2>9 DEF InReset
    <2>13. InReset'
        BY <2>4, <2>5, <2>6, <2>7, <2>8, <2>10, <2>11, <2>12 DEF InReset
    <2>14. Has("isRstingUsim")'
        BY <2>1, <2>2 DEF Has
    <2> QED
        BY <2>13, <2>14 DEF CalmInv
<1> QED
    BY <1>3, <1>4, <1>5

-----------------------------------------------------------------------------
(* A read while the USIM is reset.                                         *)

\* Then a report is not handled: it is the last, and says that the power is gone, or is
\* thrown away, or only the first part of it is there.
LEMMA CheckedReset ==
    ASSUME NEW lines, NEW x, Checked(lines, x), Has("isRstingUsim"),
           ~Has("not_available_mark"), ~Has("isSessIllegalRecved"), ~Has("isUimPwrDwn"),
           Len(lines) \in Nat, DOMAIN lines = 1..Len(lines)
    PROVE  /\ /\ \E i \in DOMAIN lines : lines[i] = "NOT_AVAILABLE"
              /\ Has("isAutoReprotPowerDown")
              => Ignored(NotAvailable(flags \union {"not_available_mark"}), "none")
           /\ /\ \A i \in DOMAIN lines : lines[i] # "NOT_AVAILABLE"
              /\ Has("isEnableManualApdu")
              => Ignored(flags, "none")
           /\ Len(lines) = 0 /\ ~Has("isEnableManualApdu") => Ignored(flags, x)
<1> DEFINE Seen(u) == \E i \in DOMAIN lines : lines[i] = u
           f == IF Seen("NOT_AVAILABLE") THEN flags \union {"not_available_mark"} ELSE flags
           na == lines # <<>> /\ "not_available_mark" \in f
           valid == \E i \in DOMAIN lines : Valid(lines[i])
<1>1. Seen("NOT_AVAILABLE") => f = flags \union {"not_available_mark"} /\ na
    <2>1. ASSUME Seen("NOT_AVAILABLE"), lines = <<>>
          PROVE  FALSE
        <3>1. Len(lines) = 0
            BY <2>1
        <3> QED
            BY <2>1, <3>1
    <2> QED
        BY <2>1
<1>2. ~Seen("NOT_AVAILABLE") => f = flags /\ ~na
    BY DEF Has
<1>3. Len(lines) = 0 => ~Seen("NOT_AVAILABLE") /\ ~valid
    OBVIOUS
<1>4. Checked(lines, x) =
        CASE na /\ ~Has("isAutoReprotPowerDown") -> Reboots
          [] Seen("SESSION_ILLEGAL") /\ ~Has("isRstingUsim")
                /\ (na => Has("isAutoReprotPowerDown")) ->
                SessionIllegal(IF na THEN NotAvailable(f) \union {"isSessIllegalRecved"} ELSE f)
          [] na /\ Has("isAutoReprotPowerDown")
                /\ ~(Seen("SESSION_ILLEGAL") /\ ~Has("isRstingUsim")) ->
                Ignored(NotAvailable(f), "none")
          [] OTHER ->
                IF Has("isSessIllegalRecved") THEN Ignored(f \ {"isSessIllegalRecved"}, "none")
                ELSE IF Ignores THEN Ignored(f, "none")
                ELSE IF ~valid THEN Ignored(f, x)
                ELSE Handled(lines, f, x)
    BY DEF Checked
<1>5. Ignores <=> Has("isEnableManualApdu")
    BY DEF Ignores
<1>6. Seen("NOT_AVAILABLE") <=> \E i \in DOMAIN lines : lines[i] = "NOT_AVAILABLE"
    OBVIOUS
<1> HIDE DEF f, na, valid, Seen
<1>7. ASSUME Seen("NOT_AVAILABLE"), Has("isAutoReprotPowerDown")
      PROVE  Ignored(NotAvailable(flags \union {"not_available_mark"}), "none")
    <2>1. Ignored(NotAvailable(f), "none")
        BY <1>1, <1>4, <1>7
    <2> QED
        BY <1>1, <1>7, <2>1
<1>8. ASSUME ~Seen("NOT_AVAILABLE")
      PROVE  IF Ignores THEN Ignored(flags, "none")
             ELSE IF ~valid THEN Ignored(flags, x) ELSE Handled(lines, flags, x)
    <2>1. f = flags /\ ~na
        BY <1>2, <1>8
    <2> QED
        BY <1>4, <2>1
<1> QED
    BY <1>3, <1>5, <1>6, <1>7, <1>8

\* Whatever it is, the reset goes on.
LEMMA InResetRead ==
    ASSUME Silent, InReset, Has("isRstingUsim"), TypeOK, TypeOK', Room, urc_parse_hdlr
    PROVE  CalmInv'
<1>1. wire # <<>> /\ modem' = modem /\ left' = left
    BY DEF urc_parse_hdlr
<1>2. /\ ~Has("isUimPwrDwn") /\ ~Has("not_available_mark") /\ ~Has("isSessIllegalRecved")
      /\ Whole
    BY <1>1 DEF InReset
<1>3. PICK n \in 1..Len(wire), cut \in BOOLEAN :
          LET p == Counted(n, cut) IN
          /\ cut => wire[n] # "REST"
          /\ wire' = (IF cut THEN <<"REST">> ELSE <<>>) \o SubSeq(wire, n + 1, Len(wire))
          /\ URC_array' = p.lines
          /\ Checked(p.lines, Fragment(n, cut, p.full))
    BY CountedRead
<1> DEFINE c == Complete(n, cut)
           x == IF cut THEN wire[n] ELSE "none"
           l == URC_array'
           k == Len(Kept)
           w == wire'
<1>4. LET p == Counted(n, cut) IN
      /\ p.lines = Kept \o LinesOf(n, cut) /\ p.full = FALSE
      /\ Fragment(n, cut, p.full) = IF cut THEN wire[n] ELSE "none"
      /\ Len(p.lines) = Len(Kept) + Complete(n, cut)
      /\ \A i \in 1..Len(Kept) : p.lines[i] = Kept[i]
      /\ \A i \in 1..Complete(n, cut) : p.lines[Len(Kept) + i] = LinesOf(n, cut)[i]
    BY ArrayIs DEF Room
<1>5. /\ Checked(l, x) /\ Len(l) = k + c
      /\ \A i \in 1..k : l[i] = Kept[i]
      /\ \A i \in 1..c : l[k + i] = LinesOf(n, cut)[i]
    BY <1>3, <1>4
<1>6. wire \in Seq(Lines) /\ Len(wire) \in Nat /\ l \in Seq(Lines \ {"REST"}) /\ k \in Nat
    <2>1. Kept \in Seq(Lines \ {"REST"})
          /\ Counted(n, cut).lines \in Seq(Lines \ {"REST"})
        BY CountedTypes
    <2>2. l \in Seq(Lines \ {"REST"})
        BY <1>3, <2>1
    <2>3. wire \in Seq(Lines)
        BY Facts
    <2> HIDE DEF l
    <2> QED
        BY <2>1, <2>2, <2>3
<1>7. /\ c \in 0..Len(wire) /\ Len(w) = Len(wire) - c
      /\ \A i \in 1..Len(w) :
            i + c \in 1..Len(wire) /\ w[i] = IF cut /\ i = 1 THEN "REST" ELSE wire[i + c]
    <2>1. w = Remaining(n, cut)
        BY <1>3 DEF Remaining
    <2> QED
        BY <2>1, WireAfter, Zenon
<1>8. c = (IF cut THEN n - 1 ELSE n) /\ n \in 1..Len(wire) /\ n \in Nat
    BY <1>6 DEF Complete
<1>9. ASSUME NEW i \in 1..c, LinesOf(n, cut)[i] = "NOT_AVAILABLE"
      PROVE  Unread(i) = "NOT_AVAILABLE" /\ i \in 1..Len(wire)
    <2>1. i \in 1..(IF cut THEN n - 1 ELSE n)
        BY <1>8
    <2>2. LinesOf(n, cut)[i] = IF wire[i] # "REST" THEN wire[i]
                               ELSE IF urc_fragment # "none" THEN urc_fragment ELSE "OTHER"
        BY <2>1 DEF LinesOf
    <2>3. i \in 1..Len(wire)
        BY <1>6, <1>7
    <2> QED
        BY <1>9, <2>2, <2>3 DEF Unread
<1>10. /\ \A i \in 1..Len(wire) :
             Unread(i) = "NOT_AVAILABLE" => i = Len(wire) /\ modem.power = "off"
       /\ \A i \in 1..k : Kept[i] # "NOT_AVAILABLE"
       /\ modem.power # "on" => Has("isAutoReprotPowerDown")
    BY DEF InReset
<1>11. /\ uim_sender <=> modem.power = "on"
       /\ modem.power = "off" => ~modem.registered
       /\ reg_urc_state \in {"IDLE", "FAIL"}
       /\ Has("isEnableManualApdu") => ~Answered
       /\ Answered => reg_urc_state = "IDLE" /\ ~modem.registered /\ Taken /\ pc.EvtLoop = "loop"
    BY DEF InReset
<1>12. may' = may /\ (Answered' <=> Answered)
    BY <1>1 DEF may, Answered
<1>13. Len(l) \in Nat /\ DOMAIN l = 1..Len(l)
    BY <1>6
<1>14. ASSUME NEW f, NEW y, Ignored(f, y), \A g : g \in flags /\ g \in {"isRstingUsim",
              "isAutoReprotPowerDown", "isTermSuspNow"} => g \in f
       PROVE  /\ flags' = f /\ urc_fragment' = y
              /\ uim_sender' <=> modem'.power = "on"
              /\ modem'.power # "on" => Has("isAutoReprotPowerDown")'
              /\ modem'.power = "off" => ~modem'.registered
              /\ reg_urc_state' \in {"IDLE", "FAIL"} /\ Has("isRstingUsim")'
              /\ Answered' => /\ reg_urc_state' = "IDLE" /\ ~modem'.registered
                              /\ Taken' /\ pc'.EvtLoop = "loop"
    <2>1. /\ flags' = f /\ urc_fragment' = y
          /\ UNCHANGED <<reg_urc_state, ChannelNum, resume, pc, uim_sender>>
        BY <1>14 DEF Ignored
    <2>2. /\ Has("isAutoReprotPowerDown") => Has("isAutoReprotPowerDown")'
          /\ Has("isRstingUsim")'
          /\ Has("isTermSuspNow") => Has("isTermSuspNow")'
        BY <1>14, <2>1 DEF Has
    <2>3. Taken => Taken'
        BY <2>1, <2>2, TakenSame
    <2> QED
        BY <1>1, <1>10, <1>11, <1>12, <2>1, <2>2, <2>3
<1>15. CASE \E i \in DOMAIN l : l[i] = "NOT_AVAILABLE"
    <2>1. PICK i \in 1..Len(l) : l[i] = "NOT_AVAILABLE"
        BY <1>13, <1>15
    <2>2. PICK j \in 1..c : LinesOf(n, cut)[j] = "NOT_AVAILABLE"
        <3>1. i \in 1..k \/ (i - k \in 1..c /\ i = k + (i - k))
            <4>1. i \in Nat /\ 1 <= i /\ i <= k + c /\ c \in Nat /\ k \in Nat
                BY <1>5, <1>6, <1>7
            <4> HIDE DEF k, c
            <4> QED
                BY <4>1
        <3>2. i \notin 1..k
            BY <1>5, <1>10, <2>1
        <3> QED
            BY <1>5, <2>1, <3>1, <3>2
    <2>3. j = Len(wire) /\ modem.power = "off"
        BY <1>9, <1>10, <2>2
    <2>4. Len(w) = 0 /\ w = <<>>
        <3>1. Len(w) = 0
            <4>1. j \in 1..c /\ j = Len(wire) /\ c \in 0..Len(wire) /\ Len(w) = Len(wire) - c
                  /\ Len(wire) \in Nat
                BY <1>6, <1>7, <2>3
            <4> HIDE DEF c, w
            <4> QED
                BY <4>1
        <3>2. w \in Seq(Lines)
            BY <1>3, WireTypes
        <3>3. \A s \in Seq(Lines) : Len(s) = 0 => s = <<>>
            OBVIOUS
        <3> QED
            BY <3>1, <3>2, <3>3
    <2> DEFINE F == NotAvailable(flags \union {"not_available_mark"})
    <2>5. Ignored(F, "none")
        BY <1>2, <1>5, <1>10, <1>13, <1>15, <2>3, CheckedReset
    <2>6. /\ "isUimPwrDwn" \in F /\ "isSessIllegalRecved" \notin F
          /\ \A g : g \in flags /\ g \in {"isRstingUsim", "isAutoReprotPowerDown", "isTermSuspNow"} => g \in F
          /\ "isEnableManualApdu" \in F => Has("isEnableManualApdu")
        BY <1>2 DEF NotAvailable, Has
    <2> HIDE DEF F
    <2>7. /\ flags' = F /\ urc_fragment' = "none"
          /\ uim_sender' <=> modem'.power = "on"
          /\ modem'.power # "on" => Has("isAutoReprotPowerDown")'
          /\ modem'.power = "off" => ~modem'.registered
          /\ reg_urc_state' \in {"IDLE", "FAIL"} /\ Has("isRstingUsim")'
          /\ Answered' => /\ reg_urc_state' = "IDLE" /\ ~modem'.registered
                          /\ Taken' /\ pc'.EvtLoop = "loop"
        BY <1>14, <2>5, <2>6
    <2>8. Kept' = <<>> /\ \A q \in 1..Len(Kept') : FALSE
        <3>1. Kept' = <<>> /\ Len(<<>>) = 0
            BY <2>7 DEF Kept
        <3> QED
            BY <3>1
    <2>9. Cut' /\ Whole' /\ \A q \in 1..Len(wire') : FALSE
        BY <2>4, <2>7 DEF Cut, Whole
    <2>10. /\ Has("isUimPwrDwn")' /\ ~Has("isSessIllegalRecved")'
           /\ Has("isEnableManualApdu")' => ~Answered'
        BY <1>11, <1>12, <2>6, <2>7 DEF Has
    <2>11. modem'.power = "off"
        BY <1>1, <2>3
    <2>12. InReset'
        BY <2>4, <2>7, <2>8, <2>9, <2>10, <2>11 DEF InReset
    <2> QED
        BY <2>7, <2>12 DEF CalmInv
<1>16. CASE /\ \A i \in DOMAIN l : l[i] # "NOT_AVAILABLE"
            /\ Has("isEnableManualApdu")
    <2>1. Ignored(flags, "none")
        BY <1>2, <1>5, <1>13, <1>16, CheckedReset
    <2>2. /\ flags' = flags /\ urc_fragment' = "none"
          /\ uim_sender' <=> modem'.power = "on"
          /\ modem'.power # "on" => Has("isAutoReprotPowerDown")'
          /\ modem'.power = "off" => ~modem'.registered
          /\ reg_urc_state' \in {"IDLE", "FAIL"} /\ Has("isRstingUsim")'
          /\ Answered' => /\ reg_urc_state' = "IDLE" /\ ~modem'.registered
                          /\ Taken' /\ pc'.EvtLoop = "loop"
        BY <1>14, <2>1
    <2>3. Kept' = <<>> /\ \A q \in 1..Len(Kept') : FALSE
        <3>1. Kept' = <<>> /\ Len(<<>>) = 0
            BY <2>2 DEF Kept
        <3> QED
            BY <3>1
    <2>4. ASSUME NEW i \in 1..Len(w)
          PROVE  /\ w[i] = "REST" => i = 1
                 /\ Unread(i)' = "NOT_AVAILABLE" => i = Len(w) /\ modem.power = "off"
        <3>1. i + c \in 1..Len(wire) /\ w[i] = IF cut /\ i = 1 THEN "REST" ELSE wire[i + c]
            BY <1>7
        <3>2. i \in Nat /\ i > 0 /\ c \in Nat /\ Len(w) = Len(wire) - c /\ Len(wire) \in Nat
            BY <1>6, <1>7
        <3>3. wire[i + c] = "REST" => i + c = 1
            BY <1>2, <3>1 DEF Whole
        <3>4. i + c = 1 => i = 1
            <4> HIDE DEF c, w
            <4> QED
                BY <3>2
        <3>5. ASSUME Unread(i)' = "NOT_AVAILABLE"
              PROVE  i = Len(w) /\ modem.power = "off"
            <4>1. w[i] = "NOT_AVAILABLE"
                BY <2>2, <3>5 DEF Unread
            <4>2. wire[i + c] = "NOT_AVAILABLE"
                BY <3>1, <4>1
            <4>3. Unread(i + c) = "NOT_AVAILABLE"
                BY <4>2 DEF Unread
            <4>4. i + c = Len(wire) /\ modem.power = "off"
                BY <1>10, <3>1, <4>3
            <4>5. i = Len(w)
                <5> HIDE DEF c, w
                <5> QED
                    BY <3>2, <4>4
            <4> QED
                BY <4>4, <4>5
        <3> QED
            BY <3>1, <3>3, <3>4, <3>5
    <2>5. Whole' /\ \A i \in 1..Len(wire') :
              Unread(i)' = "NOT_AVAILABLE" => i = Len(wire') /\ modem'.power = "off"
        BY <1>1, <2>4 DEF Whole
    <2>6. /\ Has("isEnableManualApdu")' /\ ~Answered'
          /\ ~Has("not_available_mark")' /\ ~Has("isUimPwrDwn")' /\ ~Has("isSessIllegalRecved")'
        BY <1>2, <1>11, <1>12, <1>16, <2>2 DEF Has
    <2>7. InReset'
        BY <2>2, <2>3, <2>5, <2>6 DEF InReset
    <2> QED
        BY <2>2, <2>7 DEF CalmInv
<1>17. CASE /\ \A i \in DOMAIN l : l[i] # "NOT_AVAILABLE"
            /\ ~Has("isEnableManualApdu")
    <2>1. Cut /\ Kept = <<>> /\ Len(wire) = 1 /\ Unread(1) = "NOT_AVAILABLE"
        BY <1>1, <1>17 DEF InReset
    <2>2. k = 0 /\ n = 1
        BY <1>8, <2>1
    <2>3. cut
        <3>1. SUFFICES ASSUME ~cut PROVE FALSE
            OBVIOUS
        <3>2. c = 1
            BY <1>8, <2>2, <3>1
        <3>3. LinesOf(n, cut)[1] = "NOT_AVAILABLE"
            <4>1. 1 \in 1..Complete(n, cut)
                BY <3>2
            <4> QED
                BY <1>2, <2>1, <4>1, LinesAre
        <3>4. 1 \in 1..c /\ k + 1 = 1 /\ 1 \in 1..Len(l)
            <4>1. Len(l) = k + c
                BY <1>5
            <4> HIDE DEF k, c, l
            <4> QED
                BY <2>2, <3>2, <4>1
        <3>5. l[1] = "NOT_AVAILABLE"
            BY <1>5, <3>3, <3>4
        <3> QED
            BY <1>13, <1>17, <3>4, <3>5
    <2>4. c = 0 /\ Len(l) = 0
        <3>1. c = 0
            BY <1>8, <2>2, <2>3
        <3>2. Len(l) = k + c
            BY <1>5
        <3> HIDE DEF k, c, l
        <3> QED
            BY <2>2, <3>1, <3>2
    <2>5. x = "NOT_AVAILABLE"
        BY <1>3, <2>1, <2>2, <2>3 DEF Unread
    <2>6. Ignored(flags, "NOT_AVAILABLE")
        BY <1>2, <1>5, <1>13, <1>17, <2>4, <2>5, CheckedReset
    <2>7. /\ flags' = flags /\ urc_fragment' = "NOT_AVAILABLE"
          /\ uim_sender' <=> modem'.power = "on"
          /\ modem'.power # "on" => Has("isAutoReprotPowerDown")'
          /\ modem'.power = "off" => ~modem'.registered
          /\ reg_urc_state' \in {"IDLE", "FAIL"} /\ Has("isRstingUsim")'
          /\ Answered' => /\ reg_urc_state' = "IDLE" /\ ~modem'.registered
                          /\ Taken' /\ pc'.EvtLoop = "loop"
        BY <1>14, <2>6
    <2>8. Kept' = <<>> /\ \A q \in 1..Len(Kept') : FALSE
        <3>1. Kept' = l
            BY <2>7 DEF Kept
        <3>2. l = <<>>
            <4>1. \A s \in Seq(Lines \ {"REST"}) : Len(s) = 0 => s = <<>>
                OBVIOUS
            <4> HIDE DEF l
            <4> QED
                BY <1>6, <2>4, <4>1
        <3> QED
            BY <2>4, <3>1, <3>2
    <2>9. Len(w) = 1 /\ w[1] = "REST"
        <3>1. Len(w) = 1
            <4>1. Len(w) = Len(wire) - c
                BY <1>7
            <4> HIDE DEF c, w
            <4> QED
                BY <2>1, <2>4, <4>1
        <3>2. 1 \in 1..Len(w)
            BY <3>1
        <3> QED
            BY <1>7, <2>3, <3>1, <3>2
    <2>10. wire' # <<>>
        <3>1. Len(<<>>) # 1
            OBVIOUS
        <3> QED
            BY <2>9, <3>1
    <2>11. Cut' /\ Whole' /\ \A i \in 1..Len(wire') : i = Len(wire')
        BY <2>7, <2>9, <2>10 DEF Cut, Whole
    <2>12. Unread(1)' = "NOT_AVAILABLE" /\ modem'.power = "off"
        <3>1. Unread(1)' = "NOT_AVAILABLE"
            BY <2>7, <2>9 DEF Unread
        <3>2. 1 \in 1..Len(wire)
            BY <2>1
        <3> QED
            BY <1>1, <1>10, <2>1, <3>1, <3>2
    <2>13. /\ ~Has("isEnableManualApdu")'
           /\ ~Has("not_available_mark")' /\ ~Has("isUimPwrDwn")' /\ ~Has("isSessIllegalRecved")'
        BY <1>2, <1>17, <2>7 DEF Has
    <2>14. InReset'
        BY <2>7, <2>8, <2>9, <2>11, <2>12, <2>13 DEF InReset
    <2> QED
        BY <2>7, <2>14 DEF CalmInv
<1> QED
    BY <1>15, <1>16, <1>17

-----------------------------------------------------------------------------
(* The invariant, and what follows from it.                                *)

\* At the start nothing was handled: CARD_READY was not read.
LEMMA CalmInit ==
    ASSUME Init
    PROVE  CalmInv
<1>2. /\ modem = [power |-> "on", registered |-> FALSE] /\ wire = <<"CARD_READY">>
      /\ urc_fragment = "none" /\ URC_array = <<>> /\ reg_urc_state = "IDLE"
      /\ ChannelNum = 0 /\ flags = {} /\ uim_sender = FALSE
      /\ pc = [Listener |-> "select", EvtLoop |-> "loop", then |-> {}]
    BY DEF Init
<1>3. Len(wire) = 1 /\ wire[1] = "CARD_READY" /\ wire # <<>>
    BY <1>2
<1>4. /\ \A i \in 1..Len(wire) : i = 1 /\ Unread(i) = "CARD_READY"
      /\ 1 \in 1..Len(wire)
    BY <1>3 DEF Unread
<1>5. Kept = <<>> /\ Len(Kept) = 0 /\ \A i \in 1..Len(Kept) : FALSE
    <2>1. Kept = <<>> /\ Len(<<>>) = 0
        BY <1>2 DEF Kept
    <2> QED
        BY <2>1
<1>6. Cut /\ Whole
    BY <1>2, <1>3 DEF Cut, Whole
<1>7. Calm(Unheard) /\ Calm(Kept)
    <2>1. \A i \in 1..Len(Unheard) : Unheard[i] = "CARD_READY"
        BY <1>3, <1>4 DEF Unheard
    <2> QED
        BY <1>5, <2>1 DEF Calm, Harmless
<1>8. "CARD_READY" \notin Fatal /\ "CARD_READY" # "NOT_AVAILABLE"
    BY DEF Fatal
<1>9. Taken
    BY <1>2 DEF Taken
<1>10. ~Has("isRstingUsim") /\ \A f \in Abnormal : f \notin flags
    BY <1>2 DEF Has
<1>11. \A i \in 1..Len(wire) : Unread(i) # "NOT_AVAILABLE" /\ (Unread(i) \in Fatal => i = Len(wire))
    BY <1>4, <1>8
<1>12. modem.power = "on" /\ ~modem.registered /\ pc.EvtLoop = "loop" /\ ~uim_sender
    BY <1>2
<1>13. NoReset
    BY <1>2, <1>3, <1>4, <1>5, <1>6, <1>7, <1>9, <1>10, <1>11, <1>12 DEF NoReset
<1> QED
    BY <1>10, <1>13 DEF CalmInv

\* Each step keeps it.
LEMMA CalmNext ==
    ASSUME TypeOK, TypeOK', may' = may, Room, CalmInv, [Next]_vars
    PROVE  CalmInv'
<1>1. Silent' <=> Silent
    BY DEF Silent
<1>2. SUFFICES ASSUME Silent
               PROVE  CalmInv'
    BY <1>1 DEF CalmInv
<1>3. IF Has("isRstingUsim") THEN InReset ELSE NoReset
    BY <1>2 DEF CalmInv
<1>4. CASE Registers \/ Reports \/ PowersDown
    BY <1>2, <1>3, <1>4, ModemCalm
<1>5. CASE urc_parse_hdlr /\ Has("isRstingUsim")
    BY <1>2, <1>3, <1>5, InResetRead
<1>6. CASE urc_parse_hdlr /\ ~Has("isRstingUsim")
    BY <1>2, <1>3, <1>6, NoResetRead
<1>7. CASE UsimReset \/ mifi_status_hdlr \/ UimSender
    BY <1>2, <1>3, <1>7, UsimCalm
<1>8. CASE ApduRsp_timeout_ext_cb
    BY <1>2, <1>3, <1>8, TimeoutCalm
<1>9. CASE AfterTimeout \/ IdAnswered
    BY <1>2, <1>3, <1>9, AnswerCalm
<1>10. CASE Resumes \/ Recovered \/ HandsOver
    BY <1>2, <1>3, <1>10, ChannelCalm
<1>11. CASE UNCHANGED vars
    <2>1. /\ UNCHANGED <<modem, wire, urc_fragment, URC_array, reg_urc_state, ChannelNum,
                         resume, flags, pc, uim_sender, left>>
        BY <1>11 DEF vars
    <2>2. Taken' <=> Taken
        BY <2>1 DEF Taken, Asked, Has
    <2>3. \A f : Has(f)' <=> Has(f)
        BY <2>1 DEF Has
    <2>4. may' = may /\ (Answered' <=> Answered)
        BY <2>1 DEF may, Answered
    <2>5. CASE Has("isRstingUsim")
        <3>1. InReset
            BY <1>3, <2>5
        <3>2. /\ Has("isRstingUsim")' /\ (Has("isAutoReprotPowerDown")' <=> Has("isAutoReprotPowerDown"))
              /\ Has("not_available_mark")' <=> Has("not_available_mark")
              /\ Has("isUimPwrDwn")' <=> Has("isUimPwrDwn")
              /\ Has("isSessIllegalRecved")' <=> Has("isSessIllegalRecved")
              /\ Has("isEnableManualApdu")' <=> Has("isEnableManualApdu")
            BY <2>3, <2>5
        <3>3. /\ uim_sender' <=> modem'.power = "on"
              /\ modem'.power # "on" => Has("isAutoReprotPowerDown")'
              /\ modem'.power = "off" => ~modem'.registered
              /\ reg_urc_state' \in {"IDLE", "FAIL"}
              /\ Has("isEnableManualApdu")' => ~Answered'
              /\ Answered' => /\ reg_urc_state' = "IDLE" /\ ~modem'.registered
                              /\ Taken' /\ pc'.EvtLoop = "loop"
            BY <2>1, <2>2, <2>4, <3>1, <3>2 DEF InReset
        <3> QED
            BY <2>1, <3>1, <3>2, <3>3, InResetStays
    <2>6. CASE ~Has("isRstingUsim")
        <3>1. /\ NoReset /\ ~Has("isRstingUsim")' /\ pc'.EvtLoop = "loop"
              /\ \A f \in Abnormal : f \notin flags'
            BY <1>3, <2>1, <2>3, <2>6 DEF NoReset
        <3> QED
            BY <2>1, <2>2, <3>1, NoResetStays
    <2> QED
        BY <2>5, <2>6
<1> QED
    BY <1>4, <1>5, <1>6, <1>7, <1>8, <1>9, <1>10, <1>11 DEF Next

\* When it is quiet, there is nothing that was not handled.
LEMMA QuietCalm ==
    ASSUME Quiet, Silent, CalmInv
    PROVE  /\ modem.registered => reg_urc_state = "REGISTERED"
           /\ ~modem.registered => reg_urc_state # "REGISTERED"
           /\ ~modem.registered /\ Answered => Unset(flags)
           /\ reg_urc_state # "REGISTERED" /\ Answered => Taken
<1>1. wire = <<>> /\ urc_fragment = "none" /\ ~Has("isRstingUsim") /\ NoReset
    BY DEF Quiet, CalmInv
<1>2. Len(wire) = 0
    BY <1>1
<1>3. Calm(Unheard) /\ \A S : ~Decided(Unheard, S)
    BY <1>2 DEF Unheard, Calm, Decided
<1>4. reg_urc_state # "IDLE"
    BY <1>1 DEF NoReset
<1> QED
    BY <1>1, <1>3, <1>4 DEF NoReset

\* What the Listener makes of the last report is what mdmImodem has become.
LEMMA CalmCounts ==
    ASSUME CalmInv
    PROVE  LastReportCounts
<1>1. RegistrationNoticed
    BY QuietCalm DEF RegistrationNoticed
<1>2. LossNoticed
    BY QuietCalm DEF LossNoticed, Unset, Has
<1>3. TrafficTakenBack
    <2>1. SUFFICES ASSUME Quiet, ~modem.registered, Silent, Answered
                   PROVE  resume \/ ChannelNum \in {-1, 0} \/ (ChannelNum = 2 /\ Has("isTermSuspNow"))
        BY DEF TrafficTakenBack
    <2>2. Taken
        BY <2>1, QuietCalm
    <2>3. ~Asked \/ resume
        BY <2>1 DEF Asked, Quiet
    <2> QED
        BY <2>2, <2>3 DEF Taken
<1> QED
    BY <1>1, <1>2, <1>3 DEF LastReportCounts

\* The USIM has no power only during a reset, and that sets the state IDLE.
LEMMA CalmIdle ==
    ASSUME CalmInv
    PROVE  IdleOncePoweredDown
<1>1. SUFFICES ASSUME Has("isUimPwrDwn"), pc.EvtLoop = "loop", Silent, Answered
               PROVE  reg_urc_state = "IDLE"
    BY DEF IdleOncePoweredDown
<1>2. InReset
    BY <1>1 DEF CalmInv, NoReset, Has, Abnormal
<1> QED
    BY <1>1, <1>2 DEF InReset

\* The invariant holds throughout, as long as there is room.
THEOREM CalmAlways == Spec /\ []Room => [](TypeOK /\ CalmInv)
<1>1. Init => TypeOK /\ CalmInv
    BY TypeInit, CalmInit
<1>2. TypeOK /\ CalmInv /\ Room /\ [Next]_vars => (TypeOK /\ CalmInv)'
    <2>1. SUFFICES ASSUME TypeOK, CalmInv, Room, [Next]_vars
                   PROVE  TypeOK' /\ CalmInv'
        OBVIOUS
    <2>2. TypeOK' /\ may' = may
        BY <2>1, TypeNext
    <2>3. CalmInv'
        BY <2>1, <2>2, CalmNext
    <2> QED
        BY <2>2, <2>3
<1> QED
    BY <1>1, <1>2, PTL DEF Spec

\* LastReportCounts: a registration of mdmImodem does not pass unnoticed, nor does the loss
\* of one, and then the traffic is not left with mdmImodem, whatever it reported before, how
\* often, and however its reports were read, as long as there is room for those not handled.
THEOREM LastReportAlwaysCounts == Spec /\ []Room => []LastReportCounts
<1>1. TypeOK /\ CalmInv => LastReportCounts
    BY CalmCounts
<1> QED
    BY <1>1, CalmAlways, PTL

\* IdleOncePoweredDown: a virtual USIM without power finds reg_urc_state IDLE, so that its
\* next CARD_READY counts, as long as there is room for the reports not handled.
THEOREM AlwaysIdleOncePoweredDown == Spec /\ []Room => []IdleOncePoweredDown
<1>1. TypeOK /\ CalmInv => IdleOncePoweredDown
    BY CalmIdle
<1> QED
    BY <1>1, CalmAlways, PTL

-----------------------------------------------------------------------------
(* Nothing is handled twice, or not at all.                                *)

\* What is not handled can be counted.
LEMMA Numbers ==
    ASSUME TypeOK
    PROVE  /\ Len(Kept) \in Nat /\ Len(wire) \in Nat /\ left.urcs \in Nat /\ may.urcs \in Nat
           /\ left.urcs <= may.urcs /\ may \in Cases /\ MAX_URC_ARRAY_LEN \in Nat
<1>1. wire \in Seq(Lines) /\ URC_array \in Seq(Lines \ {"REST"}) /\ may \in Cases
    BY Facts
<1>2. left \in [may : Cases, urcs : 0..may.urcs, timeouts : 0..may.timeouts]
    BY DEF TypeOK
<1>3. may.urcs \in Nat /\ MAX_URC_ARRAY_LEN \in Nat
    BY <1>1, RegistrationAssumption
<1>4. Len(Kept) \in Nat
    <2>1. Len(URC_array) \in Nat /\ Len(<<>>) = 0
        BY <1>1
    <2> QED
        BY <2>1 DEF Kept
<1> QED
    BY <1>1, <1>2, <1>3, <1>4

\* A step that takes reports from the wire is a read, and puts all of them into the array.
LEMMA StepHandles ==
    ASSUME TypeOK, Room, [Next]_vars, Len(wire') < Len(wire)
    PROVE  /\ Len(URC_array') >= Len(wire) - Len(wire')
           /\ urc_fragment = "none" => Len(URC_array') = Len(wire) - Len(wire')
<1>1. Len(Kept) \in Nat /\ Len(wire) \in Nat /\ wire \in Seq(Lines)
    BY Numbers, Facts
<1>2. CASE urc_parse_hdlr
    <2>1. PICK n \in 1..Len(wire), cut \in BOOLEAN :
              LET p == Counted(n, cut) IN
              /\ cut => wire[n] # "REST"
              /\ wire' = (IF cut THEN <<"REST">> ELSE <<>>) \o SubSeq(wire, n + 1, Len(wire))
              /\ URC_array' = p.lines
              /\ Checked(p.lines, Fragment(n, cut, p.full))
        BY <1>2, CountedRead
    <2> DEFINE c == Complete(n, cut)
               a == Len(Kept)
               b == Len(wire)
               d == Len(URC_array')
               e == Len(wire')
    <2>2. c \in 0..b /\ e = b - c
        <3>1. wire' = Remaining(n, cut)
            BY <2>1 DEF Remaining
        <3> QED
            BY <3>1, WireAfter
    <2>3. d = a + c
        <3>1. Len(Counted(n, cut).lines) = Len(Kept) + Complete(n, cut)
            BY ArrayIs DEF Room
        <3> QED
            BY <2>1, <3>1
    <2>4. urc_fragment = "none" => a = 0
        <3>1. Len(<<>>) = 0
            OBVIOUS
        <3> QED
            BY <3>1 DEF Kept
    <2>5. d >= b - e /\ (urc_fragment = "none" => d = b - e)
        <3>1. a \in Nat /\ b \in Nat
            BY <1>1
        <3> HIDE DEF a, b, c, d, e
        <3> QED
            BY <2>2, <2>3, <2>4, <3>1
    <2> QED
        BY <2>5
<1>3. CASE UNCHANGED wire
    <2>1. Len(wire') = Len(wire)
        BY <1>3
    <2> QED
        BY <1>1, <2>1
<1>4. CASE \E u \in Lines : wire' = Append(wire, u)
    <2>1. Len(wire') = Len(wire) + 1
        BY <1>1, <1>4
    <2> QED
        BY <1>1, <2>1
<1>5. CASE Registers \/ Reports \/ PowersDown
    <2>1. \E u \in Lines : wire' = Append(wire, u)
        BY <1>5 DEF Registers, Reports, PowersDown, Says, Lines
    <2> QED
        BY <1>4, <2>1
<1>6. CASE IdAnswered
    <2>1. UNCHANGED wire \/ wire' = Append(wire, "CARD_READY")
        BY <1>6 DEF IdAnswered, power_up_virtual_usim
    <2>2. "CARD_READY" \in Lines
        BY DEF Lines
    <2> QED
        BY <1>3, <1>4, <2>1, <2>2
<1>7. CASE UsimReset \/ mifi_status_hdlr \/ UimSender \/ ApduRsp_timeout_ext_cb \/ AfterTimeout
           \/ Resumes \/ Recovered \/ HandsOver \/ UNCHANGED vars
    <2>1. UNCHANGED wire
        BY <1>7 DEF UsimReset, mifi_status_hdlr, UimSender, ApduRsp_timeout_ext_cb, AfterTimeout,
                    Resumes, Recovered, HandsOver, EvtLoopMoves, vars
    <2> QED
        BY <1>3, <2>1
<1> QED
    BY <1>2, <1>5, <1>6, <1>7 DEF Next

\* HandledOnce: a read handles all the reports it has taken from the port, and none of
\* those read before unless it was the rest of a report, whenever the array has room for
\* them and a char for the number of their bytes.
THEOREM ReportsHandledOnce == Spec => HandledOnce
<1>1. TypeOK /\ [Next]_vars =>
        [Room /\ Len(wire') < Len(wire) =>
            /\ Len(URC_array') >= Len(wire) - Len(wire')
            /\ urc_fragment = "none" => Len(URC_array') = Len(wire) - Len(wire')]_<<wire, URC_array>>
    BY StepHandles
<1> QED
    BY <1>1, TypeCorrect, PTL DEF Spec, HandledOnce
=============================================================================
