-------------------------- MODULE SerialLine_proofs --------------------------
(* Proofs about the lines that EvtLoop reads from the serial port, for     *)
(* lines of any length and any number of reports.                          *)
EXTENDS SerialLine, TLAPS, WellFoundedInduction, NaturalsInduction, SequenceTheorems

-----------------------------------------------------------------------------
(* Induction over a set of numbers.                                        *)

\* The order of the natural numbers, as a set of pairs.
LEMMA LessThan ==
    ASSUME NEW m \in Nat, NEW n \in Nat, m < n
    PROVE  <<m, n>> \in OpToRel(<, Nat)
BY Zenon DEF OpToRel

\* Induction: a set that has 0, and with a number the next one, has them all.
LEMMA SetInduction ==
    ASSUME NEW T, 0 \in T, \A n \in Nat : n \in T => n + 1 \in T
    PROVE  Nat \subseteq T
<1>1. PICK R : IsWellFoundedOn(R, Nat) /\ \A m, n \in Nat : m < n => <<m, n>> \in R
    BY NatLessThanWellFounded, LessThan, Zenon
<1> SUFFICES ASSUME Nat \ T # {} PROVE FALSE
    OBVIOUS
<1>2. PICK x \in Nat \ T : \A y \in Nat \ T : ~(<<y, x>> \in R)
    <2>1. Nat \ T \subseteq Nat
        OBVIOUS
    <2> QED
        BY <1>1, <2>1, WFMin, Zenon
<1>3. x - 1 \in Nat /\ x - 1 < x
    BY <1>2
<1>4. x - 1 \notin T
    <2> SUFFICES ASSUME x - 1 \in T PROVE FALSE
        OBVIOUS
    <2>1. (x - 1) + 1 \in T
        BY <1>3
    <2> QED
        BY <1>2, <1>3, <2>1
<1> QED
    BY <1>1, <1>2, <1>3, <1>4

-----------------------------------------------------------------------------
(* Bytes and lines.                                                        *)

\* A byte is the end of a line or a part of a text.
LEMMA ByteForms ==
    ASSUME NEW b \in Bytes
    PROVE  /\ b.at \in Nat
           /\ b.at = 0 <=> b = EOL
           /\ b # EOL => /\ b.text \in Texts /\ b.at \in 1..Parts
                         /\ b = [text |-> b.text, at |-> b.at]
<1>1. EOL.at = 0
    BY DEF EOL
<1>2. CASE b = EOL
    BY <1>1, <1>2
<1>3. CASE b \in [text : Texts, at : 1..Parts]
    BY <1>1, <1>3, SerialLineAssumption
<1> QED
    BY <1>2, <1>3 DEF Bytes

\* Both are bytes.
LEMMA BytesOf ==
    /\ EOL \in Bytes /\ EOL.at = 0 /\ EOL.text = "EOL"
    /\ \A t \in Texts, n \in 1..Parts : [text |-> t, at |-> n] \in Bytes
BY DEF Bytes, EOL

\* The bytes of a line.
LEMMA LineOf ==
    ASSUME NEW t \in Texts
    PROVE  /\ Line(t) \in Seq(Bytes) /\ Len(Line(t)) = Parts + 2
           /\ Line(t)[1] = EOL /\ Line(t)[Parts + 2] = EOL
           /\ \A i \in 1..Parts : Line(t)[i + 1] = [text |-> t, at |-> i]
<1>1. Parts \in Nat
    BY SerialLineAssumption
<1>2. <<EOL>> \in Seq(Bytes) /\ Len(<<EOL>>) = 1 /\ <<EOL>>[1] = EOL
    BY BytesOf
<1>3. Text(t) \in [1..Parts -> Bytes]
    BY BytesOf DEF Text
<1>4. /\ Text(t) \in Seq(Bytes) /\ Len(Text(t)) = Parts
      /\ \A i \in 1..Parts : Text(t)[i] = [text |-> t, at |-> i]
    BY <1>1, <1>3 DEF Text
<1> DEFINE X == Text(t)
           e == <<EOL>>
<1> HIDE DEF X, e
<1>5. /\ (e \o X) \o e \in Seq(Bytes) /\ Len((e \o X) \o e) = Parts + 2
      /\ ((e \o X) \o e)[1] = EOL /\ ((e \o X) \o e)[Parts + 2] = EOL
      /\ \A i \in 1..Parts : ((e \o X) \o e)[i + 1] = [text |-> t, at |-> i]
    BY <1>1, <1>2, <1>4 DEF X, e
<1> QED
    BY <1>5 DEF Line, X, e

\* Every text in s is there from its first to its last part, with the end of its line.
Whole(s) ==
    \A i \in 1..Len(s) :
        s[i].at > 0 =>
            /\ i < Len(s)
            /\ s[i].at < Parts => s[i + 1] = [text |-> s[i].text, at |-> s[i].at + 1]
            /\ s[i].at = Parts => s[i + 1] = EOL
            /\ s[i].at > 1 => i > 1 /\ s[i - 1] = [text |-> s[i].text, at |-> s[i].at - 1]

\* reader() knows every report in s.
Known(s) == \A i \in 1..Len(s) : s[i].at > 0 => s[i].text \in ChkNetAT \union {"OK", "STIN"}

Lines(s) == Whole(s) /\ Known(s)

\* A line, and nothing, consist of whole lines.
LEMMA LineWhole ==
    ASSUME NEW t \in ChkNetAT \union {"OK", "STIN"}
    PROVE  Lines(Line(t))
<1>0. t \in Texts
    BY DEF Texts, ChkNetAT, Reports
<1>1. Parts \in Nat \ {0}
    BY SerialLineAssumption
<1>2. /\ Len(Line(t)) = Parts + 2
      /\ Line(t)[1].at = 0 /\ Line(t)[Parts + 2].at = 0
      /\ Line(t)[1] = EOL /\ Line(t)[Parts + 2] = EOL
      /\ \A i \in 1..Parts : Line(t)[i + 1] = [text |-> t, at |-> i]
    BY <1>0, LineOf, BytesOf
<1> SUFFICES ASSUME NEW j \in 1..Len(Line(t)), Line(t)[j].at > 0
    PROVE  /\ j < Len(Line(t))
           /\ Line(t)[j].at < Parts =>
                  Line(t)[j + 1] = [text |-> Line(t)[j].text, at |-> Line(t)[j].at + 1]
           /\ Line(t)[j].at = Parts => Line(t)[j + 1] = EOL
           /\ Line(t)[j].at > 1 =>
                  j > 1 /\ Line(t)[j - 1] = [text |-> Line(t)[j].text, at |-> Line(t)[j].at - 1]
           /\ Line(t)[j].text \in ChkNetAT \union {"OK", "STIN"}
    BY DEF Lines, Whole, Known
<1>3. PICK i \in 1..Parts : j = i + 1
    <2>1. j # 1 /\ j # Parts + 2 /\ j \in 1..(Parts + 2)
        BY <1>2
    <2>2. j - 1 \in 1..Parts /\ j = (j - 1) + 1
        BY <1>1, <2>1
    <2> QED
        BY <2>2
<1>4. Line(t)[j] = [text |-> t, at |-> i]
    BY <1>2, <1>3
<1>5. i < Parts => Line(t)[j + 1] = [text |-> t, at |-> i + 1]
    <2> SUFFICES ASSUME i < Parts PROVE Line(t)[j + 1] = [text |-> t, at |-> i + 1]
        OBVIOUS
    <2>1. i + 1 \in 1..Parts /\ j + 1 = (i + 1) + 1
        BY <1>1, <1>3
    <2> QED
        BY <1>2, <2>1
<1>6. i > 1 => Line(t)[j - 1] = [text |-> t, at |-> i - 1]
    <2> SUFFICES ASSUME i > 1 PROVE Line(t)[j - 1] = [text |-> t, at |-> i - 1]
        OBVIOUS
    <2>1. i - 1 \in 1..Parts /\ j - 1 = (i - 1) + 1
        BY <1>1, <1>3
    <2> QED
        BY <1>2, <2>1
<1>7. i = Parts => Line(t)[j + 1] = EOL
    <2> SUFFICES ASSUME i = Parts PROVE Line(t)[j + 1] = EOL
        OBVIOUS
    <2>1. j + 1 = Parts + 2
        BY <1>1, <1>3
    <2> QED
        BY <1>2, <2>1
<1>8. Line(t)[j].text = t /\ Line(t)[j].at = i
    BY <1>4
<1>9. j < Len(Line(t)) /\ j > 1
    BY <1>1, <1>2, <1>3
<1> QED
    BY <1>5, <1>6, <1>7, <1>8, <1>9

\* What two sequences give when they are joined.
LEMMA Joined ==
    ASSUME NEW s \in Seq(Bytes), NEW r \in Seq(Bytes)
    PROVE  /\ s \o r \in Seq(Bytes) /\ Len(s \o r) = Len(s) + Len(r)
           /\ Len(s) \in Nat /\ Len(r) \in Nat
           /\ \A i \in 1..Len(s) : (s \o r)[i] = s[i]
           /\ \A i \in 1..Len(r) : (s \o r)[Len(s) + i] = r[i]
           /\ \A i \in 1..(Len(s) + Len(r)) : i \notin 1..Len(s) =>
                  i - Len(s) \in 1..Len(r) /\ (s \o r)[i] = r[i - Len(s)]
OBVIOUS

\* What is left of a sequence without its first n elements.
LEMMA Without ==
    ASSUME NEW s \in Seq(Bytes), NEW n \in 0..Len(s)
    PROVE  /\ SubSeq(s, n + 1, Len(s)) \in Seq(Bytes)
           /\ Len(SubSeq(s, n + 1, Len(s))) = Len(s) - n
           /\ \A i \in 1..(Len(s) - n) : SubSeq(s, n + 1, Len(s))[i] = s[n + i]
OBVIOUS

\* The first n elements.
LEMMA FirstOf ==
    ASSUME NEW s \in Seq(Bytes), NEW n \in 0..Len(s)
    PROVE  /\ SubSeq(s, 1, n) \in Seq(Bytes) /\ Len(SubSeq(s, 1, n)) = n
           /\ \A i \in 1..n : SubSeq(s, 1, n)[i] = s[i]
OBVIOUS

\* Whole lines after whole lines are whole lines.
LEMMA LinesJoined ==
    ASSUME NEW s \in Seq(Bytes), NEW r \in Seq(Bytes), Lines(s), Lines(r)
    PROVE  Lines(s \o r)
<1> DEFINE p == s \o r
<1> SUFFICES ASSUME NEW j \in 1..Len(p), p[j].at > 0
    PROVE  /\ j < Len(p)
           /\ p[j].at < Parts => p[j + 1] = [text |-> p[j].text, at |-> p[j].at + 1]
           /\ p[j].at = Parts => p[j + 1] = EOL
           /\ p[j].at > 1 => j > 1 /\ p[j - 1] = [text |-> p[j].text, at |-> p[j].at - 1]
           /\ p[j].text \in ChkNetAT \union {"OK", "STIN"}
    BY DEF Lines, Whole, Known
<1>1. /\ Len(p) = Len(s) + Len(r) /\ Len(s) \in Nat /\ Len(r) \in Nat
      /\ \A i \in 1..Len(s) : p[i] = s[i]
      /\ \A i \in 1..Len(r) : p[Len(s) + i] = r[i]
    BY Joined
<1> HIDE DEF p
<1>2. CASE j \in 1..Len(s)
    <2>1. p[j] = s[j] /\ s[j].at > 0
        BY <1>1, <1>2
    <2>2. /\ j < Len(s)
          /\ s[j].at < Parts => s[j + 1] = [text |-> s[j].text, at |-> s[j].at + 1]
          /\ s[j].at = Parts => s[j + 1] = EOL
          /\ s[j].at > 1 => j > 1 /\ s[j - 1] = [text |-> s[j].text, at |-> s[j].at - 1]
          /\ s[j].text \in ChkNetAT \union {"OK", "STIN"}
        BY <1>2, <2>1 DEF Lines, Whole, Known
    <2>3. p[j + 1] = s[j + 1] /\ (j > 1 => p[j - 1] = s[j - 1])
        <3>1. j + 1 \in 1..Len(s) /\ (j > 1 => j - 1 \in 1..Len(s))
            BY <1>1, <1>2, <2>2
        <3> QED
            BY <1>1, <3>1
    <2> QED
        BY <1>1, <2>1, <2>2, <2>3
<1>3. CASE j \notin 1..Len(s)
    <2> DEFINE i == j - Len(s)
    <2>0. i \in 1..Len(r) /\ j = Len(s) + i
        BY <1>1, <1>3
    <2> HIDE DEF i
    <2>1. p[j] = r[i] /\ r[i].at > 0
        BY <1>1, <2>0
    <2>2. /\ i < Len(r)
          /\ r[i].at < Parts => r[i + 1] = [text |-> r[i].text, at |-> r[i].at + 1]
          /\ r[i].at = Parts => r[i + 1] = EOL
          /\ r[i].at > 1 => i > 1 /\ r[i - 1] = [text |-> r[i].text, at |-> r[i].at - 1]
          /\ r[i].text \in ChkNetAT \union {"OK", "STIN"}
        BY <2>0, <2>1 DEF Lines, Whole, Known
    <2>3. p[j + 1] = r[i + 1]
        <3>1. i + 1 \in 1..Len(r) /\ j + 1 = Len(s) + (i + 1)
            BY <1>1, <2>0, <2>2
        <3> QED
            BY <1>1, <3>1
    <2>4. i > 1 => j > 1 /\ p[j - 1] = r[i - 1]
        <3> SUFFICES ASSUME i > 1 PROVE j > 1 /\ p[j - 1] = r[i - 1]
            OBVIOUS
        <3>1. i - 1 \in 1..Len(r) /\ j - 1 = Len(s) + (i - 1) /\ j > 1
            BY <1>1, <2>0
        <3>2. p[j - 1] = p[Len(s) + (i - 1)]
            BY <3>1
        <3> QED
            BY <1>1, <3>1, <3>2
    <2>5. j < Len(p)
        BY <1>1, <2>0, <2>2
    <2> QED
        BY <2>1, <2>2, <2>3, <2>4, <2>5
<1> QED
    BY <1>2, <1>3

\* A cut behind the end of a line leaves whole lines on both sides.
LEMMA LinesCut ==
    ASSUME NEW s \in Seq(Bytes), Lines(s), NEW n \in 0..Len(s), n > 0 => s[n] = EOL
    PROVE  Lines(SubSeq(s, 1, n)) /\ Lines(SubSeq(s, n + 1, Len(s)))
<1>0. Len(s) \in Nat /\ n \in Nat /\ \A i \in 1..Len(s) : s[i] \in Bytes /\ s[i].at \in Nat
    BY ByteForms
<1>1. Lines(SubSeq(s, 1, n))
    <2> DEFINE p == SubSeq(s, 1, n)
    <2>1. Len(p) = n /\ \A i \in 1..n : p[i] = s[i]
        BY FirstOf
    <2> HIDE DEF p
    <2> SUFFICES ASSUME NEW j \in 1..Len(p), p[j].at > 0
        PROVE  /\ j < Len(p)
               /\ p[j].at < Parts => p[j + 1] = [text |-> p[j].text, at |-> p[j].at + 1]
               /\ p[j].at = Parts => p[j + 1] = EOL
               /\ p[j].at > 1 => j > 1 /\ p[j - 1] = [text |-> p[j].text, at |-> p[j].at - 1]
               /\ p[j].text \in ChkNetAT \union {"OK", "STIN"}
        BY DEF Lines, Whole, Known, p
    <2>2. j # n
        BY <2>1, BytesOf
    <2>3. p[j] = s[j] /\ p[j + 1] = s[j + 1] /\ (j > 1 => p[j - 1] = s[j - 1]) /\ j < n /\ j \in 1..Len(s)
        BY <1>0, <2>1, <2>2
    <2>4. /\ s[j].at < Parts => s[j + 1] = [text |-> s[j].text, at |-> s[j].at + 1]
          /\ s[j].at = Parts => s[j + 1] = EOL
          /\ s[j].at > 1 => j > 1 /\ s[j - 1] = [text |-> s[j].text, at |-> s[j].at - 1]
          /\ s[j].text \in ChkNetAT \union {"OK", "STIN"}
        BY <2>3 DEF Lines, Whole, Known
    <2> QED
        BY <2>1, <2>3, <2>4
<1>2. Lines(SubSeq(s, n + 1, Len(s)))
    <2> DEFINE p == SubSeq(s, n + 1, Len(s))
    <2>1. Len(p) = Len(s) - n /\ \A i \in 1..(Len(s) - n) : p[i] = s[n + i]
        BY Without
    <2> HIDE DEF p
    <2> SUFFICES ASSUME NEW j \in 1..Len(p), p[j].at > 0
        PROVE  /\ j < Len(p)
               /\ p[j].at < Parts => p[j + 1] = [text |-> p[j].text, at |-> p[j].at + 1]
               /\ p[j].at = Parts => p[j + 1] = EOL
               /\ p[j].at > 1 => j > 1 /\ p[j - 1] = [text |-> p[j].text, at |-> p[j].at - 1]
               /\ p[j].text \in ChkNetAT \union {"OK", "STIN"}
        BY DEF Lines, Whole, Known, p
    <2>2. p[j] = s[n + j] /\ n + j \in 1..Len(s)
        BY <1>0, <2>1
    <2>3. /\ n + j < Len(s)
          /\ s[n + j].at < Parts => s[n + j + 1] = [text |-> s[n + j].text, at |-> s[n + j].at + 1]
          /\ s[n + j].at = Parts => s[n + j + 1] = EOL
          /\ s[n + j].at > 1 => s[n + j - 1] = [text |-> s[n + j].text, at |-> s[n + j].at - 1]
          /\ s[n + j].text \in ChkNetAT \union {"OK", "STIN"}
        BY SMTT(30), <2>2 DEF Lines, Whole, Known
    <2>4. j < Len(p) /\ p[j + 1] = s[n + j + 1]
        <3>1. j + 1 \in 1..(Len(s) - n) /\ n + (j + 1) = n + j + 1
            BY <1>0, <2>1, <2>3
        <3> QED
            BY <1>0, <2>1, <3>1
    <2>5. p[j].at > 1 => j > 1
        <3> SUFFICES ASSUME p[j].at > 1, j = 1 PROVE FALSE
            BY <1>0, <2>1
        <3>1. n + j - 1 = n
            BY <1>0
        <3>2. s[n].at = s[n + j].at - 1 /\ s[n + j].at > 1
            BY <2>2, <2>3, <3>1
        <3>3. s[n].at > 0
            BY <1>0, <2>2, <3>2
        <3>4. n > 0
            <4>1. n + j > 1
                BY <2>2, <2>3, <3>2 DEF Lines, Whole
            <4> QED
                BY <1>0, <4>1
        <3> QED
            BY <3>3, <3>4, BytesOf
    <2>6. j > 1 => p[j - 1] = s[n + j - 1]
        <3> SUFFICES ASSUME j > 1 PROVE p[j - 1] = s[n + j - 1]
            OBVIOUS
        <3>1. j - 1 \in 1..(Len(s) - n) /\ n + (j - 1) = n + j - 1
            BY <1>0, <2>1
        <3> QED
            BY <2>1, <3>1
    <2> QED
        BY <2>2, <2>3, <2>4, <2>5, <2>6
<1> QED
    BY <1>1, <1>2

-----------------------------------------------------------------------------
(* The lines that read_line() finds.                                       *)

\* A set of numbers that is not empty has a least one.
LEMMA LeastOf ==
    ASSUME NEW S, S \subseteq Nat, S # {}
    PROVE  /\ Min(S) \in S
           /\ \A n \in S : Min(S) <= n
<1>1. PICK R : IsWellFoundedOn(R, Nat) /\ \A m, n \in Nat : m < n => <<m, n>> \in R
    BY NatLessThanWellFounded, LessThan, Zenon
<1>2. PICK x \in S : \A y \in S : ~(<<y, x>> \in R)
    <2>1. IsWellFoundedOn(R, Nat) /\ S \subseteq Nat /\ S # {}
        BY <1>1
    <2> QED
        BY <2>1, WFMin, Zenon
<1>3. \A y \in S : x <= y
    <2> TAKE y \in S
    <2>1. x \in Nat /\ y \in Nat /\ ~(y < x)
        BY <1>1, <1>2
    <2> QED
        BY <2>1
<1>4. x \in S /\ \A y \in S : x =< y
    BY <1>3
<1> QED
    BY <1>4, Zenon DEF Min

\* skip_line_break() takes away the ends of lines at the beginning.
LEMMA SkipOf ==
    ASSUME NEW s \in Seq(Bytes)
    PROVE  \E n \in 0..Len(s) :
              /\ skip_line_break(s) = SubSeq(s, n + 1, Len(s))
              /\ \A i \in 1..n : s[i] = EOL
              /\ n < Len(s) => s[n + 1] # EOL
<1>0. Len(s) \in Nat /\ DOMAIN s = 1..Len(s)
    OBVIOUS
<1>1. CASE Range(s) \subseteq {EOL}
    <2>1. \A i \in 1..Len(s) : s[i] = EOL
        BY <1>0, <1>1 DEF Range
    <2>2. skip_line_break(s) = <<>>
        BY <1>1 DEF skip_line_break
    <2>3. SubSeq(s, Len(s) + 1, Len(s)) = <<>>
        BY <1>0
    <2> WITNESS Len(s) \in 0..Len(s)
    <2> QED
        BY <2>1, <2>2, <2>3, <1>0
<1>2. CASE ~(Range(s) \subseteq {EOL})
    <2> DEFINE I == {i \in 1..Len(s) : s[i] # EOL}
    <2>1. I # {} /\ I \subseteq Nat
        BY <1>0, <1>2 DEF Range
    <2>2. SelectInSeq(s, LAMBDA b : b # EOL) = Min(I)
        BY <2>1 DEF SelectInSeq
    <2>3. Min(I) \in I /\ \A i \in I : Min(I) <= i
        BY <2>1, LeastOf
    <2> DEFINE m == Min(I)
    <2>4. m \in 1..Len(s) /\ s[m] # EOL /\ \A i \in 1..Len(s) : s[i] # EOL => m <= i
        BY <2>3
    <2>5. skip_line_break(s) = SubSeq(s, m, Len(s))
        BY <1>2, <2>2 DEF skip_line_break
    <2> HIDE DEF m
    <2> DEFINE n == m - 1
    <2>6. n \in 0..Len(s) /\ n + 1 = m
        BY <1>0, <2>4
    <2>7. \A i \in 1..n : s[i] = EOL
        BY <1>0, <2>4
    <2> HIDE DEF n
    <2>8. skip_line_break(s) = SubSeq(s, n + 1, Len(s)) /\ s[n + 1] # EOL
        BY <2>4, <2>5, <2>6
    <2> QED
        BY <2>6, <2>7, <2>8
<1> QED
    BY <1>1, <1>2

\* find_NextEOL() counts the bytes before the first end of a line.
LEMMA NextEOL ==
    ASSUME NEW s \in Seq(Bytes), HasEOL(s)
    PROVE  /\ find_NextEOL(s) \in 0..(Len(s) - 1)
           /\ s[find_NextEOL(s) + 1] = EOL
           /\ \A i \in 1..find_NextEOL(s) : s[i] # EOL
<1>0. Len(s) \in Nat /\ DOMAIN s = 1..Len(s)
    OBVIOUS
<1> DEFINE I == {i \in 1..Len(s) : s[i] = EOL}
<1>1. I # {} /\ I \subseteq Nat
    BY <1>0 DEF HasEOL
<1>2. SelectInSeq(s, LAMBDA b : b = EOL) = Min(I)
    BY <1>1 DEF SelectInSeq
<1>3. Min(I) \in I /\ \A i \in I : Min(I) <= i
    BY <1>1, LeastOf
<1> DEFINE m == Min(I)
<1>4. m \in 1..Len(s) /\ s[m] = EOL /\ \A i \in 1..Len(s) : s[i] = EOL => m <= i
    BY <1>3
<1>5. find_NextEOL(s) = m - 1
    BY <1>2 DEF find_NextEOL
<1> HIDE DEF m
<1>6. m - 1 \in 0..(Len(s) - 1) /\ (m - 1) + 1 = m
    BY <1>0, <1>4
<1>7. \A i \in 1..(m - 1) : s[i] # EOL
    BY <1>0, <1>4
<1> QED
    BY <1>4, <1>5, <1>6, <1>7

\* Of whole lines that begin with a text, the text is the first line.
LEMMA FirstLine ==
    ASSUME NEW s \in Seq(Bytes), Lines(s), Len(s) > 0, s[1] # EOL
    PROVE  /\ s[1].text \in ChkNetAT \union {"OK", "STIN"}
           /\ HasEOL(s) /\ Parts < Len(s) /\ find_NextEOL(s) = Parts
           /\ SubSeq(s, 1, Parts) = Text(s[1].text)
           /\ \A i \in 1..Parts : s[i] = [text |-> s[1].text, at |-> i]
           /\ s[Parts + 1] = EOL
<1>0. Parts \in Nat \ {0} /\ Len(s) \in Nat /\ DOMAIN s = 1..Len(s) /\ 1 \in 1..Len(s)
    BY SerialLineAssumption
<1> DEFINE t == s[1].text
<1>1. s[1] \in Bytes /\ s[1].at \in Nat \ {0} /\ s[1].at > 0 /\ s[1] = [text |-> t, at |-> s[1].at]
    BY <1>0, ByteForms
<1>2. s[1].at = 1 /\ t \in ChkNetAT \union {"OK", "STIN"}
    <2>1. ~(s[1].at > 1) /\ t \in ChkNetAT \union {"OK", "STIN"}
        <3> HIDE DEF t
        <3>1. 1 \in 1..Len(s) /\ s[1].at > 0 /\ s[1].text = t
            BY <1>0, <1>1 DEF t
        <3>2. s[1].at > 1 => 1 > 1
            BY <3>1 DEF Lines, Whole
        <3>3. t \in ChkNetAT \union {"OK", "STIN"}
            BY <3>1 DEF Lines, Known
        <3> QED
            BY <3>2, <3>3
    <2> QED
        BY <1>0, <1>1, <2>1, ByteForms
<1> DEFINE T == {n \in Nat : n < Parts => n + 1 <= Len(s) /\ s[n + 1] = [text |-> t, at |-> n + 1]}
<1>3. 0 \in T
    BY <1>0, <1>1, <1>2
<1>4. \A n \in Nat : n \in T => n + 1 \in T
    <2> TAKE n \in Nat
    <2> SUFFICES ASSUME n \in T, n + 1 < Parts
        PROVE  (n + 1) + 1 <= Len(s) /\ s[(n + 1) + 1] = [text |-> t, at |-> (n + 1) + 1]
        OBVIOUS
    <2>1. n + 1 \in 1..Len(s) /\ s[n + 1] = [text |-> t, at |-> n + 1]
        BY <1>0
    <2>2. s[n + 1].at = n + 1 /\ s[n + 1].at > 0 /\ s[n + 1].at < Parts /\ s[n + 1].text = t
        BY <1>0, <2>1
    <2> HIDE DEF T, t
    <2>3. n + 1 < Len(s) /\ s[(n + 1) + 1] = [text |-> s[n + 1].text, at |-> s[n + 1].at + 1]
        BY <2>1, <2>2 DEF Lines, Whole
    <2> QED
        BY <1>0, <2>2, <2>3
<1>5. Nat \subseteq T
    <2> HIDE DEF T
    <2> QED
        BY <1>3, <1>4, SetInduction
<1>6. \A i \in 1..Parts : i \in 1..Len(s) /\ s[i] = [text |-> t, at |-> i] /\ s[i].at = i
    <2> TAKE i \in 1..Parts
    <2>1. i - 1 \in T /\ (i - 1) + 1 = i /\ i - 1 < Parts
        BY <1>0, <1>5
    <2> QED
        BY <1>0, <2>1
<1> HIDE DEF T, t
<1>7. Parts < Len(s) /\ s[Parts + 1] = EOL
    <2>0. Parts \in 1..Parts /\ Parts > 0
        BY <1>0
    <2>1. Parts \in 1..Len(s) /\ s[Parts].at = Parts /\ s[Parts].at > 0
        BY <1>6, <2>0
    <2> QED
        BY <2>1 DEF Lines, Whole
<1>8. Parts + 1 \in 1..Len(s)
    BY <1>0, <1>7
<1>9. HasEOL(s)
    BY <1>0, <1>7, <1>8 DEF HasEOL
<1>10. find_NextEOL(s) = Parts
    <2> DEFINE m == find_NextEOL(s)
    <2>1. m \in Nat /\ s[m + 1] = EOL /\ \A i \in 1..m : s[i] # EOL
        BY <1>0, <1>9, NextEOL
    <2> HIDE DEF m
    <2>2. ~(Parts < m)
        BY <1>0, <1>7, <2>1
    <2>3. ~(m < Parts)
        <3> SUFFICES ASSUME m < Parts PROVE FALSE
            OBVIOUS
        <3>1. m + 1 \in 1..Parts
            BY <1>0, <2>1
        <3>2. s[m + 1].at = m + 1
            BY <1>6, <3>1
        <3> QED
            BY <2>1, <3>2, BytesOf
    <2>4. m = Parts
        BY <1>0, <2>1, <2>2, <2>3
    <2> QED
        BY <2>4 DEF m
<1>11. SubSeq(s, 1, Parts) = Text(t)
    <2>1. Parts \in 0..Len(s)
        BY <1>0, <1>7
    <2>2. SubSeq(s, 1, Parts) = [i \in 1..Parts |-> s[i]]
        <3>1. /\ SubSeq(s, 1, Parts) \in Seq(Bytes) /\ Len(SubSeq(s, 1, Parts)) = Parts
              /\ \A i \in 1..Parts : SubSeq(s, 1, Parts)[i] = s[i]
            BY <2>1, FirstOf
        <3> DEFINE p == SubSeq(s, 1, Parts)
        <3> HIDE DEF p
        <3>2. p = [i \in 1..Len(p) |-> p[i]]
            BY <3>1 DEF p
        <3> QED
            BY <3>1, <3>2 DEF p
    <2>3. [i \in 1..Parts |-> s[i]] = [i \in 1..Parts |-> [text |-> t, at |-> i]]
        BY <1>6
    <2> QED
        BY <2>2, <2>3 DEF Text
<1> QED
    BY <1>2, <1>6, <1>7, <1>9, <1>10, <1>11 DEF t

\* What is left of what is left.
LEMMA WithoutTwice ==
    ASSUME NEW s \in Seq(Bytes), NEW a \in 0..Len(s), NEW b \in 0..(Len(s) - a)
    PROVE  SubSeq(SubSeq(s, a + 1, Len(s)), b + 1, Len(s) - a) = SubSeq(s, a + b + 1, Len(s))
<1> DEFINE u == SubSeq(s, a + 1, Len(s))
           v == SubSeq(u, b + 1, Len(u))
           w == SubSeq(s, a + b + 1, Len(s))
<1>0. Len(s) \in Nat /\ a + b \in 0..Len(s)
    OBVIOUS
<1>1. u \in Seq(Bytes) /\ Len(u) = Len(s) - a /\ \A i \in 1..(Len(s) - a) : u[i] = s[a + i]
    BY Without
<1> HIDE DEF u
<1>2. /\ v \in Seq(Bytes) /\ Len(v) = Len(s) - (a + b)
      /\ \A i \in 1..(Len(s) - (a + b)) : v[i] = u[b + i]
    <2>1. b \in 0..Len(u) /\ Len(u) - b = Len(s) - (a + b)
        BY <1>0, <1>1
    <2> QED
        BY <1>1, <2>1, Without
<1>3. /\ w \in Seq(Bytes) /\ Len(w) = Len(s) - (a + b)
      /\ \A i \in 1..(Len(s) - (a + b)) : w[i] = s[a + b + i]
    BY <1>0, Without
<1>4. \A i \in 1..(Len(s) - (a + b)) : v[i] = w[i]
    <2> TAKE i \in 1..(Len(s) - (a + b))
    <2>1. b + i \in 1..(Len(s) - a) /\ a + (b + i) = a + b + i
        BY <1>0
    <2> QED
        BY <1>1, <1>2, <1>3, <2>1
<1> HIDE DEF v, w
<1>5. v = w
    BY <1>2, <1>3, <1>4, SeqEqual
<1> QED
    BY <1>1, <1>5 DEF u, v, w

\* The first line of whole lines, and what follows it when it is read.
LEMMA NextLine ==
    ASSUME NEW s \in Seq(Bytes), Lines(s), skip_line_break(s) # <<>>,
           NEW u, u = skip_line_break(s),
           NEW rest, rest = skip_line_break(SubSeq(u, find_NextEOL(u) + 1, Len(u)))
    PROVE  /\ HasEOL(u)
           /\ \E m \in 0..Len(s), t \in ChkNetAT \union {"OK", "STIN"}, q \in Nat :
                 /\ SubSeq(u, 1, find_NextEOL(u)) = Text(t)
                 /\ rest = SubSeq(s, m + 1, Len(s)) /\ Lines(rest)
                 /\ q \in 1..m /\ s[q].at = 1 /\ s[q].text = t
                 /\ \A j \in 1..m : s[j].at = 1 => j = q
<1>0. Len(s) \in Nat /\ Parts \in Nat \ {0}
    BY SerialLineAssumption
<1>1. PICK a \in 0..Len(s) : /\ u = SubSeq(s, a + 1, Len(s))
                             /\ \A i \in 1..a : s[i] = EOL
                             /\ a < Len(s) => s[a + 1] # EOL
    BY SkipOf
<1>2. a < Len(s)
    <2> SUFFICES ASSUME a = Len(s) PROVE FALSE
        BY <1>0
    <2>1. SubSeq(s, Len(s) + 1, Len(s)) = <<>>
        BY <1>0
    <2> QED
        BY <1>1, <2>1
<1>3. u \in Seq(Bytes) /\ Len(u) = Len(s) - a /\ \A i \in 1..(Len(s) - a) : u[i] = s[a + i]
    BY <1>1, Without
<1>4. Lines(u)
    <2>1. a > 0 => s[a] = EOL
        BY <1>0, <1>1
    <2> QED
        BY <1>1, <2>1, LinesCut
<1>5. Len(u) > 0 /\ u[1] = s[a + 1] /\ u[1] # EOL
    BY <1>0, <1>1, <1>2, <1>3
<1> DEFINE t == u[1].text
<1>6. /\ t \in ChkNetAT \union {"OK", "STIN"}
      /\ HasEOL(u) /\ Parts < Len(u) /\ find_NextEOL(u) = Parts
      /\ SubSeq(u, 1, Parts) = Text(t)
      /\ \A i \in 1..Parts : u[i] = [text |-> t, at |-> i]
      /\ u[Parts + 1] = EOL
    BY <1>3, <1>4, <1>5, FirstLine
<1> DEFINE v == SubSeq(u, Parts + 1, Len(u))
<1>7. /\ v \in Seq(Bytes) /\ Len(v) = Len(u) - Parts
      /\ \A i \in 1..(Len(u) - Parts) : v[i] = u[Parts + i]
    <2>1. Parts \in 0..Len(u)
        BY <1>0, <1>6
    <2> QED
        BY <1>3, <2>1, Without
<1> HIDE DEF v, t
<1>8. PICK b \in 0..Len(v) : /\ skip_line_break(v) = SubSeq(v, b + 1, Len(v))
                             /\ \A i \in 1..b : v[i] = EOL
                             /\ b < Len(v) => v[b + 1] # EOL
    BY <1>7, SkipOf
<1>9. b > 0
    <2>1. 1 \in 1..(Len(u) - Parts) /\ Len(v) > 0
        BY <1>0, <1>3, <1>6, <1>7
    <2>2. v[1] = EOL
        BY <1>6, <1>7, <2>1
    <2> QED
        BY <1>0, <1>8, <2>1, <2>2
<1> DEFINE m == a + Parts + b
           q == a + 1
<1>10. m \in 0..Len(s) /\ q \in 1..m /\ m > 0
    BY <1>0, <1>3, <1>6, <1>7, <1>8, <1>9
<1>11. rest = SubSeq(s, m + 1, Len(s))
    <2>1. rest = SubSeq(v, b + 1, Len(v))
        BY <1>6, <1>8 DEF v
    <2>2. Parts \in 0..(Len(s) - a) /\ a + Parts \in 0..Len(s) /\ Len(v) = Len(s) - (a + Parts)
        BY <1>0, <1>3, <1>6, <1>7
    <2>3. v = SubSeq(s, a + Parts + 1, Len(s))
        BY <1>1, <1>3, <2>2, WithoutTwice DEF v
    <2>4. b \in 0..(Len(s) - (a + Parts))
        BY <1>8, <2>2
    <2>5. SubSeq(SubSeq(s, (a + Parts) + 1, Len(s)), b + 1, Len(s) - (a + Parts))
              = SubSeq(s, (a + Parts) + b + 1, Len(s))
        BY <2>2, <2>4, WithoutTwice
    <2> QED
        BY <2>1, <2>2, <2>3, <2>5
<1>12. \A j \in 1..m : \/ j \in 1..a /\ s[j] = EOL
                       \/ j - a \in 1..Parts /\ s[j] = u[j - a]
                       \/ j - (a + Parts) \in 1..b /\ s[j] = v[j - (a + Parts)]
    <2> TAKE j \in 1..m
    <2>1. CASE j \in 1..a
        BY <1>1, <2>1
    <2>2. CASE j - a \in 1..Parts
        <3>1. j - a \in 1..(Len(s) - a) /\ a + (j - a) = j
            BY <1>0, <1>3, <1>6, <2>2
        <3> QED
            BY <1>3, <2>2, <3>1
    <2>3. CASE j - (a + Parts) \in 1..b
        <3> DEFINE i == j - (a + Parts)
        <3>1. i \in 1..(Len(u) - Parts) /\ Parts + i \in 1..(Len(s) - a) /\ a + (Parts + i) = j
            BY <1>0, <1>3, <1>6, <1>7, <1>8, <2>3
        <3> HIDE DEF i
        <3>2. v[i] = s[j]
            BY <1>3, <1>7, <3>1
        <3> QED
            BY <2>3, <3>2 DEF i
    <2>4. j \in 1..a \/ j - a \in 1..Parts \/ j - (a + Parts) \in 1..b
        BY <1>0, <1>8
    <2> QED
        BY <2>1, <2>2, <2>3, <2>4
<1>13. \A j \in 1..m : s[j].at = 1 => j = q
    <2> TAKE j \in 1..m
    <2> SUFFICES ASSUME s[j].at = 1 PROVE j = a + 1
        OBVIOUS
    <2>1. s[j] # EOL
        BY BytesOf
    <2>2. j - a \in 1..Parts /\ s[j] = u[j - a]
        BY <1>8, <1>12, <2>1
    <2>3. s[j] = [text |-> t, at |-> j - a]
        BY <1>6, <2>2
    <2>4. s[j].at = j - a
        BY <2>3
    <2> QED
        BY <1>0, <2>4
<1>14. s[q].at = 1 /\ s[q].text = t
    <2>1. 1 \in 1..Parts
        BY <1>0
    <2>2. u[1] = [text |-> t, at |-> 1]
        BY <1>6, <2>1
    <2> QED
        BY <1>5, <2>2
<1>15. Lines(rest)
    <2>1. s[m] = EOL
        <3>1. m \in 1..m /\ m \notin 1..a /\ m - a \notin 1..Parts /\ m - (a + Parts) = b /\ b \in 1..b
            BY <1>0, <1>9
        <3> HIDE DEF m
        <3>2. s[m] = v[b]
            BY <1>12, <3>1
        <3> QED
            BY <1>8, <3>1, <3>2
    <2> QED
        BY <1>10, <1>11, <2>1, LinesCut
<1> HIDE DEF m, q
<1>16. q \in Nat
    BY <1>10
<1> QED
    BY <1>6, <1>10, <1>11, <1>13, <1>14, <1>15, <1>16

-----------------------------------------------------------------------------
(* The answers that are still to come.                                     *)

\* Nothing, or one OK: what is left when an answer is read.
AtMostOK(s) == \A j, k \in Answers(s) : j = k /\ s[j].text = "OK"

\* The answer to ATE0, echoed or not.
Greeting(s) ==
    \E h \in 0..Len(s), k \in 1..Len(s) :
        /\ h < k
        /\ Answers(s) = {h, k} \ {0}
        /\ h > 0 => s[h].text = "IDLE"
        /\ s[k].text = "OK"

\* r is s without its first d bytes.
Behind(s, d, r) ==
    /\ d \in 0..Len(s) /\ Len(s) \in Nat
    /\ Len(r) = Len(s) - d
    /\ \A i \in 1..Len(r) : r[i] = s[d + i]

\* The answers of what is left are those that were not read.
LEMMA AnswersBehind ==
    ASSUME NEW s, NEW d, NEW r, Behind(s, d, r)
    PROVE  /\ \A j \in Answers(r) : d + j \in Answers(s) /\ r[j] = s[d + j]
           /\ \A j \in Answers(s) : j > d => j - d \in Answers(r) /\ r[j - d] = s[j]
<1>0. d \in Nat /\ d <= Len(s) /\ Len(s) \in Nat /\ Len(r) = Len(s) - d
    BY DEF Behind
<1>1. ASSUME NEW j \in Answers(r) PROVE d + j \in Answers(s) /\ r[j] = s[d + j]
    <2>1. j \in 1..Len(r) /\ r[j].text \in ChkNetAT \union {"OK"} /\ r[j].at = 1
        BY DEF Answers
    <2>2. r[j] = s[d + j] /\ d + j \in 1..Len(s)
        BY <1>0, <2>1 DEF Behind
    <2> QED
        BY <2>1, <2>2 DEF Answers
<1>2. ASSUME NEW j \in Answers(s), j > d PROVE j - d \in Answers(r) /\ r[j - d] = s[j]
    <2>1. j \in 1..Len(s) /\ s[j].text \in ChkNetAT \union {"OK"} /\ s[j].at = 1
        BY DEF Answers
    <2>2. j - d \in 1..Len(r) /\ d + (j - d) = j
        BY <1>0, <1>2, <2>1
    <2>3. r[j - d] = s[j]
        BY <2>2 DEF Behind
    <2> QED
        BY <2>1, <2>2, <2>3 DEF Answers
<1> QED
    BY <1>1, <1>2

\* With at most an OK read, the answer is still to come.
LEMMA InStepBehind ==
    ASSUME NEW s, NEW d, NEW r, NEW x \in {"CSQ", "CGREG"}, Behind(s, d, r), InStep(s, x),
           \A j \in Answers(s) : j <= d => s[j].text = "OK"
    PROVE  InStep(r, x)
<1>0. d \in Nat /\ d <= Len(s) /\ Len(s) \in Nat /\ Len(r) = Len(s) - d
    BY DEF Behind
<1>1. PICK h \in 0..Len(s), i \in 1..Len(s), k \in 1..Len(s) :
              /\ h < i /\ i < k
              /\ Answers(s) = {h, i, k} \ {0}
              /\ h > 0 => s[h].text = "OK"
              /\ s[i].text = x
              /\ s[k].text = "OK"
    BY DEF InStep
<1>2. i \in Answers(s) /\ k \in Answers(s) /\ i > d /\ k > d
    BY <1>0, <1>1
<1> DEFINE g == IF h > d THEN h - d ELSE 0
<1>3. /\ g \in 0..Len(r) /\ i - d \in 1..Len(r) /\ k - d \in 1..Len(r)
      /\ g < i - d /\ i - d < k - d
    BY <1>0, <1>1, <1>2
<1>4. r[i - d] = s[i] /\ r[k - d] = s[k] /\ i - d \in Answers(r) /\ k - d \in Answers(r)
    BY <1>2, AnswersBehind
<1>5. g > 0 => g \in Answers(r) /\ r[g] = s[h]
    <2> SUFFICES ASSUME h > d PROVE h - d \in Answers(r) /\ r[h - d] = s[h]
        BY <1>0
    <2>1. h \in Answers(s)
        BY <1>0, <1>1
    <2> QED
        BY <2>1, AnswersBehind
<1>6. \A j \in Answers(r) : j \in {g, i - d, k - d}
    <2> TAKE j \in Answers(r)
    <2>0. j \in Nat \ {0}
        BY <1>0 DEF Answers
    <2>1. d + j \in {h, i, k}
        BY <1>1, <2>0, AnswersBehind
    <2> QED
        BY <1>0, <1>1, <2>0, <2>1
<1>7. 0 \notin Answers(r)
    BY <1>0 DEF Answers
<1>8. Answers(r) = {g, i - d, k - d} \ {0}
    BY <1>0, <1>3, <1>4, <1>5, <1>6, <1>7
<1>9. g > 0 => h > 0
    BY <1>0, <1>1
<1>10. g > 0 => r[g].text = "OK"
    BY <1>1, <1>5, <1>9
<1> HIDE DEF g
<1> QED
    BY SMTT(30), <1>1, <1>3, <1>4, <1>8, <1>10 DEF InStep

\* With the answer read, at most its OK is to come.
LEMMA AnswerRead ==
    ASSUME NEW s, NEW d, NEW r, NEW x \in {"CSQ", "CGREG"}, Behind(s, d, r), InStep(s, x),
           NEW q \in Answers(s), q <= d, s[q].text # "OK"
    PROVE  s[q].text = x /\ AtMostOK(r)
<1>0. d \in Nat /\ d <= Len(s) /\ Len(s) \in Nat /\ Len(r) = Len(s) - d
    BY DEF Behind
<1>1. PICK h \in 0..Len(s), i \in 1..Len(s), k \in 1..Len(s) :
              /\ h < i /\ i < k
              /\ Answers(s) = {h, i, k} \ {0}
              /\ h > 0 => s[h].text = "OK"
              /\ s[i].text = x
              /\ s[k].text = "OK"
    BY DEF InStep
<1>2. q = i
    BY <1>0, <1>1
<1>3. ASSUME NEW j \in Answers(r) PROVE d + j = k /\ r[j].text = "OK" /\ j \in Nat
    <2>0. j \in Nat \ {0}
        BY <1>0 DEF Answers
    <2>1. d + j \in {h, i, k} /\ r[j] = s[d + j]
        BY <1>1, <2>0, AnswersBehind
    <2>2. d + j = k
        BY <1>0, <1>1, <1>2, <2>0, <2>1
    <2> QED
        BY <1>1, <2>0, <2>1, <2>2
<1>4. \A j, l \in Answers(r) : j = l
    BY <1>0, <1>3
<1> QED
    BY <1>1, <1>2, <1>3, <1>4 DEF AtMostOK

\* With no answer read, the one to ATE0 is still to come.
LEMMA GreetingBehind ==
    ASSUME NEW s, NEW d, NEW r, Behind(s, d, r), Greeting(s), \A j \in Answers(s) : j > d
    PROVE  Greeting(r)
<1>0. d \in Nat /\ d <= Len(s) /\ Len(s) \in Nat /\ Len(r) = Len(s) - d
    BY DEF Behind
<1>1. PICK h \in 0..Len(s), k \in 1..Len(s) :
              /\ h < k
              /\ Answers(s) = {h, k} \ {0}
              /\ h > 0 => s[h].text = "IDLE"
              /\ s[k].text = "OK"
    BY DEF Greeting
<1>2. k \in Answers(s) /\ k > d
    BY <1>0, <1>1
<1> DEFINE g == IF h > d THEN h - d ELSE 0
<1>3. g \in 0..Len(r) /\ k - d \in 1..Len(r) /\ g < k - d
    BY <1>0, <1>1, <1>2
<1>4. r[k - d] = s[k] /\ k - d \in Answers(r)
    BY <1>2, AnswersBehind
<1>5. g > 0 => g \in Answers(r) /\ r[g] = s[h] /\ h > 0
    <2> SUFFICES ASSUME h > d PROVE h - d \in Answers(r) /\ r[h - d] = s[h] /\ h > 0
        BY <1>0
    <2>1. h \in Answers(s) /\ h > 0
        BY <1>0, <1>1
    <2> QED
        BY <2>1, AnswersBehind
<1>6. \A j \in Answers(r) : j \in {g, k - d}
    <2> TAKE j \in Answers(r)
    <2>0. j \in Nat \ {0}
        BY <1>0 DEF Answers
    <2>1. d + j \in {h, k}
        BY <1>1, <2>0, AnswersBehind
    <2> QED
        BY <1>0, <1>1, <2>0, <2>1
<1>7. 0 \notin Answers(r)
    BY <1>0 DEF Answers
<1>8. Answers(r) = {g, k - d} \ {0}
    BY <1>0, <1>3, <1>4, <1>5, <1>6, <1>7
<1>9. g > 0 => r[g].text = "IDLE"
    BY <1>1, <1>5
<1> HIDE DEF g
<1> QED
    BY <1>1, <1>3, <1>4, <1>8, <1>9 DEF Greeting

\* With a part of it read, at most the OK is to come.
LEMMA GreetingRead ==
    ASSUME NEW s, NEW d, NEW r, Behind(s, d, r), Greeting(s), NEW q \in Answers(s), q <= d
    PROVE  AtMostOK(r)
<1>0. d \in Nat /\ d <= Len(s) /\ Len(s) \in Nat /\ Len(r) = Len(s) - d
    BY DEF Behind
<1>1. PICK h \in 0..Len(s), k \in 1..Len(s) :
              /\ h < k
              /\ Answers(s) = {h, k} \ {0}
              /\ h > 0 => s[h].text = "IDLE"
              /\ s[k].text = "OK"
    BY DEF Greeting
<1>2. h <= d
    BY <1>0, <1>1
<1>3. ASSUME NEW j \in Answers(r) PROVE d + j = k /\ r[j].text = "OK" /\ j \in Nat
    <2>0. j \in Nat \ {0}
        BY <1>0 DEF Answers
    <2>1. d + j \in {h, k} /\ r[j] = s[d + j]
        BY <1>1, <2>0, AnswersBehind
    <2>2. d + j = k
        BY <1>0, <1>1, <1>2, <2>0, <2>1
    <2> QED
        BY <1>1, <2>0, <2>1, <2>2
<1>4. \A j, l \in Answers(r) : j = l
    BY <1>0, <1>3
<1> QED
    BY <1>1, <1>3, <1>4 DEF AtMostOK

\* At most an OK remains at most an OK.
LEMMA AtMostOKBehind ==
    ASSUME NEW s, NEW d, NEW r, Behind(s, d, r), AtMostOK(s)
    PROVE  AtMostOK(r)
<1>0. d \in Nat
    BY DEF Behind
<1>1. ASSUME NEW j \in Answers(r) PROVE d + j \in Answers(s) /\ r[j] = s[d + j] /\ j \in Nat
    BY AnswersBehind DEF Answers, Behind
<1>2. \A j, l \in Answers(r) : d + j = d + l /\ j \in Nat /\ l \in Nat /\ r[j].text = "OK"
    BY <1>1 DEF AtMostOK
<1> QED
    BY <1>0, <1>2 DEF AtMostOK

\* The answers of two sequences that are joined.
LEMMA AnswersJoined ==
    ASSUME NEW s \in Seq(Bytes), NEW r \in Seq(Bytes)
    PROVE  /\ \A j : j \in Answers(s \o r) <=>
                  \/ j \in Answers(s)
                  \/ j \in Int /\ j - Len(s) \in Answers(r)
           /\ \A j \in Answers(s) : j \in 1..Len(s) /\ (s \o r)[j] = s[j]
           /\ \A j \in Answers(r) : Len(s) + j \in Answers(s \o r) /\ (s \o r)[Len(s) + j] = r[j]
<1> DEFINE p == s \o r
<1>1. /\ Len(p) = Len(s) + Len(r) /\ Len(s) \in Nat /\ Len(r) \in Nat
      /\ \A i \in 1..Len(s) : p[i] = s[i]
      /\ \A i \in 1..Len(r) : p[Len(s) + i] = r[i]
    BY Joined
<1> HIDE DEF p
<1>2. ASSUME NEW j \in Answers(s) PROVE j \in Answers(p) /\ j \in 1..Len(s) /\ p[j] = s[j]
    <2>1. j \in 1..Len(s) /\ s[j].text \in ChkNetAT \union {"OK"} /\ s[j].at = 1
        BY DEF Answers
    <2>2. p[j] = s[j] /\ j \in 1..Len(p)
        BY <1>1, <2>1
    <2> QED
        BY <2>1, <2>2 DEF Answers
<1>3. ASSUME NEW i \in Answers(r) PROVE Len(s) + i \in Answers(p) /\ p[Len(s) + i] = r[i]
    <2>1. i \in 1..Len(r) /\ r[i].text \in ChkNetAT \union {"OK"} /\ r[i].at = 1
        BY DEF Answers
    <2>2. p[Len(s) + i] = r[i] /\ Len(s) + i \in 1..Len(p)
        BY <1>1, <2>1
    <2> QED
        BY <2>1, <2>2 DEF Answers
<1>4. ASSUME NEW j, j \in Answers(p), j \notin Answers(s)
      PROVE  j \in Int /\ j - Len(s) \in Answers(r)
    <2>1. j \in 1..(Len(s) + Len(r)) /\ p[j].text \in ChkNetAT \union {"OK"} /\ p[j].at = 1
        BY <1>1, <1>4 DEF Answers
    <2>2. j \notin 1..Len(s)
        BY <1>1, <1>4, <2>1 DEF Answers
    <2>3. j - Len(s) \in 1..Len(r) /\ Len(s) + (j - Len(s)) = j
        BY <1>1, <2>1, <2>2
    <2>4. p[j] = r[j - Len(s)]
        BY <1>1, <2>3
    <2> QED
        BY <2>1, <2>3, <2>4 DEF Answers
<1>5. ASSUME NEW j, j \in Int, j - Len(s) \in Answers(r) PROVE j \in Answers(p)
    <2>1. Len(s) + (j - Len(s)) = j
        BY <1>1, <1>5
    <2> QED
        BY <1>3, <1>5, <2>1
<1> QED
    BY <1>2, <1>3, <1>4, <1>5 DEF p

\* A line is one answer, unless it is a report.
LEMMA AnswersLine ==
    ASSUME NEW t \in Texts
    PROVE  /\ t \in ChkNetAT \union {"OK"} => Answers(Line(t)) = {2} /\ Line(t)[2].text = t
           /\ t \in Reports => Answers(Line(t)) = {}
<1>0. Parts \in Nat \ {0}
    BY SerialLineAssumption
<1>1. /\ Len(Line(t)) = Parts + 2
      /\ Line(t)[1].at = 0 /\ Line(t)[Parts + 2].at = 0
      /\ \A i \in 1..Parts : Line(t)[i + 1] = [text |-> t, at |-> i]
    BY LineOf, BytesOf
<1>2. \A j \in 1..(Parts + 2) : Line(t)[j].at = 1 => j = 2 /\ Line(t)[j].text = t
    <2> SUFFICES ASSUME NEW j \in 1..(Parts + 2), Line(t)[j].at = 1
        PROVE  j = 2 /\ Line(t)[j].text = t
        OBVIOUS
    <2>1. j # 1 /\ j # Parts + 2
        BY <1>1
    <2>2. j - 1 \in 1..Parts /\ (j - 1) + 1 = j
        BY <1>0, <2>1
    <2>3. Line(t)[j] = [text |-> t, at |-> j - 1]
        BY <1>1, <2>2
    <2>4. Line(t)[j].at = j - 1 /\ Line(t)[j].text = t
        BY <2>3
    <2> QED
        BY <2>4
<1>3. Line(t)[2] = [text |-> t, at |-> 1] /\ 2 \in 1..(Parts + 2)
    <2>1. 1 \in 1..Parts /\ 1 + 1 = 2
        BY <1>0
    <2>2. Line(t)[1 + 1] = [text |-> t, at |-> 1]
        BY <1>1, <2>1
    <2> QED
        BY <1>0, <2>2
<1>4. Line(t)[2].at = 1 /\ Line(t)[2].text = t
    BY <1>3
<1>5. ASSUME t \in ChkNetAT \union {"OK"} PROVE Answers(Line(t)) = {2}
    BY <1>1, <1>2, <1>3, <1>4, <1>5 DEF Answers
<1>6. ASSUME t \in Reports PROVE Answers(Line(t)) = {}
    <2>1. t \notin ChkNetAT \union {"OK"}
        BY <1>6 DEF Reports, ChkNetAT
    <2> QED
        BY <1>1, <1>2, <2>1 DEF Answers
<1> QED
    BY <1>4, <1>5, <1>6

\* The answer to a command: its line, and OK.
LEMMA ReplyOf ==
    ASSUME NEW x \in ChkNetAT
    PROVE  /\ Line(x) \o Line("OK") \in Seq(Bytes)
           /\ Len(Line(x) \o Line("OK")) = 2 * Parts + 4
           /\ Lines(Line(x) \o Line("OK"))
           /\ Answers(Line(x) \o Line("OK")) = {2, Parts + 4}
           /\ (Line(x) \o Line("OK"))[2].text = x
           /\ (Line(x) \o Line("OK"))[Parts + 4].text = "OK"
<1>0. Parts \in Nat \ {0} /\ x \in Texts /\ "OK" \in Texts
    BY SerialLineAssumption DEF Texts
<1> DEFINE s == Line(x)
           r == Line("OK")
<1>1. s \in Seq(Bytes) /\ r \in Seq(Bytes) /\ Len(s) = Parts + 2 /\ Len(r) = Parts + 2
    BY <1>0, LineOf
<1>2. Answers(s) = {2} /\ s[2].text = x /\ Answers(r) = {2} /\ r[2].text = "OK"
    BY <1>0, AnswersLine
<1>3. Lines(s) /\ Lines(r)
    BY LineWhole
<1> HIDE DEF s, r
<1>4. s \o r \in Seq(Bytes) /\ Len(s \o r) = 2 * Parts + 4 /\ Lines(s \o r)
    BY <1>0, <1>1, <1>3, LinesJoined
<1>5. /\ \A j : j \in Answers(s \o r) <=> j = 2 \/ (j \in Int /\ j - (Parts + 2) = 2)
      /\ (s \o r)[2] = s[2] /\ (s \o r)[Parts + 2 + 2] = r[2]
    BY <1>1, <1>2, AnswersJoined
<1>6. Answers(s \o r) = {2, Parts + 4} /\ Parts + 2 + 2 = Parts + 4
    BY <1>0, <1>5
<1> QED
    BY <1>2, <1>4, <1>5, <1>6 DEF s, r

\* When the answer before it was read, that of the next command is awaited.
LEMMA ReplyAwaited ==
    ASSUME NEW s \in Seq(Bytes), AtMostOK(s), NEW x \in {"CSQ", "CGREG"}
    PROVE  InStep(s \o (Line(x) \o Line("OK")), x)
<1>0. Parts \in Nat \ {0} /\ Len(s) \in Nat /\ x \in ChkNetAT
    BY SerialLineAssumption DEF ChkNetAT
<1> DEFINE r == Line(x) \o Line("OK")
           p == s \o r
<1>1. /\ r \in Seq(Bytes) /\ Len(r) = 2 * Parts + 4 /\ Answers(r) = {2, Parts + 4}
      /\ r[2].text = x /\ r[Parts + 4].text = "OK"
    BY <1>0, ReplyOf
<1> HIDE DEF r
<1> DEFINE i == Len(s) + 2
           k == Len(s) + Parts + 4
<1>2. /\ \A j : j \in Answers(p) <=>
              j \in Answers(s) \/ (j \in Int /\ j - Len(s) \in {2, Parts + 4})
      /\ \A j \in Answers(s) : j \in 1..Len(s) /\ p[j] = s[j]
      /\ p[i] = r[2] /\ p[k] = r[Parts + 4]
      /\ Len(p) = Len(s) + 2 * Parts + 4
    <2>1. Len(p) = Len(s) + 2 * Parts + 4 /\ 2 \in Answers(r) /\ Parts + 4 \in Answers(r)
        BY <1>0, <1>1
    <2>2. Len(s) + (Parts + 4) = k
        BY <1>0
    <2> HIDE DEF k
    <2> QED
        BY <1>0, <1>1, <2>1, <2>2, AnswersJoined
<1> HIDE DEF p
<1>3. \E h \in 0..Len(s) : Answers(s) = {h} \ {0} /\ (h > 0 => s[h].text = "OK")
    <2>1. CASE Answers(s) = {}
        BY <1>0, <2>1
    <2>2. CASE Answers(s) # {}
        <3>1. PICK h \in Answers(s) : TRUE
            BY <2>2
        <3>2. h \in 1..Len(s) /\ Answers(s) = {h} /\ s[h].text = "OK"
            BY <3>1 DEF AtMostOK, Answers
        <3> QED
            BY <1>0, <3>2
    <2> QED
        BY <2>1, <2>2
<1>4. PICK h \in 0..Len(s) : Answers(s) = {h} \ {0} /\ (h > 0 => s[h].text = "OK")
    BY <1>3
<1>5. h \in 0..Len(p) /\ i \in 1..Len(p) /\ k \in 1..Len(p) /\ h < i /\ i < k
    BY <1>0, <1>2
<1>6. Answers(p) = {h, i, k} \ {0}
    BY <1>0, <1>2, <1>4
<1>7. h > 0 => p[h].text = "OK"
    BY <1>0, <1>2, <1>4
<1>8. p[i].text = x /\ p[k].text = "OK"
    BY <1>1, <1>2
<1> HIDE DEF i, k
<1>9. InStep(p, x)
    BY <1>5, <1>6, <1>7, <1>8 DEF InStep
<1> QED
    BY <1>9 DEF p, r

\* A report that reader() skips is no answer.
LEMMA ReportNoAnswer ==
    ASSUME NEW s \in Seq(Bytes)
    PROVE  /\ Greeting(s) => Greeting(s \o Line("STIN"))
           /\ \A x \in {"CSQ", "CGREG"} : InStep(s, x) => InStep(s \o Line("STIN"), x)
<1> DEFINE r == Line("STIN")
           p == s \o r
<1>0. "STIN" \in Texts /\ "STIN" \in Reports
    BY DEF Texts, Reports
<1>1. r \in Seq(Bytes) /\ Len(r) \in Nat /\ Answers(r) = {}
    BY <1>0, LineOf, AnswersLine
<1> HIDE DEF r
<1>2. Answers(p) = Answers(s) /\ \A j \in 1..Len(s) : p[j] = s[j]
    <2>1. \A j : j \in Answers(p) <=> j \in Answers(s)
        BY <1>1, AnswersJoined
    <2>2. \A j \in 1..Len(s) : p[j] = s[j]
        BY <1>1, Joined
    <2> QED
        BY <2>1, <2>2
<1>3. Len(p) >= Len(s) /\ Len(p) \in Nat /\ Len(s) \in Nat
    BY <1>1
<1> HIDE DEF p
<1>4. ASSUME Greeting(s) PROVE Greeting(p)
    <2>1. PICK h \in 0..Len(s), k \in 1..Len(s) :
              /\ h < k
              /\ Answers(s) = {h, k} \ {0}
              /\ h > 0 => s[h].text = "IDLE"
              /\ s[k].text = "OK"
        BY <1>4 DEF Greeting
    <2>2. h \in 0..Len(p) /\ k \in 1..Len(p) /\ p[k] = s[k] /\ (h > 0 => p[h] = s[h])
        BY <1>2, <1>3
    <2> QED
        BY <1>2, <2>1, <2>2 DEF Greeting
<1>5. ASSUME NEW x \in {"CSQ", "CGREG"}, InStep(s, x) PROVE InStep(p, x)
    <2>1. PICK h \in 0..Len(s), i \in 1..Len(s), k \in 1..Len(s) :
              /\ h < i /\ i < k
              /\ Answers(s) = {h, i, k} \ {0}
              /\ h > 0 => s[h].text = "OK"
              /\ s[i].text = x
              /\ s[k].text = "OK"
        BY <1>5 DEF InStep
    <2>2. /\ h \in 0..Len(p) /\ i \in 1..Len(p) /\ k \in 1..Len(p)
          /\ p[i] = s[i] /\ p[k] = s[k] /\ (h > 0 => p[h] = s[h])
        BY <1>2, <1>3
    <2> QED
        BY <1>2, <2>1, <2>2 DEF InStep
<1> QED
    BY <1>4, <1>5 DEF p, r

\* The answer to ATE0 is one, echoed or not.
LEMMA Greetings == \A r \in Replies("IDLE") : Greeting(r) /\ r \in Seq(Bytes) /\ Lines(r)
<1>0. Parts \in Nat \ {0} /\ "IDLE" \in ChkNetAT /\ "OK" \in Texts
    BY SerialLineAssumption DEF ChkNetAT, Texts
<1>1. Replies("IDLE") = {Line("IDLE") \o Line("OK"), Line("OK")}
    BY DEF Replies
<1>2. Greeting(Line("OK")) /\ Line("OK") \in Seq(Bytes) /\ Lines(Line("OK"))
    <2> DEFINE r == Line("OK")
    <2>1. r \in Seq(Bytes) /\ Lines(r) /\ Answers(r) = {2} /\ r[2].text = "OK" /\ Len(r) = Parts + 2
        BY <1>0, LineOf, LineWhole, AnswersLine
    <2> HIDE DEF r
    <2>2. 0 \in 0..Len(r) /\ 2 \in 1..Len(r) /\ Answers(r) = {0, 2} \ {0} /\ ~(0 > 0)
        BY <1>0, <2>1
    <2>3. Greeting(r)
        BY <2>1, <2>2 DEF Greeting
    <2> QED
        BY <2>1, <2>3 DEF r
<1>3. LET r == Line("IDLE") \o Line("OK") IN Greeting(r) /\ r \in Seq(Bytes) /\ Lines(r)
    <2> DEFINE r == Line("IDLE") \o Line("OK")
    <2>1. /\ r \in Seq(Bytes) /\ Lines(r) /\ Len(r) = 2 * Parts + 4
          /\ Answers(r) = {2, Parts + 4} /\ r[2].text = "IDLE" /\ r[Parts + 4].text = "OK"
        BY <1>0, ReplyOf
    <2> HIDE DEF r
    <2>2. /\ 2 \in 0..Len(r) /\ Parts + 4 \in 1..Len(r) /\ 2 < Parts + 4
          /\ Answers(r) = {2, Parts + 4} \ {0}
        BY <1>0, <2>1
    <2>3. Greeting(r)
        BY <2>1, <2>2 DEF Greeting
    <2> QED
        BY <2>1, <2>3 DEF r
<1> QED
    BY <1>1, <1>2, <1>3

-----------------------------------------------------------------------------
(* The types.                                                              *)

\* A sequence of bytes stays one when lines are added or bytes are taken away.
LEMMA RepliesOf ==
    ASSUME NEW x \in ChkNetAT \union {"MAX"}, NEW r \in Replies(x)
    PROVE  r \in Seq(Bytes) /\ Lines(r)
<1>1. CASE x = "IDLE"
    BY <1>1, Greetings
<1>2. CASE x \in ChkNetAT /\ x # "IDLE"
    <2>1. r = Line(x) \o Line("OK")
        BY <1>2 DEF Replies
    <2> QED
        BY <1>2, <2>1, ReplyOf
<1>3. CASE x = "MAX"
    <2>1. r = <<>>
        BY <1>3 DEF Replies, ChkNetAT
    <2>2. <<>> \in Seq(Bytes) /\ Len(<<>>) = 0
        OBVIOUS
    <2>3. Lines(<<>>)
        BY <2>2 DEF Lines, Whole, Known
    <2> QED
        BY <2>1, <2>2, <2>3
<1> QED
    BY <1>1, <1>2, <1>3

\* What skip_line_break() leaves is bytes.
LEMMA SkipType ==
    ASSUME NEW s \in Seq(Bytes)
    PROVE  skip_line_break(s) \in Seq(Bytes)
<1>1. PICK n \in 0..Len(s) : skip_line_break(s) = SubSeq(s, n + 1, Len(s))
    BY SkipOf
<1> QED
    BY <1>1, Without

\* What is left behind the first line is bytes.
LEMMA RestType ==
    ASSUME NEW s \in Seq(Bytes), HasEOL(s)
    PROVE  skip_line_break(SubSeq(s, find_NextEOL(s) + 1, Len(s))) \in Seq(Bytes)
<1>1. find_NextEOL(s) \in 0..Len(s)
    BY NextEOL
<1>2. SubSeq(s, find_NextEOL(s) + 1, Len(s)) \in Seq(Bytes)
    BY <1>1, Without
<1> QED
    BY <1>2, SkipType

\* What the handler does with a line leaves the types.
LEMMA HandlerType ==
    ASSUME TypeOK, NEW line, NEW rest \in Seq(Bytes), r_checkNetHdlr(line, rest)
    PROVE  /\ modem' \in Seq(Bytes) /\ ATBuf' \in Seq(Bytes)
           /\ chk_net_state' \in ChkNetAT \union {"MAX"} /\ label' \in ChkNetAT
           /\ pc' \in {"select", "read_line", "crashed"}
<1> USE DEF TypeOK
<1> DEFINE Typed == /\ modem' \in Seq(Bytes) /\ ATBuf' \in Seq(Bytes)
                    /\ chk_net_state' \in ChkNetAT \union {"MAX"} /\ label' \in ChkNetAT
                    /\ pc' \in {"select", "read_line", "crashed"}
<1>1. Waits => Typed
    BY DEF Waits
<1>2. ASSUME NEW l \in ChkNetAT, Skips(rest, l) PROVE Typed
    BY <1>1, <1>2 DEF Skips, ReadsAgain
<1>3. ASSUME NEW x \in ChkNetAT \union {"MAX"}, w_checkNetHdlr(x) PROVE Typed
    <2>1. PICK r \in Replies(x) : modem' = modem \o r
        BY <1>3 DEF w_checkNetHdlr
    <2>2. modem' \in Seq(Bytes)
        BY <2>1, RepliesOf
    <2> QED
        BY <1>3, <2>2 DEF w_checkNetHdlr
<1>4. Unexpected(rest) => Typed
    BY <1>1 DEF Unexpected
<1>5. label \in ChkNetAT /\ "CGREG" \in ChkNetAT /\ "CSQ" \in ChkNetAT
    BY DEF ChkNetAT
<1> HIDE DEF Typed, TypeOK
<1>6. \/ Skips(rest, label) \/ w_checkNetHdlr("CSQ") \/ Skips(rest, "CGREG")
      \/ w_checkNetHdlr("CGREG") \/ Unexpected(rest) \/ w_checkNetHdlr("MAX")
    BY Zenon DEF r_checkNetHdlr
<1>7. Typed
    BY <1>2, <1>3, <1>4, <1>5, <1>6
<1> QED
    BY <1>7 DEF Typed

\* The program starts in a state of the right types.
LEMMA InitType == Init => TypeOK
<1> SUFFICES ASSUME Init PROVE TypeOK
    OBVIOUS
<1>1. modem \in Seq(Bytes)
    BY RepliesOf DEF Init, ChkNetAT
<1>2. tty \in Seq(Bytes) /\ ATBuf \in Seq(Bytes) /\ events \in Seq(Reports \union {"CUT"})
    BY DEF Init
<1>3. Len(events) <= MaxEvents
    BY SerialLineAssumption DEF Init
<1> QED
    BY <1>1, <1>2, <1>3 DEF Init, TypeOK, ChkNetAT

\* Every step leaves them right.
LEMMA NextType == TypeOK /\ [Next]_vars => TypeOK'
<1> SUFFICES ASSUME TypeOK, [Next]_vars PROVE TypeOK'
    OBVIOUS
<1>0. /\ modem \in Seq(Bytes) /\ tty \in Seq(Bytes) /\ ATBuf \in Seq(Bytes)
      /\ events \in Seq(Reports \union {"CUT"}) /\ Len(events) <= MaxEvents /\ MaxEvents \in Nat
    BY SerialLineAssumption DEF TypeOK
<1>1. ASSUME NEW n \in 1..Len(modem), Arrives(n) PROVE tty' \in Seq(Bytes) /\ modem' \in Seq(Bytes)
    <2>1. n \in 0..Len(modem)
        BY <1>0
    <2>2. SubSeq(modem, 1, n) \in Seq(Bytes) /\ SubSeq(modem, n + 1, Len(modem)) \in Seq(Bytes)
        BY <1>0, <2>1, FirstOf, Without
    <2> QED
        BY <1>0, <1>1, <2>2 DEF Arrives
<1>2. ASSUME NEW e \in Reports \union {"CUT"}, Occurs(e)
      PROVE  events' \in Seq(Reports \union {"CUT"}) /\ Len(events') <= MaxEvents
    BY <1>0, <1>2 DEF Occurs
<1>3. CASE Transmit
    BY <1>1, <1>3 DEF Transmit, Arrives, TypeOK
<1>4. CASE TransmitPart
    <2>1. PICK n \in 1..Len(modem) : Occurs("CUT") /\ Arrives(n)
        BY <1>4 DEF TransmitPart
    <2> QED
        BY <1>1, <1>2, <2>1 DEF Arrives, TypeOK
<1>5. CASE Report
    <2>1. PICK r \in Reports : modem' = modem \o Line(r) /\ Occurs(r)
        BY <1>5 DEF Report
    <2>2. modem' \in Seq(Bytes)
        BY <1>0, <2>1, LineOf DEF Texts
    <2> QED
        BY <1>2, <1>5, <2>1, <2>2 DEF Report, TypeOK
<1>6. CASE Select
    BY <1>6 DEF Select, TypeOK
<1>7. CASE read_line
    <2> DEFINE s == skip_line_break(ATBuf)
    <2>1. s \in Seq(Bytes)
        BY <1>0, SkipType
    <2>2. UNCHANGED events
        BY <1>7 DEF read_line
    <2>3. CASE HasEOL(s)
        <3> DEFINE rest == skip_line_break(SubSeq(s, find_NextEOL(s) + 1, Len(s)))
        <3>1. r_checkNetHdlr(SubSeq(s, 1, find_NextEOL(s)), rest) /\ UNCHANGED tty
            BY <1>7, <2>3 DEF read_line
        <3>2. rest \in Seq(Bytes)
            BY <2>1, <2>3, RestType
        <3> HIDE DEF s, rest
        <3> QED
            BY <1>0, <2>2, <3>1, <3>2, HandlerType DEF TypeOK
    <2>4. CASE ~HasEOL(s) /\ tty # <<>>
        <3>1. ATBuf' = s \o tty /\ tty' = <<>> /\ UNCHANGED <<modem, chk_net_state, label, pc>>
            BY <1>7, <2>4 DEF read_line
        <3> HIDE DEF s
        <3>2. ATBuf' \in Seq(Bytes) /\ tty' \in Seq(Bytes)
            BY <1>0, <2>1, <3>1
        <3> QED
            BY <2>2, <3>1, <3>2 DEF TypeOK
    <2>5. CASE ~HasEOL(s) /\ tty = <<>>
        <3>1. Waits /\ UNCHANGED tty
            BY <1>7, <2>5 DEF read_line
        <3> QED
            BY <2>2, <3>1 DEF TypeOK, Waits
    <2> QED
        BY <2>3, <2>4, <2>5
<1>8. CASE UNCHANGED vars
    BY <1>8 DEF vars, TypeOK
<1> QED
    BY <1>3, <1>4, <1>5, <1>6, <1>7, <1>8 DEF Next

\* The variables keep their types, whatever the modem reports and however its lines are cut.
THEOREM TypeCorrect == Spec => []TypeOK
<1>1. Init => TypeOK
    BY InitType
<1>2. TypeOK /\ [Next]_vars => TypeOK'
    BY NextType
<1> QED
    BY <1>1, <1>2, PTL DEF Spec

-----------------------------------------------------------------------------
(* Every answer is taken in the place of its own command.                  *)

\* While every line is whole and every report is known,
\* (1) what is on its way, and what was read, are whole lines, so that no line that the
\*     reader sees is a part of one;
\* (2) the command that waits has its answer still to come, behind at most one OK;
\* (3) what runs is the part of the handler for that command.
IInv ==
    Regular =>
        /\ Lines(ATBuf) /\ Lines(tty) /\ Lines(modem)
        /\ chk_net_state = "IDLE" => Greeting(Coming)
        /\ chk_net_state \in {"CSQ", "CGREG"} => InStep(Coming, chk_net_state)
        /\ pc # "crashed"
        /\ pc = "read_line" => label = chk_net_state /\ chk_net_state # "MAX"

\* Nothing that was not regular becomes regular.
LEMMA RegularKept ==
    ASSUME TypeOK, [Next]_vars, Regular'
    PROVE  Regular /\ \A e : Occurs(e) => e = "STIN"
<1>0. events \in Seq(Reports \union {"CUT"})
    BY DEF TypeOK
<1>1. ASSUME NEW e \in Reports \union {"CUT"}, Occurs(e) PROVE Regular /\ e = "STIN"
    <2>1. events' = Append(events, e)
        BY <1>1 DEF Occurs
    <2>2. /\ Len(events') = Len(events) + 1 /\ events'[Len(events) + 1] = e
          /\ DOMAIN events' = 1..(Len(events) + 1) /\ DOMAIN events = 1..Len(events)
          /\ \A i \in 1..Len(events) : events'[i] = events[i]
          /\ Len(events) \in Nat
        BY <1>0, <2>1
    <2>3. \A i \in 1..(Len(events) + 1) : events'[i] = "STIN"
        BY <2>2 DEF Regular, Range
    <2>4. e = "STIN" /\ \A i \in 1..Len(events) : events[i] = "STIN"
        BY <2>2, <2>3
    <2> QED
        BY <2>2, <2>4 DEF Regular, Range
<1>2. ASSUME UNCHANGED events PROVE Regular
    BY <1>2 DEF Regular
<1>3. \/ UNCHANGED events
      \/ \E e \in Reports \union {"CUT"} : Occurs(e)
    BY Zenon DEF Next, vars, Transmit, TransmitPart, Report, Select, read_line
<1>4. Regular
    BY <1>1, <1>2, <1>3
<1>5. ASSUME NEW e, Occurs(e) PROVE e = "STIN"
    <2>1. PICK f \in Reports \union {"CUT"} : Occurs(f) \/ UNCHANGED events
        BY <1>3 DEF Reports
    <2>2. events' = Append(events, e)
        BY <1>5 DEF Occurs
    <2>3. Len(Append(events, e)) = Len(events) + 1 /\ Append(events, e)[Len(events) + 1] = e
        BY <1>0
    <2>4. events' # events
        BY <1>0, <2>2, <2>3
    <2>5. Occurs(f)
        BY <2>1, <2>4
    <2>6. f = "STIN" /\ events' = Append(events, f)
        BY <1>1, <2>5 DEF Occurs
    <2>7. Append(events, f)[Len(events) + 1] = f
        BY <1>0
    <2> QED
        BY <2>2, <2>3, <2>6, <2>7
<1> QED
    BY <1>4, <1>5

\* What is still to come when a part of the buffer, or all of it, is done with.
LEMMA BufferRead ==
    ASSUME NEW a \in Seq(Bytes), NEW r \in Seq(Bytes), NEW d \in 0..Len(a)
    PROVE  /\ Behind(a \o r, d, SubSeq(a, d + 1, Len(a)) \o r)
           /\ Behind(a \o r, Len(a), r)
           /\ \A j \in Answers(a \o r) : j <= Len(a) => j \in Answers(a) /\ (a \o r)[j] = a[j]
           /\ \A j \in Answers(a) : j \in Answers(a \o r) /\ (a \o r)[j] = a[j]
<1> DEFINE p == a \o r
           b == SubSeq(a, d + 1, Len(a))
<1>1. /\ Len(p) = Len(a) + Len(r) /\ Len(a) \in Nat /\ Len(r) \in Nat
      /\ \A i \in 1..Len(a) : p[i] = a[i]
      /\ \A i \in 1..Len(r) : p[Len(a) + i] = r[i]
    BY Joined
<1>2. b \in Seq(Bytes) /\ Len(b) = Len(a) - d /\ \A i \in 1..(Len(a) - d) : b[i] = a[d + i]
    BY Without
<1>3. /\ Len(b \o r) = Len(b) + Len(r)
      /\ \A i \in 1..Len(b) : (b \o r)[i] = b[i]
      /\ \A i \in 1..(Len(b) + Len(r)) : i \notin 1..Len(b) =>
             i - Len(b) \in 1..Len(r) /\ (b \o r)[i] = r[i - Len(b)]
    BY <1>2, Joined
<1>4. \A j : j \in Answers(p) <=> j \in Answers(a) \/ (j \in Int /\ j - Len(a) \in Answers(r))
    BY AnswersJoined
<1>5. \A j \in Answers(a) : j \in 1..Len(a) /\ p[j] = a[j]
    BY AnswersJoined
<1> HIDE DEF p, b
<1>6. Behind(p, d, b \o r)
    <2>1. d \in 0..Len(p) /\ Len(b \o r) = Len(p) - d
        BY <1>1, <1>2, <1>3
    <2>2. ASSUME NEW i \in 1..Len(b \o r) PROVE (b \o r)[i] = p[d + i]
        <3>1. CASE i \in 1..Len(b)
            <4>1. d + i \in 1..Len(a)
                BY <1>1, <1>2, <3>1
            <4> QED
                BY <1>1, <1>2, <1>3, <3>1, <4>1
        <3>2. CASE i \notin 1..Len(b)
            <4> DEFINE j == i - Len(b)
            <4>1. j \in 1..Len(r) /\ (b \o r)[i] = r[j] /\ Len(a) + j = d + i
                BY <1>1, <1>2, <1>3, <3>2
            <4> HIDE DEF j
            <4>2. p[Len(a) + j] = r[j]
                BY <1>1, <4>1
            <4> QED
                BY <4>1, <4>2
        <3> QED
            BY <3>1, <3>2
    <2> QED
        BY <1>1, <2>1, <2>2 DEF Behind
<1>7. Behind(p, Len(a), r)
    BY <1>1 DEF Behind
<1>8. ASSUME NEW j \in Answers(p), j <= Len(a) PROVE j \in Answers(a)
    <2>1. j \in Answers(a) \/ (j \in Int /\ j - Len(a) \in 1..Len(r))
        BY <1>4 DEF Answers
    <2> QED
        BY <1>1, <1>8, <2>1
<1> QED
    BY <1>4, <1>5, <1>6, <1>7, <1>8 DEF p, b

\* How three sequences are joined makes no difference.
LEMMA Regrouped ==
    ASSUME NEW s \in Seq(Bytes), NEW t \in Seq(Bytes), NEW r \in Seq(Bytes)
    PROVE  (s \o t) \o r = s \o (t \o r)
BY ConcatAssociative

\* What is still to come, in the order in which it is read.
LEMMA ComingOf ==
    ASSUME TypeOK
    PROVE  /\ Coming = ATBuf \o (tty \o modem) /\ tty \o modem \in Seq(Bytes)
           /\ Coming \in Seq(Bytes)
<1>1. tty \in Seq(Bytes) /\ modem \in Seq(Bytes) /\ ATBuf \in Seq(Bytes)
    BY DEF TypeOK
<1>2. tty \o modem \in Seq(Bytes)
    BY <1>1, Joined
<1> QED
    BY <1>1, <1>2, Joined, ConcatAssociative DEF Coming

\* The first state.
LEMMA InitIInv == Init => IInv
<1> SUFFICES ASSUME Init PROVE IInv
    OBVIOUS
<1>1. Greeting(modem) /\ modem \in Seq(Bytes) /\ Lines(modem)
    BY Greetings DEF Init
<1>2. Lines(<<>>) /\ <<>> \in Seq(Bytes)
    <2>1. Len(<<>>) = 0
        OBVIOUS
    <2> QED
        BY <2>1 DEF Lines, Whole, Known
<1>3. Coming = modem
    BY <1>1, <1>2, ConcatEmptySeq DEF Coming, Init
<1> QED
    BY <1>1, <1>2, <1>3 DEF Init, IInv

\* What the modem does, and select().
LEMMA ModemIInv ==
    ASSUME TypeOK, TypeOK', IInv, Regular, Regular', Transmit \/ Report \/ Select \/ TransmitPart
    PROVE  IInv'
<1>0. /\ modem \in Seq(Bytes) /\ tty \in Seq(Bytes) /\ ATBuf \in Seq(Bytes)
      /\ Lines(ATBuf) /\ Lines(tty) /\ Lines(modem)
      /\ chk_net_state = "IDLE" => Greeting(Coming)
      /\ chk_net_state \in {"CSQ", "CGREG"} => InStep(Coming, chk_net_state)
      /\ pc # "crashed"
      /\ pc = "read_line" => label = chk_net_state /\ chk_net_state # "MAX"
    BY DEF TypeOK, IInv
<1>1. \A e : Occurs(e) => e = "STIN"
    <2>1. [Next]_vars
        BY DEF Next
    <2> QED
        BY <2>1, RegularKept
<1>2. CASE Transmit
    <2>1. PICK n \in 1..Len(modem) : modem[n] = EOL /\ Arrives(n)
        BY <1>2 DEF Transmit
    <2> DEFINE a == SubSeq(modem, 1, n)
               b == SubSeq(modem, n + 1, Len(modem))
    <2>2. n \in 0..Len(modem) /\ tty' = tty \o a /\ modem' = b
          /\ UNCHANGED <<ATBuf, chk_net_state, label, pc>>
        BY <1>0, <2>1 DEF Arrives
    <2>3. a \in Seq(Bytes) /\ b \in Seq(Bytes) /\ Lines(a) /\ Lines(b)
        BY <1>0, <2>1, <2>2, FirstOf, Without, LinesCut
    <2>4. modem = a \o b
        <3>1. /\ Len(a) = n /\ \A i \in 1..n : a[i] = modem[i]
              /\ Len(b) = Len(modem) - n /\ \A i \in 1..(Len(modem) - n) : b[i] = modem[n + i]
            BY <1>0, <2>2, FirstOf, Without
        <3> HIDE DEF a, b
        <3>2. /\ a \o b \in Seq(Bytes) /\ Len(a \o b) = Len(modem) /\ Len(modem) \in Nat
              /\ \A i \in 1..n : (a \o b)[i] = a[i]
              /\ \A i \in 1..Len(modem) : i \notin 1..n =>
                     i - n \in 1..(Len(modem) - n) /\ (a \o b)[i] = b[i - n]
            <4>1. Len(a) + Len(b) = Len(modem) /\ Len(modem) \in Nat
                BY <1>0, <2>2, <3>1
            <4>2. /\ a \o b \in Seq(Bytes) /\ Len(a \o b) = Len(a) + Len(b)
                  /\ \A i \in 1..Len(a) : (a \o b)[i] = a[i]
                  /\ \A i \in 1..(Len(a) + Len(b)) : i \notin 1..Len(a) =>
                         i - Len(a) \in 1..Len(b) /\ (a \o b)[i] = b[i - Len(a)]
                BY <2>3, Joined
            <4> QED
                BY <3>1, <4>1, <4>2
        <3>3. \A i \in 1..Len(modem) : modem[i] = (a \o b)[i]
            <4> TAKE i \in 1..Len(modem)
            <4>1. i \notin 1..n => n + (i - n) = i
                BY <2>2, <3>2
            <4> QED
                BY <3>1, <3>2, <4>1
        <3> QED
            BY <1>0, <3>2, <3>3, SeqEqual
    <2> HIDE DEF a, b
    <2>5. Coming' = Coming
        <3>1. Coming' = (ATBuf \o (tty \o a)) \o b
            BY <2>2 DEF Coming
        <3>2. ATBuf \o tty \in Seq(Bytes) /\ tty \o a \in Seq(Bytes)
            BY <1>0, <2>3, Joined
        <3>3. ATBuf \o (tty \o a) = (ATBuf \o tty) \o a
            BY <1>0, <2>3, Regrouped
        <3>4. ((ATBuf \o tty) \o a) \o b = (ATBuf \o tty) \o (a \o b)
            BY <2>3, <3>2, Regrouped
        <3> QED
            BY <2>4, <3>1, <3>3, <3>4 DEF Coming
    <2>6. Lines(tty') /\ Lines(modem') /\ Lines(ATBuf')
        BY <1>0, <2>2, <2>3, LinesJoined
    <2> QED
        BY <1>0, <2>2, <2>5, <2>6 DEF IInv
<1>3. CASE TransmitPart
    <2>1. Occurs("CUT")
        BY <1>3 DEF TransmitPart
    <2> QED
        BY <1>1, <2>1
<1>4. CASE Report
    <2>1. modem' = modem \o Line("STIN") /\ UNCHANGED <<tty, ATBuf, chk_net_state, label, pc>>
        BY <1>1, <1>4 DEF Report
    <2>2. Line("STIN") \in Seq(Bytes) /\ Lines(Line("STIN"))
        BY LineOf, LineWhole DEF Texts, Reports
    <2>3. Lines(modem')
        BY <1>0, <2>1, <2>2, LinesJoined
    <2>4. Coming' = Coming \o Line("STIN")
        <3>1. ATBuf \o tty \in Seq(Bytes)
            BY <1>0, Joined
        <3> QED
            BY SMTT(30), <1>0, <2>1, <2>2, <3>1, ConcatAssociative DEF Coming
    <2>5. Coming \in Seq(Bytes)
        BY ComingOf
    <2> QED
        BY <1>0, <2>1, <2>3, <2>4, <2>5, ReportNoAnswer DEF IInv
<1>5. CASE Select
    <2>1. /\ pc' = "read_line" /\ label' = chk_net_state /\ chk_net_state # "MAX"
          /\ UNCHANGED <<modem, tty, ATBuf, chk_net_state>>
        BY <1>5 DEF Select
    <2>2. Coming' = Coming
        BY <2>1 DEF Coming
    <2> QED
        BY <1>0, <2>1, <2>2 DEF IInv
<1> QED
    BY <1>2, <1>3, <1>4, <1>5

\* parse_line() tells the answers, OK and the report that is skipped apart.
LEMMA ParseOf ==
    ASSUME NEW t \in ChkNetAT \union {"OK", "STIN"}
    PROVE  /\ t = "STIN" => parse_line(Text(t)) = 2
           /\ t = "OK" => parse_line(Text(t)) = 4
           /\ t \in ChkNetAT => parse_line(Text(t)) = 1
           /\ \A u \in Texts : Text(t) = Text(u) => t = u
<1>0. Parts \in Nat \ {0} /\ 1 \in 1..Parts
    BY SerialLineAssumption
<1>1. ASSUME NEW u \in Texts, Text(t) = Text(u) PROVE t = u
    <2>1. Text(t)[1] = [text |-> t, at |-> 1] /\ Text(u)[1] = [text |-> u, at |-> 1]
        BY <1>0 DEF Text
    <2>2. [text |-> t, at |-> 1].text = [text |-> u, at |-> 1].text
        BY <1>1, <2>1
    <2> QED
        BY <2>2
<1>2. "STIN" \in Texts /\ "NETWORK_CLOSED" \in Texts /\ "OK" \in Texts
    BY DEF Texts, Reports
<1>3. t = "OK" => Text(t) # Text("STIN") /\ Text(t) # Text("NETWORK_CLOSED")
    BY <1>1, <1>2
<1>4. t \in ChkNetAT =>
          Text(t) # Text("STIN") /\ Text(t) # Text("NETWORK_CLOSED") /\ Text(t) # Text("OK")
    BY <1>1, <1>2 DEF ChkNetAT
<1> QED
    BY <1>1, <1>3, <1>4, Zenon DEF parse_line

\* A line that is read is the answer of the command that waits, an OK of an answer before
\* it, or a report that is skipped.
LEMMA LineIInv ==
    ASSUME TypeOK, TypeOK', IInv, Regular, read_line, HasEOL(skip_line_break(ATBuf))
    PROVE  IInv'
<1>0. /\ modem \in Seq(Bytes) /\ tty \in Seq(Bytes) /\ ATBuf \in Seq(Bytes)
      /\ Lines(ATBuf) /\ Lines(tty) /\ Lines(modem)
      /\ chk_net_state = "IDLE" => Greeting(Coming)
      /\ chk_net_state \in {"CSQ", "CGREG"} => InStep(Coming, chk_net_state)
      /\ pc = "read_line" /\ label = chk_net_state /\ label \in {"IDLE", "CSQ", "CGREG"}
    BY DEF TypeOK, IInv, read_line, ChkNetAT
<1> DEFINE u == skip_line_break(ATBuf)
           rest == skip_line_break(SubSeq(u, find_NextEOL(u) + 1, Len(u)))
           line == SubSeq(u, 1, find_NextEOL(u))
           port == tty \o modem
<1>1. r_checkNetHdlr(line, rest) /\ UNCHANGED tty
    BY DEF read_line
<1>2. u # <<>>
    <2> SUFFICES ASSUME u = <<>> PROVE FALSE
        OBVIOUS
    <2>1. ~HasEOL(<<>>)
        BY DEF HasEOL
    <2> QED
        BY <2>1
<1>3. PICK m \in 0..Len(ATBuf), t \in ChkNetAT \union {"OK", "STIN"}, q \in Nat :
          /\ line = Text(t)
          /\ rest = SubSeq(ATBuf, m + 1, Len(ATBuf)) /\ Lines(rest)
          /\ q \in 1..m /\ ATBuf[q].at = 1 /\ ATBuf[q].text = t
          /\ \A j \in 1..m : ATBuf[j].at = 1 => j = q
    BY SMTT(30), <1>0, <1>2, NextLine
<1> HIDE DEF u, rest, line
<1>4. rest \in Seq(Bytes)
    BY <1>0, <1>3, Without
<1>5. /\ Coming = ATBuf \o port /\ port \in Seq(Bytes) /\ Coming \in Seq(Bytes)
    BY ComingOf
<1>6. Len(ATBuf) \in Nat /\ m \in Nat /\ m <= Len(ATBuf) /\ q <= m /\ q \in 1..Len(ATBuf)
    BY <1>0, <1>3
<1>7. /\ Behind(Coming, m, rest \o port)
      /\ Behind(Coming, Len(ATBuf), port)
      /\ \A j \in Answers(Coming) : j <= Len(ATBuf) => j \in Answers(ATBuf) /\ Coming[j] = ATBuf[j]
      /\ \A j \in Answers(ATBuf) : j \in Answers(Coming) /\ Coming[j] = ATBuf[j]
    <2>1. m \in 0..Len(ATBuf) /\ rest = SubSeq(ATBuf, m + 1, Len(ATBuf)) /\ Coming = ATBuf \o port
        BY <1>3, <1>5
    <2>2. ATBuf \in Seq(Bytes) /\ port \in Seq(Bytes)
        BY <1>0, <1>5
    <2>3. /\ Behind(ATBuf \o port, m, SubSeq(ATBuf, m + 1, Len(ATBuf)) \o port)
          /\ Behind(ATBuf \o port, Len(ATBuf), port)
          /\ \A j \in Answers(ATBuf \o port) :
                j <= Len(ATBuf) => j \in Answers(ATBuf) /\ (ATBuf \o port)[j] = ATBuf[j]
          /\ \A j \in Answers(ATBuf) : j \in Answers(ATBuf \o port) /\ (ATBuf \o port)[j] = ATBuf[j]
        BY <2>1, <2>2, BufferRead, Zenon
    <2> QED
        BY <2>1, <2>3, Zenon
<1> HIDE DEF port
<1>8. \A j \in Answers(Coming) : j <= m => j = q /\ t # "STIN"
    <2> TAKE j \in Answers(Coming)
    <2> SUFFICES ASSUME j <= m PROVE j = q /\ t # "STIN"
        OBVIOUS
    <2>1. j \in Answers(ATBuf)
        <3>1. j \in Nat
            BY DEF Answers
        <3> QED
            BY <1>6, <1>7, <3>1
    <2>2. j \in 1..m /\ ATBuf[j].at = 1 /\ ATBuf[j].text \in ChkNetAT \union {"OK"}
        BY <1>6, <2>1 DEF Answers
    <2> QED
        BY <1>3, <2>2 DEF ChkNetAT
<1>9. t # "STIN" => q \in Answers(Coming) /\ Coming[q].text = t
    <2> SUFFICES ASSUME t # "STIN" PROVE q \in Answers(ATBuf)
        BY <1>3, <1>7
    <2> QED
        BY <1>3, <1>6 DEF Answers
<1>10. ASSUME Waits \/ Skips(rest, label), t \in {"STIN", "OK"}, t = "OK" => label # "IDLE",
              ATBuf' = rest
       PROVE  IInv'
    <2>1. /\ UNCHANGED <<modem, tty, chk_net_state>>
          /\ pc' = "select" \/ (pc' = "read_line" /\ label' = label)
        BY <1>0, <1>1, <1>10 DEF Waits, Skips, ReadsAgain
    <2>2. Coming' = rest \o port
        <3>1. Coming' = (rest \o tty) \o modem
            BY <1>10, <2>1 DEF Coming
        <3> QED
            BY <1>0, <1>4, <3>1, Regrouped DEF port
    <2>3. chk_net_state = "IDLE" => Greeting(Coming')
        <3> SUFFICES ASSUME chk_net_state = "IDLE" PROVE Greeting(Coming')
            OBVIOUS
        <3>1. \A j \in Answers(Coming) : j > m
            <4>1. \A j \in Answers(Coming) : j \in Nat
                BY DEF Answers
            <4> QED
                BY <1>0, <1>6, <1>8, <1>10, <4>1
        <3> QED
            BY <1>0, <1>7, <2>2, <3>1, GreetingBehind
    <2>4. ASSUME chk_net_state \in {"CSQ", "CGREG"} PROVE InStep(Coming', chk_net_state)
        <3>1. \A j \in Answers(Coming) : j <= m => Coming[j].text = "OK"
            BY <1>8, <1>9, <1>10
        <3> QED
            BY <1>0, <1>7, <2>2, <2>4, <3>1, InStepBehind
    <2> QED
        BY <1>0, <1>3, <1>10, <2>1, <2>3, <2>4 DEF IInv
<1>11. ASSUME Skips(rest, label) PROVE ATBuf' = rest
    BY <1>11 DEF Skips, Waits, ReadsAgain
<1>12. ASSUME NEW x \in {"CSQ", "CGREG"}, w_checkNetHdlr(x), AtMostOK(port) PROVE IInv'
    <2>1. /\ chk_net_state' = x /\ ATBuf' = <<>> /\ pc' = "select" /\ UNCHANGED tty
          /\ modem' = modem \o (Line(x) \o Line("OK"))
        BY <1>1, <1>12 DEF w_checkNetHdlr, Replies, ChkNetAT
    <2> DEFINE r == Line(x) \o Line("OK")
    <2>2. r \in Seq(Bytes) /\ Lines(r)
        BY ReplyOf DEF ChkNetAT
    <2>3. InStep(port \o r, x)
        BY <1>5, <1>12, ReplyAwaited
    <2> HIDE DEF r
    <2>4. Coming' = port \o r
        <3>1. <<>> \o tty = tty
            BY <1>0, ConcatEmptySeq
        <3>2. Coming' = tty \o (modem \o r)
            BY <2>1, <3>1 DEF Coming, r
        <3> QED
            BY <1>0, <2>2, <3>2, Regrouped DEF port
    <2>5. Lines(modem') /\ Lines(<<>>)
        <3>1. Lines(modem \o r)
            BY <1>0, <2>2, LinesJoined
        <3>2. Len(<<>>) = 0
            OBVIOUS
        <3>3. Lines(<<>>)
            BY <3>2 DEF Lines, Whole, Known
        <3> QED
            BY <2>1, <3>1, <3>3 DEF r
    <2> QED
        BY <1>0, <2>1, <2>3, <2>4, <2>5 DEF IInv
<1>13. ASSUME w_checkNetHdlr("MAX") PROVE IInv'
    <2>1. PICK r \in Replies("MAX") : modem' = modem \o r
        BY <1>13 DEF w_checkNetHdlr
    <2>2. chk_net_state' = "MAX" /\ ATBuf' = <<>> /\ pc' = "select" /\ UNCHANGED tty
        BY <1>1, <1>13 DEF w_checkNetHdlr
    <2>3. r \in Seq(Bytes) /\ Lines(r)
        BY <2>1, RepliesOf
    <2>4. Lines(modem')
        BY <1>0, <2>1, <2>3, LinesJoined
    <2>5. Len(<<>>) = 0
        OBVIOUS
    <2>6. Lines(<<>>)
        BY <2>5 DEF Lines, Whole, Known
    <2> QED
        BY <1>0, <2>2, <2>4, <2>6 DEF IInv
<1>14. CASE t = "STIN"
    <2>1. parse_line(line) = 2
        BY <1>3, <1>14, ParseOf
    <2>2. Skips(rest, label)
        BY <1>1, <2>1 DEF r_checkNetHdlr
    <2> QED
        BY <1>10, <1>11, <1>14, <2>2
<1>15. CASE t # "STIN" /\ label = "IDLE"
    <2>1. parse_line(line) # 2
        BY <1>3, <1>15, ParseOf
    <2>2. w_checkNetHdlr("CSQ")
        BY <1>1, <1>15, <2>1 DEF r_checkNetHdlr
    <2>3. q <= Len(ATBuf)
        BY <1>6
    <2>4. AtMostOK(port)
        BY <1>0, <1>7, <1>9, <1>15, <2>3, GreetingRead
    <2> QED
        BY <1>12, <2>2, <2>4
<1>16. CASE t = "OK" /\ label # "IDLE"
    <2>1. parse_line(line) = 4
        BY <1>3, <1>16, ParseOf
    <2>2. Skips(rest, label)
        BY <1>1, <1>16, <2>1 DEF r_checkNetHdlr
    <2> QED
        BY <1>10, <1>11, <1>16, <2>2
<1>17. CASE t \in ChkNetAT /\ label \in {"CSQ", "CGREG"}
    <2>1. t # "STIN" /\ t # "OK"
        BY <1>17 DEF ChkNetAT
    <2>2. q <= Len(ATBuf)
        BY <1>6
    <2>3. t = label /\ AtMostOK(port)
        BY <1>0, <1>7, <1>9, <1>17, <2>1, <2>2, AnswerRead
    <2>4. parse_line(line) = 1 /\ line = Text(label)
        BY <1>3, <1>17, <2>3, ParseOf
    <2>5. CASE label = "CSQ"
        <3>1. w_checkNetHdlr("CGREG")
            BY <1>1, <2>4, <2>5 DEF r_checkNetHdlr
        <3> QED
            BY <1>12, <2>3, <3>1
    <2>6. CASE label = "CGREG"
        <3>1. w_checkNetHdlr("MAX")
            BY <1>1, <2>4, <2>6 DEF r_checkNetHdlr
        <3> QED
            BY <1>13, <3>1
    <2> QED
        BY <1>17, <2>5, <2>6
<1> QED
    BY <1>0, <1>14, <1>15, <1>16, <1>17

\* A buffer without a line has nothing that is lost when more is read, or nothing comes.
LEMMA NoLineIInv ==
    ASSUME TypeOK, TypeOK', IInv, Regular, read_line, ~HasEOL(skip_line_break(ATBuf))
    PROVE  IInv'
<1>0. /\ modem \in Seq(Bytes) /\ tty \in Seq(Bytes) /\ ATBuf \in Seq(Bytes)
      /\ Lines(ATBuf) /\ Lines(tty) /\ Lines(modem)
      /\ chk_net_state = "IDLE" => Greeting(Coming)
      /\ chk_net_state \in {"CSQ", "CGREG"} => InStep(Coming, chk_net_state)
      /\ pc = "read_line" /\ label = chk_net_state /\ label # "MAX"
    BY DEF TypeOK, IInv, read_line
<1> DEFINE u == skip_line_break(ATBuf)
           port == tty \o modem
<1>1. u = <<>>
    BY <1>0, NextLine, Zenon
<1>2. Len(ATBuf) \in Nat /\ \A i \in 1..Len(ATBuf) : ATBuf[i] = EOL
    <2>1. PICK n \in 0..Len(ATBuf) : /\ u = SubSeq(ATBuf, n + 1, Len(ATBuf))
                                     /\ \A i \in 1..n : ATBuf[i] = EOL
        BY <1>0, SkipOf
    <2>2. Len(u) = Len(ATBuf) - n /\ Len(ATBuf) \in Nat
        BY <1>0, <2>1, Without
    <2>3. Len(u) = 0
        BY <1>1
    <2>4. n = Len(ATBuf)
        BY <2>2, <2>3
    <2> QED
        BY <2>1, <2>2, <2>4
<1>3. /\ Coming = ATBuf \o port /\ port \in Seq(Bytes) /\ Coming \in Seq(Bytes)
    BY ComingOf
<1>4. /\ Behind(Coming, Len(ATBuf), port)
      /\ \A j \in Answers(Coming) : j <= Len(ATBuf) => j \in Answers(ATBuf)
    <2>1. 0 \in 0..Len(ATBuf)
        BY <1>2
    <2> QED
        BY <1>0, <1>3, <2>1, BufferRead
<1>5. \A j \in Answers(Coming) : j > Len(ATBuf)
    <2>1. Answers(ATBuf) = {}
        BY <1>2, BytesOf DEF Answers
    <2>2. \A j \in Answers(Coming) : j \in Nat
        BY DEF Answers
    <2> QED
        BY <1>2, <1>4, <2>1, <2>2
<1>6. /\ chk_net_state = "IDLE" => Greeting(port)
      /\ chk_net_state \in {"CSQ", "CGREG"} => InStep(port, chk_net_state)
    <2>1. \A j \in Answers(Coming) : ~(j <= Len(ATBuf))
        <3>1. \A j \in Answers(Coming) : j \in Nat
            BY DEF Answers
        <3> QED
            BY <1>2, <1>5, <3>1
    <2> HIDE DEF port
    <2> QED
        BY <1>0, <1>4, <1>5, <2>1, GreetingBehind, InStepBehind
<1>7. Lines(<<>>)
    <2>1. Len(<<>>) = 0
        OBVIOUS
    <2> QED
        BY <2>1 DEF Lines, Whole, Known
<1>8. CASE tty # <<>>
    <2>1. ATBuf' = <<>> \o tty /\ tty' = <<>> /\ UNCHANGED <<modem, chk_net_state, label, pc>>
        BY <1>1, <1>8 DEF read_line
    <2>2. ATBuf' = tty
        BY <1>0, <2>1, ConcatEmptySeq
    <2>3. Coming' = port
        <3>1. Coming' = (tty \o <<>>) \o modem
            BY <2>1, <2>2 DEF Coming
        <3> QED
            BY <1>0, <3>1, ConcatEmptySeq
    <2> QED
        BY <1>0, <1>6, <1>7, <2>1, <2>2, <2>3 DEF IInv
<1>9. CASE tty = <<>>
    <2>1. ATBuf' = <<>> /\ pc' = "select" /\ UNCHANGED <<modem, chk_net_state, label, tty>>
        BY <1>9 DEF read_line, Waits
    <2>2. Coming' = port
        <3>1. Coming' = (<<>> \o tty) \o modem
            BY <2>1 DEF Coming
        <3> QED
            BY <1>0, <3>1, ConcatEmptySeq
    <2> QED
        BY <1>0, <1>6, <1>7, <2>1, <2>2 DEF IInv
<1> QED
    BY <1>8, <1>9

\* Every step leaves the invariant.
LEMMA NextIInv == TypeOK /\ IInv /\ [Next]_vars => IInv'
<1> SUFFICES ASSUME TypeOK, IInv, [Next]_vars PROVE IInv'
    OBVIOUS
<1>1. TypeOK'
    BY NextType
<1>2. CASE ~Regular'
    BY <1>2 DEF IInv
<1>3. CASE Regular'
    <2>1. Regular
        BY <1>3, RegularKept
    <2>2. CASE Transmit \/ Report \/ Select \/ TransmitPart
        BY <1>1, <1>3, <2>1, <2>2, ModemIInv
    <2>3. CASE read_line
        BY <1>1, <2>1, <2>3, LineIInv, NoLineIInv
    <2>4. CASE UNCHANGED vars
        BY <2>4 DEF IInv, Regular, Coming, vars
    <2> QED
        BY <2>2, <2>3, <2>4 DEF Next
<1> QED
    BY <1>2, <1>3

\* While no line is cut and every report is one that reader() skips, the answer of the
\* command that waits is still to come, behind at most one OK: no handler waits for an
\* answer that was thrown away, or takes that of another command.
THEOREM AnswersTakenInStep == Spec => []AnswersInStep
<1>1. Init => TypeOK /\ IInv
    BY InitType, InitIInv
<1>2. TypeOK /\ IInv /\ [Next]_vars => (TypeOK /\ IInv)'
    BY NextType, NextIInv
<1>3. IInv => AnswersInStep
    BY DEF IInv, AnswersInStep
<1> QED
    BY <1>1, <1>2, <1>3, PTL DEF Spec

\* Then get_OK() never sets ATBufCur to NULL.
THEOREM NoNullRead == Spec => [](Regular => pc # "crashed")
<1>1. Init => TypeOK /\ IInv
    BY InitType, InitIInv
<1>2. TypeOK /\ IInv /\ [Next]_vars => (TypeOK /\ IInv)'
    BY NextType, NextIInv
<1>3. IInv => (Regular => pc # "crashed")
    BY DEF IInv
<1> QED
    BY <1>1, <1>2, <1>3, PTL DEF Spec
====
