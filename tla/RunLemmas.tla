------------------------------ MODULE RunLemmas ------------------------------
(***************************************************************************)
(* What concatenation and SubSeq do to runs of consecutive positions.      *)
(***************************************************************************)
EXTENDS Runs, SequenceTheorems, TLAPS

\* A run of n positions has length n and holds integers.
LEMMA RunType ==
  ASSUME NEW a \in Int, NEW n \in Nat
  PROVE  /\ Run(a, n) \in Seq(Int)
         /\ Len(Run(a, n)) = n
         /\ \A i \in 1..n : Run(a, n)[i] = a + i - 1
  BY DEF Run

\* The empty sequence is the run of no positions.
LEMMA RunEmpty ==
  ASSUME NEW a \in Int
  PROVE  Run(a, 0) = << >>
  BY DEF Run

\* A sequence that holds the positions of a run is that run.
LEMMA IsRun ==
  ASSUME NEW a \in Int, NEW n \in Nat, NEW s \in Seq(Int),
         Len(s) = n, \A i \in 1..n : s[i] = a + i - 1
  PROVE  s = Run(a, n)
<1>1. /\ Run(a, n) \in Seq(Int) /\ Len(Run(a, n)) = n
      /\ \A i \in 1..n : Run(a, n)[i] = a + i - 1
  BY RunType
<1>2. \A i \in 1..Len(s) : s[i] = Run(a, n)[i]
  BY <1>1
<1>3. Len(s) = Len(Run(a, n))
  BY <1>1
<1> QED BY <1>1, <1>2, <1>3, SeqEqual

\* Two runs that meet concatenate to one run.
LEMMA RunConcat ==
  ASSUME NEW a \in Int, NEW m \in Nat, NEW n \in Nat
  PROVE  Run(a, m) \o Run(a + m, n) = Run(a, m + n)
<1>1. ASSUME NEW s \in Seq(Int), NEW t \in Seq(Int), NEW c \in Seq(Int),
             Len(s) = m, \A i \in 1..m : s[i] = a + i - 1,
             Len(t) = n, \A i \in 1..n : t[i] = (a + m) + i - 1,
             Len(c) = Len(s) + Len(t),
             \A i \in 1..Len(s) + Len(t) :
                c[i] = IF i <= Len(s) THEN s[i] ELSE t[i - Len(s)]
      PROVE  c = Run(a, m + n)
  <2>1. ASSUME NEW i \in 1..m + n PROVE c[i] = a + i - 1
    <3>1. CASE i <= m
      BY <1>1, <3>1
    <3>2. CASE ~(i <= m)
      <4>1. i - m \in 1..n
        BY <3>2
      <4>2. t[i - m] = (a + m) + (i - m) - 1
        BY <1>1, <4>1
      <4> QED BY <1>1, <3>2, <4>2
    <3> QED BY <3>1, <3>2
  <2>2. Len(c) = m + n /\ m + n \in Nat
    BY <1>1
  <2> QED BY <2>1, <2>2, IsRun
<1>2. /\ Run(a, m) \in Seq(Int) /\ Len(Run(a, m)) = m
      /\ \A i \in 1..m : Run(a, m)[i] = a + i - 1
  BY RunType
<1>3. a + m \in Int
  OBVIOUS
<1>4. /\ Run(a + m, n) \in Seq(Int) /\ Len(Run(a + m, n)) = n
      /\ \A i \in 1..n : Run(a + m, n)[i] = (a + m) + i - 1
  BY <1>3, RunType, Zenon
<1>5. /\ Run(a, m) \o Run(a + m, n) \in Seq(Int)
      /\ Len(Run(a, m) \o Run(a + m, n)) = Len(Run(a, m)) + Len(Run(a + m, n))
      /\ \A i \in 1..Len(Run(a, m)) + Len(Run(a + m, n)) :
            (Run(a, m) \o Run(a + m, n))[i]
               = IF i <= Len(Run(a, m)) THEN Run(a, m)[i]
                                        ELSE Run(a + m, n)[i - Len(Run(a, m))]
  BY <1>2, <1>4, ConcatProperties, Zenon
<1> QED BY <1>1, <1>2, <1>4, <1>5, Zenon

\* A piece of a run is a run.
LEMMA RunSub ==
  ASSUME NEW a \in Int, NEW m \in Nat,
         NEW lo \in Int, NEW hi \in Int,
         1 <= lo, hi <= m, lo <= hi + 1
  PROVE  SubSeq(Run(a, m), lo, hi) = Run(a + lo - 1, hi - lo + 1)
<1>1. /\ Run(a, m) \in Seq(Int) /\ Len(Run(a, m)) = m
      /\ \A i \in 1..m : Run(a, m)[i] = a + i - 1
  BY RunType
<1>2. \A i \in lo..hi : Run(a, m)[i] \in Int
  BY <1>1
<1>3. /\ SubSeq(Run(a, m), lo, hi) \in Seq(Int)
      /\ Len(SubSeq(Run(a, m), lo, hi)) = IF lo <= hi THEN hi - lo + 1 ELSE 0
      /\ \A i \in 1..hi - lo + 1 :
            SubSeq(Run(a, m), lo, hi)[i] = Run(a, m)[lo + i - 1]
  BY <1>2, SubSeqProperties
<1>4. \A i \in 1..hi - lo + 1 :
         SubSeq(Run(a, m), lo, hi)[i] = (a + lo - 1) + i - 1
  BY <1>1, <1>3
<1>5. a + lo - 1 \in Int /\ hi - lo + 1 \in Nat
  OBVIOUS
<1>6. Len(SubSeq(Run(a, m), lo, hi)) = hi - lo + 1
  BY <1>3
<1> QED BY <1>3, <1>4, <1>5, <1>6, IsRun

\* What is left of a run without its first n positions.
LEMMA RunDropped ==
  ASSUME NEW a \in Int, NEW m \in Nat, NEW n \in 0..m
  PROVE  Dropped(Run(a, m), n) = Run(a + n, m - n)
<1>1. Len(Run(a, m)) = m
  BY RunType
<1>2. PICK lo \in Int : lo = n + 1
  OBVIOUS
<1>3. m \in Int /\ 1 <= lo /\ m <= m /\ lo <= m + 1
  BY <1>2
<1>4. SubSeq(Run(a, m), lo, m) = Run(a + lo - 1, m - lo + 1)
  BY <1>3, RunSub, ZenonT(60)
<1>5. a + lo - 1 = a + n /\ m - lo + 1 = m - n
  BY <1>2
<1> QED BY <1>1, <1>2, <1>4, <1>5 DEF Dropped

\* The first n positions of a run.
LEMMA RunTake ==
  ASSUME NEW a \in Int, NEW m \in Nat, NEW n \in 0..m
  PROVE  SubSeq(Run(a, m), 1, n) = Run(a, n)
<1>1. PICK lo \in Int : lo = 1
  OBVIOUS
<1>2. n \in Int /\ 1 <= lo /\ n <= m /\ lo <= n + 1
  BY <1>1
<1>3. SubSeq(Run(a, m), lo, n) = Run(a + lo - 1, n - lo + 1)
  BY <1>2, RunSub, ZenonT(60)
<1>4. a + lo - 1 = a /\ n - lo + 1 = n
  BY <1>1
<1> QED BY <1>1, <1>3, <1>4

\* The first position of a run.
LEMMA RunHead ==
  ASSUME NEW a \in Int, NEW m \in Nat, m > 0
  PROVE  Head(Run(a, m)) = a
<1>1. Len(Run(a, m)) = m /\ \A i \in 1..m : Run(a, m)[i] = a + i - 1
  BY RunType
<1>2. Run(a, m)[1] = a
  BY <1>1
<1> QED BY <1>2

\* The part of a run between two positions.
LEMMA RunPiece ==
  ASSUME NEW a \in Int, NEW m \in Nat, NEW from \in Int, NEW to \in Int,
         a <= from, from <= to, to <= a + m
  PROVE  SubSeq(Run(a, m), from - a + 1, to - a) = Run(from, to - from)
<1>1. PICK lo \in Int : lo = from - a + 1
  OBVIOUS
<1>2. PICK hi \in Int : hi = to - a
  OBVIOUS
<1>3. 1 <= lo /\ hi <= m /\ lo <= hi + 1
  BY <1>1, <1>2
<1>4. SubSeq(Run(a, m), lo, hi) = Run(a + lo - 1, hi - lo + 1)
  BY <1>3, RunSub, ZenonT(60)
<1>5. a + lo - 1 = from /\ hi - lo + 1 = to - from
  BY <1>1, <1>2
<1> QED BY <1>1, <1>2, <1>4, <1>5
=============================================================================
