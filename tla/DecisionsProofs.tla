--------------------------- MODULE DecisionsProofs --------------------------
(***************************************************************************)
(* Proofs about the decisions of the bot that are a matter of one          *)
(* computation: the settings it starts with (Startup), whether a comment   *)
(* mentions it (Mention, CommentText, JsonText) and its author may ask     *)
(* (CollabCache), what of a pull request is shown (ReviewInput) and how    *)
(* that is written down for the reviewer (Payload).  First the lemmas on   *)
(* numbers and sequences they share: a fact about every prefix of a text   *)
(* is proved by NumbersUpTo.                                               *)
(***************************************************************************)
EXTENDS CollabCache, CommentText, Payload, ReviewInput, Startup,
        FiniteSetTheorems, WellFoundedInduction, TLAPS

LEMMA LeastNumber ==
  ASSUME NEW T \in SUBSET Nat, T # {}
  PROVE  \E n \in T : \A m \in T : n <= m
<1>1. PICK n \in T : \A m \in T : <<m, n>> \notin OpToRel(<, Nat)
  BY NatLessThanWellFounded, WFMin
<1>2. n \in Nat /\ \A m \in T : m \in Nat /\ ~(m < n)
  BY <1>1 DEF OpToRel
<1>3. \A m \in T : n <= m
  BY <1>2
<1> QED BY <1>3

(* Induction, for a set of numbers.                                        *)
LEMMA NumbersUpTo ==
  ASSUME NEW b \in Nat, NEW T \in SUBSET Nat, 0 \in T,
         \A n \in 0..(b - 1) : n \in T => n + 1 \in T
  PROVE  0..b \subseteq T
<1> SUFFICES ASSUME ~(0..b \subseteq T) PROVE FALSE
  OBVIOUS
<1> DEFINE Out == {n \in 0..b : n \notin T}
<1>1. Out \in SUBSET Nat /\ Out # {}
  OBVIOUS
<1>2. PICK n \in Out : \A m \in Out : n <= m
  BY <1>1, LeastNumber
<1>3. n \in Nat /\ n <= b /\ n # 0 /\ n \notin T
  OBVIOUS
<1>4. n - 1 \in 0..(b - 1) /\ (n - 1) + 1 = n
  BY <1>3
<1>5. n - 1 \notin Out
  BY <1>2, <1>3
<1>6. n - 1 \in T
  BY <1>4, <1>5
<1> QED BY <1>3, <1>4, <1>6

(* Where the parts of a sequence lie in it, one behind the other: the i-th *)
(* ends at off[i].                                                         *)
Laid(ss, flat, off) ==
  /\ off \in [0..Len(ss) -> Nat] /\ off[0] = 0 /\ off[Len(ss)] = Len(flat)
  /\ \A i \in 1..Len(ss) : off[i] = off[i - 1] + Len(ss[i])
  /\ \A i \in 1..Len(ss) : \A j \in 1..Len(ss[i]) :
       flat[off[i - 1] + j] = ss[i][j]

LEMMA FlattenUnfolds ==
  ASSUME NEW S, NEW ss \in Seq(Seq(S)), Len(ss) # 0
  PROVE  \E F : /\ F = [i \in 1..Len(ss) |->
                          IF i = 1 THEN ss[i] ELSE F[i - 1] \o ss[i]]
                /\ FlattenSeq(ss) = F[Len(ss)]
<1> DEFINE Upto(n, F) == F = [i \in 1..n |-> IF i = 1 THEN ss[i]
                                             ELSE F[i - 1] \o ss[i]]
           T == {n \in Nat : \E F : Upto(n, F)}
<1>1. 0 \in T
  <2>1. Upto(0, [i \in 1..0 |-> <<>>])
    OBVIOUS
  <2> QED BY <2>1
<1>2. ASSUME NEW n \in 0..(Len(ss) - 1), n \in T PROVE n + 1 \in T
  <2>1. PICK F : Upto(n, F)
    BY <1>2
  <2> DEFINE last == IF n = 0 THEN ss[1] ELSE F[n] \o ss[n + 1]
             G == [i \in 1..(n + 1) |-> IF i = n + 1 THEN last ELSE F[i]]
  <2>2. ASSUME NEW i \in 1..(n + 1)
        PROVE  G[i] = IF i = 1 THEN ss[i] ELSE G[i - 1] \o ss[i]
    <3>1. CASE i = n + 1 /\ n = 0
      BY <3>1
    <3>2. CASE i = n + 1 /\ n # 0
      <4>1. n \in 1..(n + 1) /\ n # n + 1 /\ i # 1 /\ i - 1 = n
        BY <3>2
      <4>2. G[n] = F[n]
        BY <4>1
      <4>3. G[i] = F[n] \o ss[n + 1]
        BY <3>2
      <4> QED BY <3>2, <4>1, <4>2, <4>3
    <3>3. CASE i # n + 1
      <4>1. i \in 1..n /\ G[i] = F[i]
        BY <3>3
      <4>2. i # 1 => i - 1 \in 1..(n + 1) /\ i - 1 # n + 1 /\ G[i - 1] = F[i - 1]
        BY <4>1
      <4>3. F[i] = IF i = 1 THEN ss[i] ELSE F[i - 1] \o ss[i]
        BY <2>1, <4>1
      <4> QED BY <4>1, <4>2, <4>3
    <3> QED BY <3>1, <3>2, <3>3
  <2>3. G = [i \in 1..(n + 1) |-> G[i]]
    OBVIOUS
  <2> HIDE DEF G
  <2>4. Upto(n + 1, G)
    BY <2>2, <2>3
  <2> HIDE DEF Upto
  <2> QED BY <2>4
<1> HIDE DEF Upto
<1>3. Len(ss) \in T
  <2>1. Len(ss) \in Nat
    OBVIOUS
  <2>2. 0..Len(ss) \subseteq T
    <3>1. T \in SUBSET Nat
      OBVIOUS
    <3> HIDE DEF T
    <3> QED BY <1>1, <1>2, <2>1, <3>1, NumbersUpTo
  <2> QED BY <2>1, <2>2
<1>4. PICK F : Upto(Len(ss), F)
  BY <1>3
<1> DEFINE C == CHOOSE flatten :
                  flatten = [i \in 1..Len(ss) |->
                     IF i = 1 THEN ss[i] ELSE flatten[i - 1] \o ss[i]]
<1>5. FlattenSeq(ss) = C[Len(ss)]
  BY DEF FlattenSeq
<1>6. C = [i \in 1..Len(ss) |-> IF i = 1 THEN ss[i] ELSE C[i - 1] \o ss[i]]
  BY <1>4 DEF Upto
<1> HIDE DEF C
<1> QED BY <1>5, <1>6


LEMMA LaidEmpty == Laid(<<>>, <<>>, [i \in 0..0 |-> 0])
BY DEF Laid

(* A part that comes earlier ends earlier, and every place is in a part.   *)
LEMMA LaidMonotone ==
  ASSUME NEW S, NEW ss \in Seq(Seq(S)), NEW flat, NEW off, Laid(ss, flat, off),
         NEW i \in 0..Len(ss), NEW k \in i..Len(ss)
  PROVE  off[i] <= off[k]
<1> DEFINE T == {m \in Nat : i + m <= k => off[i] <= off[i + m]}
<1>0. Len(ss) \in Nat /\ i \in Nat /\ k \in Nat /\ i <= k /\ k <= Len(ss)
  OBVIOUS
<1>1. off \in [0..Len(ss) -> Nat]
      /\ \A m \in 1..Len(ss) : off[m] = off[m - 1] + Len(ss[m])
  BY DEF Laid
<1>2. 0 \in T
  <2>1. off \in [0..Len(ss) -> Nat]
    BY <1>1
  <2>2. off[i] \in Nat
    BY ONLY <2>1, i \in 0..Len(ss)
  <2>3. i + 0 = i
    BY ONLY <1>0
  <2> QED BY ONLY <2>2, <2>3
<1>3. ASSUME NEW m \in 0..(k - i - 1), m \in T PROVE m + 1 \in T
  <2>1. i + m + 1 \in 1..Len(ss) /\ (i + m + 1) - 1 = i + m
        /\ i + m \in 0..Len(ss) /\ i + m <= k /\ i + (m + 1) = i + m + 1
    BY <1>0
  <2>2. Len(ss[i + m + 1]) \in Nat
    BY <2>1
  <2>3. off[i + m + 1] = off[i + m] + Len(ss[i + m + 1])
    BY <1>1, <2>1
  <2>4. off[i] \in Nat /\ off[i + m] \in Nat /\ off[i] <= off[i + m]
    BY <1>0, <1>1, <1>3, <2>1
  <2> QED BY <1>0, <2>1, <2>2, <2>3, <2>4
<1>4. T \in SUBSET Nat /\ \A m \in T : i + m <= k => off[i] <= off[i + m]
  OBVIOUS
<1> HIDE DEF T
<1>5. k - i \in Nat /\ i + (k - i) = k /\ k - i \in 0..(k - i)
  BY <1>0
<1>6. 0..(k - i) \subseteq T
  BY <1>2, <1>3, <1>4, <1>5, NumbersUpTo
<1>7. k - i \in T
  BY <1>5, <1>6
<1>8. i + (k - i) <= k
  BY <1>5
<1> QED BY <1>4, <1>5, <1>7, <1>8

LEMMA LaidCovers ==
  ASSUME NEW S, NEW ss \in Seq(Seq(S)), NEW flat \in Seq(S), NEW off,
         Laid(ss, flat, off), NEW p \in 1..Len(flat)
  PROVE  \E i \in 1..Len(ss) : off[i - 1] < p /\ p <= off[i]
<1> DEFINE T == {i \in 0..Len(ss) : p <= off[i]}
<1>1. /\ Len(ss) \in Nat /\ Len(flat) \in Nat
      /\ off \in [0..Len(ss) -> Nat] /\ off[0] = 0 /\ off[Len(ss)] = Len(flat)
  BY DEF Laid
<1>2. Len(ss) \in T /\ T \in SUBSET Nat /\ T # {}
  BY <1>1
<1>3. PICK i \in T : \A k \in T : i <= k
  BY <1>2, LeastNumber
<1>4. i \in 1..Len(ss) /\ i - 1 \in 0..Len(ss) /\ ~(i <= i - 1)
  BY <1>1
<1>5. ~(p <= off[i - 1]) /\ off[i - 1] \in Nat
  BY <1>1, <1>3, <1>4
<1> QED BY <1>4, <1>5

LEMMA Joined ==
  ASSUME NEW S, NEW a \in Seq(S), NEW b \in Seq(S)
  PROVE  /\ a \o b \in Seq(S) /\ Len(a \o b) = Len(a) + Len(b)
         /\ \A j \in 1..Len(a) : (a \o b)[j] = a[j]
         /\ \A j \in 1..Len(b) : (a \o b)[Len(a) + j] = b[j]
OBVIOUS

(* One more part, at the end.                                              *)
LEMMA LaidAppend ==
  ASSUME NEW S, NEW ss \in Seq(Seq(S)), NEW flat \in Seq(S), NEW off,
         Laid(ss, flat, off), NEW s \in Seq(S)
  PROVE  /\ Append(ss, s) \in Seq(Seq(S)) /\ flat \o s \in Seq(S)
         /\ Laid(Append(ss, s), flat \o s,
                 [i \in 0..(Len(ss) + 1) |->
                    IF i = Len(ss) + 1 THEN Len(flat) + Len(s) ELSE off[i]])
<1> DEFINE more == Append(ss, s)
           both == flat \o s
           n    == Len(ss)
           off2 == [i \in 0..(n + 1) |->
                      IF i = n + 1 THEN Len(flat) + Len(s) ELSE off[i]]
<1>1. n \in Nat /\ Len(flat) \in Nat /\ Len(s) \in Nat
  OBVIOUS
<1>2. /\ more \in Seq(Seq(S)) /\ Len(more) = n + 1 /\ more[n + 1] = s
      /\ \A i \in 1..n : more[i] = ss[i]
  OBVIOUS
<1>3. /\ both \in Seq(S) /\ Len(both) = Len(flat) + Len(s)
      /\ \A k \in 1..Len(flat) : both[k] = flat[k]
      /\ \A j \in 1..Len(s) : both[Len(flat) + j] = s[j]
  OBVIOUS
<1>4. /\ off \in [0..n -> Nat] /\ off[0] = 0 /\ off[n] = Len(flat)
      /\ \A i \in 1..n : off[i] = off[i - 1] + Len(ss[i])
      /\ \A i \in 1..n : \A j \in 1..Len(ss[i]) : flat[off[i - 1] + j] = ss[i][j]
  BY DEF Laid
<1>5. /\ \A i \in 0..n : off2[i] = off[i]
      /\ off2[n + 1] = Len(flat) + Len(s)
      /\ off2 \in [0..(n + 1) -> Nat]
  BY <1>1, <1>4
<1> HIDE DEF off2, more, both, n
<1>6. \A i \in 0..n : off[i] <= Len(flat)
  <2>1. ASSUME NEW i \in 0..n PROVE off[i] <= off[n]
    <3>1. n \in i..n
      BY <1>1
    <3> QED BY <3>1, LaidMonotone DEF n
  <2> QED BY <1>4, <2>1
<1>7. \A i \in 1..(n + 1) : off2[i] = off2[i - 1] + Len(more[i])
  <2> SUFFICES ASSUME NEW i \in 1..(n + 1)
               PROVE  off2[i] = off2[i - 1] + Len(more[i])
    OBVIOUS
  <2>1. CASE i = n + 1
    <3>1. i - 1 = n /\ n \in 0..n
      BY <1>1, <2>1
    <3> QED BY <1>2, <1>4, <1>5, <2>1, <3>1
  <2>2. CASE i # n + 1
    <3>1. i \in 1..n /\ i \in 0..n /\ i - 1 \in 0..n
      BY <1>1, <2>2
    <3> QED BY <1>2, <1>4, <1>5, <3>1
  <2> QED BY <2>1, <2>2
<1>8. ASSUME NEW i \in 1..(n + 1), NEW j \in 1..Len(more[i])
      PROVE  both[off2[i - 1] + j] = more[i][j]
  <2>1. CASE i = n + 1
    <3>1. i - 1 = n /\ n \in 0..n
      BY <1>1, <2>1
    <3>2. off2[i - 1] = Len(flat) /\ more[i] = s
      BY <1>2, <1>4, <1>5, <2>1, <3>1
    <3> QED BY <1>3, <1>8, <3>2
  <2>2. CASE i # n + 1
    <3>1. i \in 1..n /\ i \in 0..n /\ i - 1 \in 0..n
      BY <1>1, <2>2
    <3>2. off2[i - 1] = off[i - 1] /\ more[i] = ss[i]
      BY <1>2, <1>5, <3>1
    <3>3. Len(ss[i]) \in Nat
      BY <3>1 DEF n
    <3>4. /\ off[i - 1] \in Nat /\ off[i] = off[i - 1] + Len(ss[i])
          /\ off[i] <= Len(flat)
      BY <1>4, <1>6, <3>1
    <3>5. j \in 1..Len(ss[i])
      BY ONLY <3>2, j \in 1..Len(more[i])
    <3>6. off[i - 1] + j \in 1..Len(flat)
      <4> PICK o \in Nat, l \in Nat, f \in Nat :
             o = off[i - 1] /\ l = Len(ss[i]) /\ f = Len(flat)
        BY <1>1, <3>3, <3>4
      <4>1. o + l <= f /\ j \in 1..l
        BY <3>4, <3>5
      <4>2. o + j \in 1..f
        BY ONLY <4>1, o \in Nat, l \in Nat, f \in Nat
      <4> QED BY <4>2
    <3>7. flat[off[i - 1] + j] = ss[i][j]
      BY ONLY <1>4, <3>1, <3>5
    <3>8. both[off[i - 1] + j] = flat[off[i - 1] + j]
      BY ONLY <1>3, <3>6
    <3> QED BY ONLY <3>2, <3>7, <3>8
  <2> QED BY <2>1, <2>2
<1>9. off2[0] = 0 /\ off2[n + 1] = Len(both)
  BY <1>1, <1>3, <1>4, <1>5
<1>10. Laid(more, both, off2)
  BY <1>2, <1>5, <1>7, <1>8, <1>9 DEF Laid
<1> QED BY <1>2, <1>3, <1>10 DEF more, both, off2, n

LEMMA FlattenIsLaid ==
  ASSUME NEW S, NEW ss \in Seq(Seq(S))
  PROVE  /\ FlattenSeq(ss) \in Seq(S)
         /\ \E off : Laid(ss, FlattenSeq(ss), off)
<1>0. Len(ss) \in Nat /\ \A i \in 1..Len(ss) : ss[i] \in Seq(S)
  OBVIOUS
<1>1. CASE Len(ss) = 0
  <2>1. ss = <<>> /\ FlattenSeq(ss) = <<>>
    BY <1>1 DEF FlattenSeq
  <2> QED BY <2>1, LaidEmpty
<1>2. CASE Len(ss) # 0
  <2>1. PICK F : /\ F = [i \in 1..Len(ss) |->
                           IF i = 1 THEN ss[i] ELSE F[i - 1] \o ss[i]]
                 /\ FlattenSeq(ss) = F[Len(ss)]
    BY <1>2, FlattenUnfolds
  <2>2. F[1] = ss[1] /\ \A n \in 1..(Len(ss) - 1) : F[n + 1] = F[n] \o ss[n + 1]
    <3>1. 1 \in 1..Len(ss)
      BY <1>0, <1>2
    <3>2. F[1] = ss[1]
      BY <2>1, <3>1
    <3>3. ASSUME NEW n \in 1..(Len(ss) - 1) PROVE F[n + 1] = F[n] \o ss[n + 1]
      <4>1. n + 1 \in 1..Len(ss) /\ n + 1 # 1 /\ (n + 1) - 1 = n
        BY <1>0
      <4> QED BY <2>1, <4>1
    <3> QED BY <3>2, <3>3
  <2> DEFINE upto(n) == SubSeq(ss, 1, n)
             flat(n) == IF n = 0 THEN <<>> ELSE F[n]
             T == {n \in Nat : /\ flat(n) \in Seq(S)
                               /\ \E off : Laid(upto(n), flat(n), off)}
  <2>3. 0 \in T
    <3>1. upto(0) = <<>> /\ flat(0) = <<>> /\ <<>> \in Seq(S)
      OBVIOUS
    <3> HIDE DEF upto, flat
    <3> QED BY <3>1, LaidEmpty
  <2>4. ASSUME NEW n \in 0..(Len(ss) - 1), n \in T PROVE n + 1 \in T
    <3>1. n \in Nat /\ n + 1 \in 1..Len(ss) /\ ss[n + 1] \in Seq(S)
          /\ n <= Len(ss)
      BY <1>0
    <3>2. upto(n) \in Seq(Seq(S)) /\ Len(upto(n)) = n
      BY <1>0, <3>1
    <3>3. upto(n + 1) = Append(upto(n), ss[n + 1])
      BY <1>0, <3>1
    <3>4. flat(n + 1) = flat(n) \o ss[n + 1]
      <4>1. CASE n = 0
        BY <2>2, <3>1, <4>1
      <4>2. CASE n # 0
        <5>1. n \in 1..(Len(ss) - 1) /\ n + 1 # 0
          BY <1>0, <3>1, <4>2
        <5> QED BY <2>2, <4>2, <5>1
      <4> QED BY <4>1, <4>2
    <3>5. PICK off : Laid(upto(n), flat(n), off)
      BY <2>4
    <3>6. flat(n) \in Seq(S)
      BY <2>4
    <3> HIDE DEF upto, flat
    <3>7. /\ flat(n + 1) \in Seq(S)
          /\ \E off2 : Laid(upto(n + 1), flat(n + 1), off2)
      <4> DEFINE ss0 == upto(n)
                 flat0 == flat(n)
                 s == ss[n + 1]
      <4>1. ss0 \in Seq(Seq(S)) /\ flat0 \in Seq(S) /\ Laid(ss0, flat0, off)
            /\ s \in Seq(S)
        BY <3>1, <3>2, <3>5, <3>6
      <4>2. upto(n + 1) = Append(ss0, s) /\ flat(n + 1) = flat0 \o s
        BY <3>3, <3>4
      <4> HIDE DEF ss0, flat0, s
      <4>3. /\ flat0 \o s \in Seq(S)
            /\ \E off2 : Laid(Append(ss0, s), flat0 \o s, off2)
        BY <4>1, LaidAppend
      <4> QED BY <4>2, <4>3
    <3> QED BY <3>1, <3>7
  <2>5. 0..Len(ss) \subseteq T
    <3>1. T \in SUBSET Nat
      OBVIOUS
    <3> HIDE DEF T
    <3> QED BY <1>0, <2>3, <2>4, <3>1, NumbersUpTo
  <2>6. Len(ss) \in T
    BY <1>0, <2>5
  <2>7. upto(Len(ss)) = ss /\ flat(Len(ss)) = FlattenSeq(ss)
    BY <1>0, <1>2, <2>1
  <2> HIDE DEF upto, flat
  <2>8. /\ flat(Len(ss)) \in Seq(S)
        /\ \E off : Laid(upto(Len(ss)), flat(Len(ss)), off)
    BY <2>6
  <2> QED BY <2>7, <2>8
<1> QED BY <1>1, <1>2

(* Parts lie in one way only.                                              *)
LEMMA LaidOnce ==
  ASSUME NEW S, NEW ss \in Seq(Seq(S)), NEW f1 \in Seq(S), NEW f2 \in Seq(S),
         NEW off1, NEW off2, Laid(ss, f1, off1), Laid(ss, f2, off2)
  PROVE  f1 = f2 /\ \A i \in 0..Len(ss) : off1[i] = off2[i]
<1>0. Len(ss) \in Nat /\ \A i \in 1..Len(ss) : Len(ss[i]) \in Nat
  OBVIOUS
<1>1. /\ off1 \in [0..Len(ss) -> Nat] /\ off1[0] = 0 /\ off1[Len(ss)] = Len(f1)
      /\ \A i \in 1..Len(ss) : off1[i] = off1[i - 1] + Len(ss[i])
      /\ \A i \in 1..Len(ss) : \A j \in 1..Len(ss[i]) :
           f1[off1[i - 1] + j] = ss[i][j]
  BY DEF Laid
<1>2. /\ off2 \in [0..Len(ss) -> Nat] /\ off2[0] = 0 /\ off2[Len(ss)] = Len(f2)
      /\ \A i \in 1..Len(ss) : off2[i] = off2[i - 1] + Len(ss[i])
      /\ \A i \in 1..Len(ss) : \A j \in 1..Len(ss[i]) :
           f2[off2[i - 1] + j] = ss[i][j]
  BY DEF Laid
<1> DEFINE T == {n \in Nat : n <= Len(ss) => off1[n] = off2[n]}
<1>3. 0 \in T
  BY <1>1, <1>2
<1>4. ASSUME NEW n \in 0..(Len(ss) - 1), n \in T PROVE n + 1 \in T
  <2>1. n + 1 \in 1..Len(ss) /\ (n + 1) - 1 = n /\ n <= Len(ss)
    BY <1>0
  <2>2. off1[n] = off2[n]
    BY <1>4, <2>1
  <2>3. off1[n + 1] = off2[n + 1]
    BY <1>1, <1>2, <2>1, <2>2
  <2> QED BY <2>1, <2>3
<1>5. T \in SUBSET Nat /\ \A n \in T : n <= Len(ss) => off1[n] = off2[n]
  OBVIOUS
<1> HIDE DEF T
<1>6. 0..Len(ss) \subseteq T
  BY <1>0, <1>3, <1>4, <1>5, NumbersUpTo
<1>7. \A i \in 0..Len(ss) : off1[i] = off2[i]
  <2> SUFFICES ASSUME NEW i \in 0..Len(ss) PROVE off1[i] = off2[i]
    OBVIOUS
  <2>1. i <= Len(ss)
    BY <1>0
  <2> QED BY <1>5, <1>6, <2>1
<1>8. Len(f1) = Len(f2)
  <2>1. Len(ss) \in 0..Len(ss)
    BY <1>0
  <2> QED BY <1>1, <1>2, <1>7, <2>1
<1>9. ASSUME NEW p \in 1..Len(f1) PROVE f1[p] = f2[p]
  <2>1. PICK i \in 1..Len(ss) : off1[i - 1] < p /\ p <= off1[i]
    BY LaidCovers
  <2>2. i - 1 \in 0..Len(ss) /\ off1[i - 1] \in Nat /\ off2[i - 1] = off1[i - 1]
    <3>1. i - 1 \in 0..Len(ss)
      BY <1>0
    <3>2. off1[i - 1] \in Nat
      BY ONLY <1>1, <3>1
    <3> QED BY <1>7, <3>1, <3>2
  <2>3. off1[i] = off1[i - 1] + Len(ss[i]) /\ Len(ss[i]) \in Nat
    BY <1>0, <1>1
  <2>4. p - off1[i - 1] \in 1..Len(ss[i]) /\ off1[i - 1] + (p - off1[i - 1]) = p
    BY <2>1, <2>2, <2>3
  <2> DEFINE j == p - off1[i - 1]
  <2>5. /\ f1[off1[i - 1] + j] = ss[i][j]
        /\ f2[off2[i - 1] + j] = ss[i][j]
    BY ONLY <1>1, <1>2, <2>4, i \in 1..Len(ss)
  <2> QED BY ONLY <2>2, <2>4, <2>5
<1> QED BY <1>7, <1>8, <1>9

LEMMA FlattenAppends ==
  ASSUME NEW S, NEW ss \in Seq(Seq(S)), NEW s \in Seq(S)
  PROVE  /\ Append(ss, s) \in Seq(Seq(S)) /\ FlattenSeq(ss) \in Seq(S)
         /\ FlattenSeq(Append(ss, s)) = FlattenSeq(ss) \o s
<1>1. FlattenSeq(ss) \in Seq(S) /\ \E off : Laid(ss, FlattenSeq(ss), off)
  BY FlattenIsLaid
<1>2. /\ Append(ss, s) \in Seq(Seq(S)) /\ FlattenSeq(ss) \o s \in Seq(S)
      /\ \E off : Laid(Append(ss, s), FlattenSeq(ss) \o s, off)
  BY <1>1, LaidAppend
<1>3. /\ FlattenSeq(Append(ss, s)) \in Seq(S)
      /\ \E off : Laid(Append(ss, s), FlattenSeq(Append(ss, s)), off)
  BY <1>2, FlattenIsLaid
<1>4. FlattenSeq(Append(ss, s)) = FlattenSeq(ss) \o s
  <2> PICK more : more = Append(ss, s)
    OBVIOUS
  <2> PICK both : both = FlattenSeq(ss) \o s
    OBVIOUS
  <2> PICK flat : flat = FlattenSeq(more)
    OBVIOUS
  <2>1. PICK off1, off2 : Laid(more, both, off1) /\ Laid(more, flat, off2)
    BY <1>2, <1>3
  <2>2. more \in Seq(Seq(S)) /\ both \in Seq(S) /\ flat \in Seq(S)
    BY <1>2, <1>3
  <2>3. both = flat
    BY ONLY <2>1, <2>2, LaidOnce
  <2> QED BY <2>3
<1> QED BY <1>1, <1>2, <1>4

LEMMA FlattenEmpty == FlattenSeq(<<>>) = <<>>
BY DEF FlattenSeq

LEMMA MaxOfNumbers ==
  ASSUME NEW b \in Nat, NEW T \in SUBSET (0..b), T # {}
  PROVE  Max(T) \in T /\ \A n \in T : n <= Max(T)
<1> DEFINE Left == {b - n : n \in T}
<1>0. \A n \in T : n \in Nat /\ b - n \in Nat
  OBVIOUS
<1>1. Left \in SUBSET Nat /\ Left # {}
  BY <1>0
<1> PICK l \in Left : \A m \in Left : l <= m
  BY <1>1, LeastNumber
<1>2. b - l \in T /\ \A n \in T : n <= b - l
  <2>1. PICK k \in T : l = b - k
    OBVIOUS
  <2>2. ASSUME NEW n \in T PROVE n <= k
    <3>1. b - n \in Left
      OBVIOUS
    <3>2. b - k <= b - n
      BY <2>1, <3>1
    <3> QED BY <3>2
  <2>3. b - l = k
    BY <2>1
  <2> QED BY <2>2, <2>3
<1> HIDE DEF Left
<1>3. \E x \in T : \A n \in T : x >= n
  BY <1>2
<1> QED BY <1>3 DEF Max

-----------------------------------------------------------------------------
Found(words, name, k) == words[k] = At /\ MatchAt(words, name, k)

(* The scan's idea of a match and the regular expression's.                *)
LEMMA FoundIsMention ==
  ASSUME NEW words \in Seq(Chars), NEW name \in Seq(Chars)
  PROVE  Mentions(words, name) <=> \E k \in 1..Len(words) : Found(words, name, k)
<1>0. Len(words) \in Nat /\ Len(name) \in Nat
  OBVIOUS
<1>1. ASSUME NEW k \in 1..Len(words), k + Len(name) <= Len(words)
      PROVE  EqLogin(SubSeq(words, k + 1, k + Len(name)), name)
               <=> StartsWith(words, k + 1, name)
  <2> DEFINE word == SubSeq(words, k + 1, k + Len(name))
  <2>1. Len(word) = Len(name) /\ \A i \in 1..Len(name) : word[i] = words[k + i]
    BY <1>0, <1>1
  <2>2. \A i \in 1..Len(name) : (k + 1) - 1 + i = k + i
    BY <1>0
  <2>3. (k + 1) - 1 + Len(name) <= Len(words)
    BY <1>0, <1>1
  <2> HIDE DEF word
  <2>4. EqLogin(word, name) <=> StartsWith(words, k + 1, name)
    BY <2>1, <2>2, <2>3 DEF EqLogin, StartsWith
  <2> QED BY <2>4 DEF word
<1>2. ASSUME NEW k \in 1..Len(words)
      PROVE  Found(words, name, k) <=>
               LET right == (k - 1) + 1 + Len(name)
               IN  /\ right <= Len(words) /\ words[(k - 1) + 1] = At
                   /\ EqLogin(SubSeq(words, (k - 1) + 2, right), name)
                   /\ k - 1 > 0 => words[k - 1] \notin HandleChars
                   /\ right < Len(words) => words[right + 1] \notin HandleChars
  <2>1. /\ (k - 1) + 1 = k /\ (k - 1) + 2 = k + 1
        /\ (k - 1 > 0 <=> k # 1)
        /\ (k + Len(name)) + 1 = k + 1 + Len(name)
        /\ (k + Len(name) < Len(words) <=> ~(k + 1 + Len(name) > Len(words)))
    BY <1>0, <1>2
  <2>2. StartsWith(words, k + 1, name) => k + Len(name) <= Len(words)
    BY <1>0, <1>2 DEF StartsWith
  <2> QED BY <1>1, <2>1, <2>2 DEF Found, MatchAt
<1>3. ASSUME Mentions(words, name)
      PROVE  \E k \in 1..Len(words) : Found(words, name, k)
  <2>1. PICK left \in 0..Len(words) :
          LET right == left + 1 + Len(name)
          IN  /\ right <= Len(words) /\ words[left + 1] = At
              /\ EqLogin(SubSeq(words, left + 2, right), name)
              /\ left > 0 => words[left] \notin HandleChars
              /\ right < Len(words) => words[right + 1] \notin HandleChars
    BY <1>3 DEF Mentions
  <2>2. left + 1 \in 1..Len(words) /\ (left + 1) - 1 = left
    BY <1>0, <2>1
  <2> QED BY <1>2, <2>1, <2>2
<1>4. ASSUME NEW k \in 1..Len(words), Found(words, name, k)
      PROVE  Mentions(words, name)
  <2>1. k - 1 \in 0..Len(words)
    BY <1>0
  <2> QED BY <1>2, <1>4, <2>1 DEF Mentions
<1> QED BY <1>3, <1>4

(* What the scan has passed holds no match.                                *)
ScanInv ==
  /\ comment \in Seq(Chars) /\ handle \in Seq(Chars) /\ from \in Nat \ {0}
  /\ heard = "scanning" =>
       \A k \in 1..Len(comment) : k < from => ~Found(comment, handle, k)
  /\ heard = "no" /\ Len(handle) \in 1..MaxHandle =>
       \A k \in 1..Len(comment) : ~Found(comment, handle, k)
  /\ heard = "yes" => \E k \in 1..Len(comment) : Found(comment, handle, k)
  /\ heard \in {"scanning", "no", "yes"}

LEMMA ScanStep == ScanInv /\ [MentionNext]_mentionVars => ScanInv'
<1> SUFFICES ASSUME ScanInv, [MentionNext]_mentionVars PROVE ScanInv'
  OBVIOUS
<1> USE DEF ScanInv
<1>0. Len(comment) \in Nat
  OBVIOUS
<1>1. CASE NoMore
  <2>1. \A k \in 1..Len(comment) : ~(k < from) => comment[k] # At
    BY <1>0, <1>1 DEF NoMore, Ats
  <2> QED BY <1>1, <2>1 DEF NoMore, Found
<1>2. CASE TryNext
  <2>1. PICK at \in Ats :
          /\ \A k \in Ats : at <= k
          /\ from' = NextFrom(at)
          /\ heard' = IF MatchAt(comment, handle, at) THEN "yes" ELSE "scanning"
    BY <1>2 DEF TryNext
  <2>2. heard = "scanning" /\ UNCHANGED <<comment, handle>>
    BY <1>2 DEF TryNext
  <2>3. at \in from..Len(comment) /\ comment[at] = At /\ from' = at + 1
    BY <2>1 DEF Ats, NextFrom
  <2>4. at \in 1..Len(comment) /\ from' \in Nat \ {0}
    BY <1>0, <2>3
  <2>5. ASSUME ~MatchAt(comment, handle, at), NEW k \in 1..Len(comment), k < from'
        PROVE  ~Found(comment, handle, k)
    <3>1. CASE k < from
      BY <2>2, <3>1
    <3>2. CASE k = at
      BY <2>5, <3>2 DEF Found
    <3>3. CASE ~(k < from) /\ k # at
      <4>1. k \notin Ats
        BY <1>0, <2>1, <2>3, <2>5, <3>3
      <4> QED BY <1>0, <3>3, <4>1 DEF Ats, Found
    <3> QED BY <3>1, <3>2, <3>3
  <2>6. MatchAt(comment, handle, at) => Found(comment, handle, at)
    BY <2>3 DEF Found
  <2> QED BY <2>1, <2>2, <2>4, <2>5, <2>6
<1>3. CASE UNCHANGED mentionVars
  BY <1>3 DEF mentionVars
<1> QED BY <1>1, <1>2, <1>3 DEF MentionNext

(* The scan of a comment, from one '@' to the next, finds what the regular *)
(* expression of mention.hpp:9-16 finds, for every comment and every name. *)
THEOREM ScanTheorem == MentionSpec => []ScanIsRegex
<1>1. MentionInit(Seq(Chars), Seq(Chars)) => ScanInv
  BY DEF MentionInit, ScanInv
<1>2. ScanInv => ScanIsRegex
  BY FoundIsMention DEF ScanInv, ScanIsRegex
<1> QED BY <1>1, <1>2, ScanStep, PTL DEF MentionSpec

-----------------------------------------------------------------------------
LEMMA EscapedDiffer ==
  /\ Quote # Backslash /\ Quote # LineFeed /\ Quote # Control
  /\ Backslash # LineFeed /\ Backslash # Control /\ LineFeed # Control
BY DEF Quote, Backslash, LineFeed, Control

LEMMA EscapeOfChar ==
  ASSUME NEW c \in Chars
  PROVE  /\ EscapeChar(c) \in Seq(Chars) /\ Len(EscapeChar(c)) \in Nat \ {0}
         /\ \/ EscapeChar(c) = <<c>>
               /\ c \notin {Quote, Backslash, LineFeed, Control}
            \/ EscapeChar(c)[1] = Backslash
               /\ c \in {Quote, Backslash, LineFeed, Control}
         /\ \A j \in 1..Len(EscapeChar(c)) : EscapeChar(c)[j] = At => c = At
<1> DEFINE e == EscapeChar(c)
<1>0. e \in Seq(Chars)
  BY WrittenAssumption
<1>1. CASE c \in {Quote, Backslash}
  <2>1. e = <<Backslash, c>>
    BY <1>1, EscapedDiffer DEF EscapeChar
  <2> HIDE DEF e
  <2>2. Len(e) = 2 /\ e[1] = Backslash /\ e[2] = c
    BY <2>1
  <2>3. \A j \in 1..Len(e) : e[j] = At => c = At
    BY <2>2, EscapesAssumption
  <2> QED BY <1>0, <1>1, <2>2, <2>3 DEF e
<1>2. CASE c = LineFeed
  <2>1. e = <<Backslash, "n">>
    BY <1>2, EscapedDiffer DEF EscapeChar
  <2> HIDE DEF e
  <2>2. Len(e) = 2 /\ e[1] = Backslash /\ e[2] = "n"
    BY <2>1
  <2>3. \A j \in 1..Len(e) : e[j] # At
    BY <2>2, EscapesAssumption
  <2> QED BY <1>0, <1>2, <2>2, <2>3 DEF e
<1>3. CASE c = Control
  <2>1. e = <<Backslash, "u", "control">>
    BY <1>3, EscapedDiffer DEF EscapeChar
  <2> HIDE DEF e
  <2>2. Len(e) = 3 /\ e[1] = Backslash /\ e[2] = "u" /\ e[3] = "control"
    BY <2>1
  <2>3. \A j \in 1..Len(e) : e[j] # At
    BY <2>2, EscapesAssumption
  <2> QED BY <1>0, <1>3, <2>2, <2>3 DEF e
<1>4. CASE c \notin {Quote, Backslash, LineFeed, Control}
  <2>1. e = <<c>>
    BY <1>4 DEF EscapeChar
  <2> HIDE DEF e
  <2>2. Len(e) = 1 /\ e[1] = c
    BY <2>1
  <2> QED BY <1>0, <1>4, <2>1, <2>2 DEF e
<1> QED BY <1>1, <1>2, <1>3, <1>4

(* Where the escapes of a comment are: the k-th begins behind off[k - 1].  *)
Escapes(t) == [i \in 1..Len(t) |-> EscapeChar(t[i])]

LEMMA EscapedIsLaid ==
  ASSUME NEW t \in Seq(Chars)
  PROVE  /\ Escaped(t) \in Seq(Chars)
         /\ Escapes(t) \in Seq(Seq(Chars)) /\ Len(Escapes(t)) = Len(t)
         /\ \A i \in 1..Len(t) : t[i] \in Chars /\ Escapes(t)[i] = EscapeChar(t[i])
         /\ \E off : Laid(Escapes(t), Escaped(t), off)
<1>1. /\ Escapes(t) \in Seq(Seq(Chars)) /\ Len(Escapes(t)) = Len(t)
      /\ \A i \in 1..Len(t) : t[i] \in Chars /\ Escapes(t)[i] = EscapeChar(t[i])
  BY EscapeOfChar DEF Escapes
<1>2. Escaped(t) = FlattenSeq(Escapes(t))
  BY DEF Escaped, Escapes
<1> QED BY <1>1, <1>2, FlattenIsLaid

(* An escaped comment mentions nobody whom the comment does not mention.   *)
LEMMA EscapesMentionNobody ==
  ASSUME NEW t \in Seq(Chars), NEW name \in Seq(HandleChars),
         Mentions(Escaped(t), name)
  PROVE  Mentions(t, name)
<1> DEFINE words == Escaped(t)
<1>1. /\ words \in Seq(Chars) /\ name \in Seq(Chars)
      /\ Len(t) \in Nat /\ Len(words) \in Nat /\ Len(name) \in Nat
  BY EscapedIsLaid, WrittenAssumption
<1>2. /\ Escapes(t) \in Seq(Seq(Chars)) /\ Len(Escapes(t)) = Len(t)
      /\ \A i \in 1..Len(t) : t[i] \in Chars /\ Escapes(t)[i] = EscapeChar(t[i])
  BY EscapedIsLaid
<1>3. PICK off : Laid(Escapes(t), words, off)
  BY EscapedIsLaid
<1>4. /\ off \in [0..Len(t) -> Nat] /\ off[0] = 0 /\ off[Len(t)] = Len(words)
      /\ \A i \in 1..Len(t) :
           /\ off[i] = off[i - 1] + Len(EscapeChar(t[i]))
           /\ \A j \in 1..Len(EscapeChar(t[i])) :
                words[off[i - 1] + j] = EscapeChar(t[i])[j]
  <2>1. /\ off \in [0..Len(Escapes(t)) -> Nat] /\ off[0] = 0
        /\ off[Len(Escapes(t))] = Len(words)
        /\ \A i \in 1..Len(Escapes(t)) : off[i] = off[i - 1] + Len(Escapes(t)[i])
        /\ \A i \in 1..Len(Escapes(t)) : \A j \in 1..Len(Escapes(t)[i]) :
             words[off[i - 1] + j] = Escapes(t)[i][j]
    BY ONLY <1>3 DEF Laid
  <2>2. ASSUME NEW i \in 1..Len(t)
        PROVE  /\ off[i] = off[i - 1] + Len(EscapeChar(t[i]))
               /\ \A j \in 1..Len(EscapeChar(t[i])) :
                    words[off[i - 1] + j] = EscapeChar(t[i])[j]
    <3>1. i \in 1..Len(Escapes(t)) /\ Escapes(t)[i] = EscapeChar(t[i])
      BY ONLY <1>2, i \in 1..Len(t)
    <3>2. off[i] = off[i - 1] + Len(EscapeChar(t[i]))
      BY ONLY <2>1, <3>1
    <3>3. \A j \in 1..Len(EscapeChar(t[i])) :
            words[off[i - 1] + j] = EscapeChar(t[i])[j]
      BY ONLY <2>1, <3>1
    <3> QED BY ONLY <3>2, <3>3
  <2>3. off \in [0..Len(t) -> Nat] /\ off[0] = 0 /\ off[Len(t)] = Len(words)
    BY ONLY <1>2, <2>1
  <2> QED BY ONLY <2>2, <2>3
<1>5. PICK p \in 1..Len(words) : Found(words, name, p)
  BY <1>1, FoundIsMention
<1> HIDE DEF words
<1>6. /\ words[p] = At
      /\ p = 1 \/ words[p - 1] \notin HandleChars
      /\ p + Len(name) <= Len(words)
      /\ \A m \in 1..Len(name) : Lower[words[p + m]] = Lower[name[m]]
      /\ p + 1 + Len(name) > Len(words) \/ words[p + 1 + Len(name)] \notin HandleChars
  <2>1. \A m \in 1..Len(name) : (p + 1) - 1 + m = p + m
    BY <1>1
  <2>2. (p + 1) - 1 + Len(name) = p + Len(name)
    BY <1>1
  <2>3. words[p] = At /\ MatchAt(words, name, p)
    BY ONLY <1>5 DEF Found
  <2>4. /\ p = 1 \/ words[p - 1] \notin HandleChars
        /\ StartsWith(words, p + 1, name)
        /\ p + 1 + Len(name) > Len(words) \/ words[p + 1 + Len(name)] \notin HandleChars
    BY ONLY <2>3 DEF MatchAt
  <2> QED BY ONLY <2>1, <2>2, <2>3, <2>4 DEF StartsWith
(* A character of a name stands in the comment as in its escaped form.     *)
<1>7. ASSUME NEW i \in 1..Len(t)
      PROVE  /\ off[i - 1] \in Nat /\ off[i] \in Nat /\ off[i - 1] + 1 <= Len(words)
             /\ t[i] \in HandleChars \cup {At} \/ words[off[i - 1] + 1] \in HandleChars
                  => off[i] = off[i - 1] + 1 /\ words[off[i]] = t[i]
  <2>1. /\ t[i] \in Chars /\ Len(EscapeChar(t[i])) \in Nat
        /\ 1 \in 1..Len(EscapeChar(t[i]))
        /\ i \in 0..Len(t) /\ i - 1 \in 0..Len(t)
    <3>1. t[i] \in Chars
      BY <1>2
    <3>2. Len(EscapeChar(t[i])) \in Nat \ {0}
      BY <3>1, EscapeOfChar
    <3> QED BY <1>1, <3>1, <3>2
  <2>2. /\ off[i - 1] \in Nat /\ off[i] \in Nat
        /\ off[i] = off[i - 1] + Len(EscapeChar(t[i]))
        /\ words[off[i - 1] + 1] = EscapeChar(t[i])[1]
    <3>1. off[i - 1] \in Nat /\ off[i] \in Nat
      BY ONLY <1>4, <2>1
    <3>2. words[off[i - 1] + 1] = EscapeChar(t[i])[1]
      BY ONLY <1>4, <2>1, i \in 1..Len(t)
    <3> QED BY <1>4, <3>1, <3>2
  <2>3. off[i] <= Len(words)
    <3>1. i \in 0..Len(Escapes(t)) /\ Len(t) \in i..Len(Escapes(t))
      BY <1>1, <1>2
    <3>2. off[i] <= off[Len(t)]
      BY <1>2, <1>3, <3>1, LaidMonotone
    <3> QED BY <1>4, <3>2
  <2>4. off[i - 1] + 1 <= Len(words)
    BY <1>1, <2>1, <2>2, <2>3
  <2>5. ASSUME t[i] \in HandleChars \cup {At} \/ words[off[i - 1] + 1] \in HandleChars
        PROVE  EscapeChar(t[i]) = <<t[i]>>
    BY <2>1, <2>2, <2>5, EscapeOfChar, EscapesAssumption
  <2>6. EscapeChar(t[i]) = <<t[i]>> =>
          off[i] = off[i - 1] + 1 /\ words[off[i]] = t[i]
    BY <2>2
  <2> QED BY <2>2, <2>4, <2>5, <2>6
<1>8. PICK i \in 1..Len(t) : off[i - 1] < p /\ p <= off[i]
  BY <1>1, <1>2, <1>3, LaidCovers
<1>9. t[i] = At /\ off[i] = p /\ off[i - 1] = p - 1
  <2>1. off[i - 1] \in Nat /\ off[i] = off[i - 1] + Len(EscapeChar(t[i]))
    BY <1>4, <1>7
  <2>2. t[i] \in Chars /\ Len(EscapeChar(t[i])) \in Nat
    BY <1>2, EscapeOfChar
  <2>3. p - off[i - 1] \in 1..Len(EscapeChar(t[i]))
        /\ off[i - 1] + (p - off[i - 1]) = p
    BY <1>1, <1>8, <2>1, <2>2
  <2>4. EscapeChar(t[i])[p - off[i - 1]] = At
    BY <1>4, <1>6, <2>3
  <2>5. t[i] = At
    BY <2>2, <2>3, <2>4, EscapeOfChar
  <2>6. off[i] = off[i - 1] + 1
    BY <1>7, <2>5
  <2> QED BY <1>8, <2>1, <2>5, <2>6
<1> DEFINE Read(m) == i + m <= Len(t) /\ off[i + m] = p + m
           T == {m \in Nat : Read(m)}
<1>10. 0 \in T
  BY <1>1, <1>9
<1>11. ASSUME NEW m \in 0..(Len(name) - 1), m \in T
       PROVE  m + 1 \in T /\ t[i + (m + 1)] = words[p + (m + 1)]
  <2>0. p + Len(name) <= Len(words) /\ off[Len(t)] = Len(words)
    BY <1>4, <1>6
  <2>1. Read(m) /\ m + 1 \in 1..Len(name) /\ p + (m + 1) \in 1..Len(words)
    <3>1. m \in Nat /\ m + 1 <= Len(name) /\ p \in Nat /\ p >= 1
      BY <1>1
    <3> QED BY <1>1, <1>11, <2>0, <3>1
  <2>2. words[p + (m + 1)] \in HandleChars
    <3>1. name[m + 1] \in HandleChars
      BY <2>1
    <3>2. words[p + (m + 1)] \in Chars
      BY <1>1, <2>1
    <3> QED BY <1>6, <2>1, <3>1, <3>2, WrittenAssumption
  <2>3. i + m # Len(t)
    <3>1. i + m = Len(t) => off[i + m] = Len(words)
      BY ONLY <2>0
    <3>2. off[i + m] = p + m /\ m + 1 <= Len(name) /\ m \in Nat
      BY <2>1
    <3> QED BY ONLY <1>1, <2>0, <3>1, <3>2, p \in 1..Len(words)
  <2>4. i + (m + 1) \in 1..Len(t) /\ (i + (m + 1)) - 1 = i + m
    BY <1>1, <2>1, <2>3
  <2>5. off[i + m] + 1 = p + (m + 1)
    BY <1>1, <2>1
  <2>6. off[i + (m + 1)] = off[i + m] + 1
        /\ words[off[i + (m + 1)]] = t[i + (m + 1)]
    BY <1>7, <2>2, <2>4, <2>5
  <2> QED BY <2>4, <2>5, <2>6
<1>12. \A m \in T : Read(m)
  OBVIOUS
<1>13. 0..Len(name) \subseteq T
  <2>1. T \in SUBSET Nat
    OBVIOUS
  <2> HIDE DEF T
  <2> QED BY <1>1, <1>10, <1>11, <2>1, NumbersUpTo
<1> HIDE DEF T
<1>14. i + Len(name) <= Len(t) /\ off[i + Len(name)] = p + Len(name)
  <2>1. Len(name) \in T
    BY ONLY <1>1, <1>13
  <2>2. Read(Len(name))
    BY ONLY <1>12, <2>1
  <2> QED BY ONLY <2>2
<1>15. ASSUME NEW m \in 1..Len(name) PROVE t[i + m] = words[p + m]
  <2>1. m - 1 \in 0..(Len(name) - 1) /\ (m - 1) + 1 = m
    BY <1>1
  <2>2. m - 1 \in T
    BY <1>1, <1>13, <2>1
  <2> QED BY <1>11, <2>1, <2>2
<1>16. i = 1 \/ t[i - 1] \notin HandleChars
  <2> SUFFICES ASSUME i # 1, t[i - 1] \in HandleChars PROVE FALSE
    OBVIOUS
  <2>1. i - 1 \in 1..Len(t)
    BY <1>1
  <2>2. /\ off[(i - 1) - 1] \in Nat /\ off[i - 1] = off[(i - 1) - 1] + 1
        /\ words[off[i - 1]] = t[i - 1]
    BY <1>7, <2>1
  <2>3. p # 1 /\ words[p - 1] = t[i - 1]
    BY <1>9, <2>2
  <2> QED BY <1>6, <2>3
<1>17. i + 1 + Len(name) > Len(t) \/ t[i + 1 + Len(name)] \notin HandleChars
  <2> SUFFICES ASSUME i + 1 + Len(name) <= Len(t),
                      t[i + 1 + Len(name)] \in HandleChars
               PROVE  FALSE
    BY <1>1
  <2>1. i + 1 + Len(name) \in 1..Len(t)
        /\ (i + 1 + Len(name)) - 1 = i + Len(name)
    BY <1>1
  <2>2. /\ off[i + Len(name)] + 1 <= Len(words)
        /\ off[i + 1 + Len(name)] = off[i + Len(name)] + 1
        /\ words[off[i + 1 + Len(name)]] = t[i + 1 + Len(name)]
    BY <1>7, <2>1
  <2>3. off[i + Len(name)] + 1 = p + 1 + Len(name)
    BY <1>1, <1>14
  <2> QED BY <1>1, <1>6, <2>2, <2>3
<1>18. Found(t, name, i)
  <2>1. StartsWith(t, i + 1, name)
    <3>1. \A m \in 1..Len(name) : (i + 1) - 1 + m = i + m
      BY <1>1
    <3>2. (i + 1) - 1 + Len(name) = i + Len(name)
      BY <1>1
    <3> QED BY <1>6, <1>14, <1>15, <3>1, <3>2 DEF StartsWith
  <2> QED BY <1>9, <1>16, <1>17, <2>1 DEF Found, MatchAt
<1> QED BY <1>1, <1>18, FoundIsMention

HeardInv ==
  /\ ScanInv
  /\ wrote \in Seq(Chars) /\ comment = Escaped(wrote) /\ handle \in Seq(HandleChars)

(* The bot answers no comment that does not mention it: the escapes of     *)
(* JSON, which it takes for text, never look like a mention.               *)
THEOREM NoFalseMentionTheorem == CommentSpec => []NoFalseMention
<1>1. CommentInit => HeardInv
  <2> SUFFICES ASSUME CommentInit PROVE HeardInv
    OBVIOUS
  <2>1. wrote \in Seq(Chars) /\ handle \in Seq(HandleChars)
        /\ comment = Escaped(wrote) /\ from = 1
        /\ heard = IF Len(handle) \in 1..MaxHandle THEN "scanning" ELSE "no"
    BY WrittenAssumption DEF CommentInit, MentionInit, Received
  <2>2. comment \in Seq(Chars) /\ handle \in Seq(Chars)
    BY <2>1, EscapedIsLaid, WrittenAssumption
  <2> QED BY <2>1, <2>2 DEF HeardInv, ScanInv
<1>2. HeardInv /\ [CommentNext]_commentVars => HeardInv'
  <2> SUFFICES ASSUME HeardInv, [CommentNext]_commentVars PROVE HeardInv'
    OBVIOUS
  <2>1. [MentionNext]_mentionVars /\ UNCHANGED wrote
    BY DEF CommentNext, commentVars
  <2>2. ScanInv'
    BY <2>1, ScanStep DEF HeardInv
  <2>3. UNCHANGED <<comment, handle>>
    BY <2>1 DEF MentionNext, NoMore, TryNext, mentionVars
  <2> QED BY <2>1, <2>2, <2>3 DEF HeardInv
<1>3. HeardInv => NoFalseMention
  <2> SUFFICES ASSUME HeardInv, heard = "yes" PROVE Mentions(wrote, handle)
    BY DEF NoFalseMention
  <2>1. Mentions(comment, handle)
    BY FoundIsMention DEF HeardInv, ScanInv
  <2> QED BY <2>1, EscapesMentionNobody DEF HeardInv
<1> QED BY <1>1, <1>2, <1>3, PTL DEF CommentSpec

-----------------------------------------------------------------------------
Symbols ==
  {Backslash, Quote, LineFeed, Control, High, Low, Astral, Replacement,
   "a", "n", "u", "basic", "control", "e-acute"} \cup UNION {ToSet(t) : t \in Posts}

(* What one piece of a text is sent as, and what it means.  A backslash    *)
(* that nothing follows is a piece of its own.                             *)
IsPlain(s, m, last) ==
  \E c \in Symbols : s = <<c>> /\ m = <<c>> /\ (c = Backslash => last)

IsLetter(s, m) ==
  \E c \in {Quote, Backslash, "n"} :
    s = <<Backslash, c>> /\ m = <<IF c = "n" THEN LineFeed ELSE c>>

IsHex(s, m) ==
  \E q \in {"basic", "control"} : s = <<Backslash, "u", q>> /\ m = <<Hex[q]>>

IsPair(s, m) ==
  s = <<Backslash, "u", High, Backslash, "u", Low>> /\ m = <<Astral>>

IsHalf(s, m) ==
  \E q \in {High, Low} : s = <<Backslash, "u", q>> /\ m = <<Replacement>>

IsMalformed(s, m) ==
  s \in {<<Backslash, "u", "a">>, <<Backslash, "a">>} /\ m = s

IsPiece(s, m, last) ==
  \/ IsPlain(s, m, last) \/ IsLetter(s, m) \/ IsHex(s, m)
  \/ IsPair(s, m) \/ IsHalf(s, m) \/ IsMalformed(s, m)

(* The pieces of raw, in their order, and their meanings; no two halves of *)
(* a pair are pieces of their own.                                         *)
Agree(sents, metas, off, moff) ==
  /\ sents \in Seq(Seq(Symbols)) /\ metas \in Seq(Seq(Symbols))
  /\ Len(metas) = Len(sents)
  /\ Laid(sents, raw, off) /\ Laid(metas, means, moff)
  /\ \A i \in 1..Len(sents) : IsPiece(sents[i], metas[i], i = Len(sents))
  /\ \A i \in 1..(Len(sents) - 1) :
       ~(/\ sents[i] = <<Backslash, "u", High>>
         /\ sents[i + 1] = <<Backslash, "u", Low>>)

LEMMA SymbolsHold ==
  /\ Backslash \in Symbols /\ Quote \in Symbols /\ LineFeed \in Symbols
  /\ Control \in Symbols /\ High \in Symbols /\ Low \in Symbols
  /\ Astral \in Symbols /\ Replacement \in Symbols
  /\ "a" \in Symbols /\ "n" \in Symbols /\ "u" \in Symbols
  /\ "basic" \in Symbols /\ "control" \in Symbols /\ "e-acute" \in Symbols
  /\ \A t \in Posts : t \in Seq(Symbols)
<1>1. \A t \in Posts : ToSet(t) \subseteq Symbols
  BY DEF Symbols
<1>2. \A t \in Posts : t \in Seq(Symbols)
  BY <1>1, TextsAssumption
<1> QED BY <1>2 DEF Symbols

LEMMA SymbolsDiffer ==
  /\ Backslash \notin {"a", "n", "u", "end", "basic", "control", High, Low}
  /\ Quote \notin {"u", "a", "n"} /\ High # Low /\ "u" \notin {"n", "a", "end"}
  /\ {High, Low} \cap {"basic", "control", "a", "n", "u", "end"} = {}
BY DEF Backslash, Quote, High, Low

LEMMA HexHas ==
  /\ DOMAIN Hex = {"basic", "control"}
  /\ Hex["basic"] = "e-acute" /\ Hex["control"] = Control
  /\ Quads = {"basic", "control", High, Low}
BY DEF Hex, Quads

LEMMA SixSymbols ==
  ASSUME NEW S, NEW a1 \in S, NEW a2 \in S, NEW a3 \in S, NEW a4 \in S,
         NEW a5 \in S, NEW a6 \in S
  PROVE  <<a1, a2, a3, a4, a5, a6>> \in Seq(S)
         /\ Len(<<a1, a2, a3, a4, a5, a6>>) = 6
OBVIOUS

LEMMA PieceTypes ==
  ASSUME NEW s, NEW m, NEW last, IsPiece(s, m, last)
  PROVE  /\ s \in Seq(Symbols) /\ Len(s) \in 1..6
         /\ m \in Seq(Symbols) /\ Len(m) \in Nat
<1> USE SymbolsHold
<1>1. CASE IsPlain(s, m, last)
  BY <1>1 DEF IsPlain
<1>2. CASE IsLetter(s, m)
  BY <1>2 DEF IsLetter
<1>3. CASE IsHex(s, m)
  BY <1>3, HexHas DEF IsHex
<1>4. CASE IsPair(s, m)
  <2>1. /\ <<Backslash, "u", High, Backslash, "u", Low>> \in Seq(Symbols)
        /\ Len(<<Backslash, "u", High, Backslash, "u", Low>>) = 6
    BY SixSymbols
  <2>2. s \in Seq(Symbols) /\ Len(s) = 6
    BY <1>4, <2>1 DEF IsPair
  <2>3. m \in Seq(Symbols) /\ Len(m) = 1
    BY <1>4 DEF IsPair
  <2> QED BY <2>2, <2>3
<1>5. CASE IsHalf(s, m)
  BY <1>5 DEF IsHalf
<1>6. CASE IsMalformed(s, m)
  <2>1. CASE s = <<Backslash, "u", "a">>
    BY <1>6, <2>1 DEF IsMalformed
  <2>2. CASE s = <<Backslash, "a">>
    BY <1>6, <2>2 DEF IsMalformed
  <2> QED BY <1>6, <2>1, <2>2 DEF IsMalformed
<1> QED BY <1>1, <1>2, <1>3, <1>4, <1>5, <1>6 DEF IsPiece

(* json_unescape() stands between two pieces, or in a malformed escape,    *)
(* and what it has so far is the beginning of what was meant.              *)
Reads(sents, metas, off, moff, i, r) ==
  /\ i \in 0..Len(sents) /\ r \in Nat
  /\ place = off[i] + 1 + r /\ Len(text) = moff[i] + r
  /\ r # 0 => /\ i < Len(sents) /\ r < Len(sents[i + 1])
              /\ IsMalformed(sents[i + 1], metas[i + 1])
  /\ \A k \in 1..Len(text) : text[k] = means[k]

UnescapeInv ==
  /\ raw \in Seq(Symbols) /\ means \in Seq(Symbols) /\ text \in Seq(Symbols)
  /\ place \in Nat
  /\ \E sents, metas, off, moff :
       /\ Agree(sents, metas, off, moff)
       /\ \E i, r : Reads(sents, metas, off, moff, i, r)

Agreed(sents, metas, off, moff) ==
  /\ Len(sents) \in Nat /\ Len(raw) \in Nat /\ Len(means) \in Nat
  /\ \A i \in 0..Len(sents) : off[i] \in Nat /\ moff[i] \in Nat
  /\ off[Len(sents)] = Len(raw) /\ moff[Len(sents)] = Len(means)
  /\ off[0] = 0 /\ moff[0] = 0
  /\ \A i \in 1..Len(sents) :
       /\ off[i] = off[i - 1] + Len(sents[i]) /\ off[i] <= Len(raw)
       /\ moff[i] = moff[i - 1] + Len(metas[i])
       /\ Len(sents[i]) \in 1..6 /\ Len(metas[i]) \in Nat
       /\ \A j \in 1..Len(sents[i]) : raw[off[i - 1] + j] = sents[i][j]
       /\ \A j \in 1..Len(metas[i]) : means[moff[i - 1] + j] = metas[i][j]

LEMMA AgreeTypes ==
  ASSUME NEW sents, NEW metas, NEW off, NEW moff, Agree(sents, metas, off, moff),
         raw \in Seq(Symbols), means \in Seq(Symbols)
  PROVE  Agreed(sents, metas, off, moff)
<1>1. /\ sents \in Seq(Seq(Symbols)) /\ metas \in Seq(Seq(Symbols))
      /\ Len(metas) = Len(sents) /\ Len(sents) \in Nat
      /\ Laid(sents, raw, off) /\ Laid(metas, means, moff)
  BY DEF Agree
<1>2. ASSUME NEW i \in 1..Len(sents) PROVE off[i] <= Len(raw)
  <2>1. i \in 0..Len(sents) /\ Len(sents) \in i..Len(sents)
    BY <1>1
  <2>2. off[i] <= off[Len(sents)]
    BY <1>1, <2>1, LaidMonotone
  <2> QED BY <1>1, <2>2 DEF Laid
<1>3. \A i \in 1..Len(sents) : Len(sents[i]) \in 1..6 /\ Len(metas[i]) \in Nat
  BY PieceTypes DEF Agree
<1>4. \A i \in 1..Len(sents) :
        /\ off[i] = off[i - 1] + Len(sents[i])
        /\ \A j \in 1..Len(sents[i]) : raw[off[i - 1] + j] = sents[i][j]
  BY <1>1 DEF Laid
<1>5. \A i \in 1..Len(sents) :
        /\ moff[i] = moff[i - 1] + Len(metas[i])
        /\ \A j \in 1..Len(metas[i]) : means[moff[i - 1] + j] = metas[i][j]
  BY <1>1 DEF Laid
<1>6. /\ \A i \in 0..Len(sents) : off[i] \in Nat /\ moff[i] \in Nat
      /\ off[Len(sents)] = Len(raw) /\ moff[Len(sents)] = Len(means)
      /\ off[0] = 0 /\ moff[0] = 0
  BY <1>1 DEF Laid
<1>7. Len(raw) \in Nat /\ Len(means) \in Nat
  OBVIOUS
<1> QED BY ONLY <1>1, <1>2, <1>3, <1>4, <1>5, <1>6, <1>7 DEF Agreed

(* The same of one piece, by the number of those before it.                *)
OnePiece(sents, metas, off, moff, i) ==
  /\ Len(sents) \in Nat /\ Len(raw) \in Nat /\ i + 1 \in 1..Len(sents)
  /\ off[i] \in Nat /\ moff[i] \in Nat
  /\ off[i + 1] \in Nat /\ moff[i + 1] \in Nat
  /\ off[i + 1] = off[i] + Len(sents[i + 1]) /\ off[i + 1] <= Len(raw)
  /\ moff[i + 1] = moff[i] + Len(metas[i + 1])
  /\ Len(sents[i + 1]) \in 1..6 /\ Len(metas[i + 1]) \in Nat
  /\ sents[i + 1] \in Seq(Symbols) /\ metas[i + 1] \in Seq(Symbols)
  /\ \A j \in 1..Len(sents[i + 1]) : raw[off[i] + j] = sents[i + 1][j]
  /\ \A j \in 1..Len(metas[i + 1]) : means[moff[i] + j] = metas[i + 1][j]
  /\ IsPiece(sents[i + 1], metas[i + 1], i + 1 = Len(sents))

LEMMA AgreeAt ==
  ASSUME NEW sents, NEW metas, NEW off, NEW moff, Agree(sents, metas, off, moff),
         raw \in Seq(Symbols), means \in Seq(Symbols),
         NEW i \in 0..(Len(sents) - 1)
  PROVE  OnePiece(sents, metas, off, moff, i)
<1>0. Agreed(sents, metas, off, moff)
  BY AgreeTypes
<1>1. Len(sents) \in Nat /\ Len(raw) \in Nat
  BY ONLY <1>0 DEF Agreed
<1>2. PICK k \in 1..Len(sents) : k = i + 1 /\ k - 1 = i
  BY <1>1
<1>3. k - 1 \in 0..Len(sents) /\ k \in 0..Len(sents)
  BY <1>1
<1>4. /\ off[k - 1] \in Nat /\ moff[k - 1] \in Nat
      /\ off[k] \in Nat /\ moff[k] \in Nat
      /\ off[k] = off[k - 1] + Len(sents[k]) /\ off[k] <= Len(raw)
      /\ moff[k] = moff[k - 1] + Len(metas[k])
      /\ Len(sents[k]) \in 1..6 /\ Len(metas[k]) \in Nat
      /\ \A j \in 1..Len(sents[k]) : raw[off[k - 1] + j] = sents[k][j]
      /\ \A j \in 1..Len(metas[k]) : means[moff[k - 1] + j] = metas[k][j]
  BY ONLY <1>0, <1>3, k \in 1..Len(sents) DEF Agreed
<1>5. /\ sents[k] \in Seq(Symbols) /\ metas[k] \in Seq(Symbols)
      /\ IsPiece(sents[k], metas[k], k = Len(sents))
  BY PieceTypes DEF Agree
<1> QED BY <1>1, <1>2, <1>4, <1>5 DEF OnePiece

(* A text that goes on as it should.                                       *)
Begins(old, goal) == \A k \in 1..Len(old) : old[k] = goal[k]
GoesOn(old, m, goal) == \A j \in 1..Len(m) : goal[Len(old) + j] = m[j]

LEMMA TextGoesOn ==
  ASSUME NEW old \in Seq(Symbols), NEW m \in Seq(Symbols), NEW goal,
         Begins(old, goal), GoesOn(old, m, goal)
  PROVE  /\ old \o m \in Seq(Symbols) /\ Len(old \o m) = Len(old) + Len(m)
         /\ Begins(old \o m, goal)
<1> DEFINE both == old \o m
<1> USE DEF Begins, GoesOn
<1>1. Len(old) \in Nat /\ Len(m) \in Nat
  OBVIOUS
<1>2. /\ both \in Seq(Symbols) /\ Len(both) = Len(old) + Len(m)
      /\ \A k \in 1..Len(old) : both[k] = old[k]
      /\ \A j \in 1..Len(m) : both[Len(old) + j] = m[j]
  OBVIOUS
<1> HIDE DEF both
<1>3. ASSUME NEW k \in 1..Len(both) PROVE both[k] = goal[k]
  <2>1. CASE k <= Len(old)
    BY <1>1, <1>2, <2>1
  <2>2. CASE ~(k <= Len(old))
    <3>1. k - Len(old) \in 1..Len(m) /\ Len(old) + (k - Len(old)) = k
      BY <1>1, <1>2, <2>2
    <3> QED BY <1>2, <3>1
  <2> QED BY <2>1, <2>2
<1> QED BY <1>2, <1>3 DEF both

(* A piece is read, with its meaning.                                      *)
LEMMA PieceIsRead ==
  ASSUME NEW sents, NEW metas, NEW off, NEW moff, Agree(sents, metas, off, moff),
         raw \in Seq(Symbols), means \in Seq(Symbols), text \in Seq(Symbols),
         NEW i \in 0..(Len(sents) - 1), Reads(sents, metas, off, moff, i, 0),
         Move(Len(sents[i + 1]), metas[i + 1])
  PROVE  text' \in Seq(Symbols) /\ Reads(sents, metas, off, moff, i + 1, 0)'
<1> DEFINE m == metas[i + 1]
<1>0. OnePiece(sents, metas, off, moff, i)
  BY AgreeAt
<1>1. /\ Len(sents) \in Nat /\ off[i] \in Nat /\ moff[i] \in Nat
      /\ off[i + 1] = off[i] + Len(sents[i + 1]) /\ off[i + 1] \in Nat
      /\ moff[i + 1] = moff[i] + Len(m) /\ moff[i + 1] \in Nat
      /\ Len(m) \in Nat /\ Len(sents[i + 1]) \in Nat
  BY ONLY <1>0 DEF OnePiece
<1>2. m \in Seq(Symbols) /\ \A j \in 1..Len(m) : means[moff[i] + j] = m[j]
  BY ONLY <1>0 DEF OnePiece
<1>3. place = off[i] + 1 /\ Len(text) = moff[i]
  <2>1. place = off[i] + 1 + 0 /\ Len(text) = moff[i] + 0
    BY DEF Reads
  <2> QED BY ONLY <1>1, <2>1
<1>4. Begins(text, means)
  BY DEF Reads, Begins
<1>5. text' = text \o m /\ means' = means
  BY DEF Move
<1>6. place' = place + Len(sents[i + 1])
  BY DEF Move
<1> HIDE DEF m
<1>7. GoesOn(text, m, means)
  BY ONLY <1>2, <1>3 DEF GoesOn
<1>8. /\ text \o m \in Seq(Symbols) /\ Len(text \o m) = Len(text) + Len(m)
      /\ Begins(text \o m, means)
  BY <1>2, <1>4, <1>7, TextGoesOn
<1>9. Len(text') = Len(text) + Len(m)
  BY ONLY <1>5, <1>8
<1>10. text' \in Seq(Symbols) /\ \A k \in 1..Len(text') : text'[k] = means'[k]
  BY ONLY <1>5, <1>8 DEF Begins
<1>11. i + 1 \in 0..Len(sents)
  BY <1>1
<1>12. place' = off[i + 1] + 1 + 0
  <2>1. off[i] \in Nat /\ Len(sents[i + 1]) \in Nat /\ off[i + 1] \in Nat
    BY <1>1
  <2>2. off[i + 1] = off[i] + Len(sents[i + 1])
    BY <1>1
  <2>3. place = off[i] + 1
    BY <1>3
  <2> PICK o \in Nat, l \in Nat : o = off[i] /\ l = Len(sents[i + 1])
    BY <2>1
  <2>4. place' = (o + 1) + l /\ off[i + 1] = o + l
    BY ONLY <1>6, <2>2, <2>3, o = off[i], l = Len(sents[i + 1])
  <2>5. (o + 1) + l = (o + l) + 1 + 0
    BY ONLY o \in Nat, l \in Nat
  <2> QED BY ONLY <2>4, <2>5
<1>13. Len(text') = moff[i + 1] + 0
  <2>1. moff[i] \in Nat /\ Len(m) \in Nat /\ moff[i + 1] \in Nat
    BY <1>1
  <2>2. moff[i + 1] = moff[i] + Len(m) /\ Len(text) = moff[i]
    BY <1>1, <1>3
  <2> QED BY <1>9, <2>1, <2>2
<1> QED BY <1>10, <1>11, <1>12, <1>13 DEF Reads

(* A symbol of a malformed escape is read as it is.                        *)
LEMMA SymbolIsRead ==
  ASSUME NEW sents, NEW metas, NEW off, NEW moff, Agree(sents, metas, off, moff),
         raw \in Seq(Symbols), means \in Seq(Symbols), text \in Seq(Symbols),
         NEW i \in 0..(Len(sents) - 1), NEW r \in Nat,
         Reads(sents, metas, off, moff, i, r), r < Len(sents[i + 1]),
         IsMalformed(sents[i + 1], metas[i + 1]),
         Move(1, <<sents[i + 1][r + 1]>>)
  PROVE  /\ text' \in Seq(Symbols)
         /\ \E i2, r2 : Reads(sents, metas, off, moff, i2, r2)'
<1> DEFINE s == sents[i + 1]
<1>0. OnePiece(sents, metas, off, moff, i) /\ metas[i + 1] = s
  BY AgreeAt DEF IsMalformed
<1>1. /\ Len(sents) \in Nat /\ off[i] \in Nat /\ moff[i] \in Nat
      /\ off[i + 1] = off[i] + Len(s) /\ off[i + 1] \in Nat
      /\ moff[i + 1] = moff[i] + Len(s) /\ moff[i + 1] \in Nat
      /\ Len(s) \in Nat
  BY ONLY <1>0 DEF OnePiece
<1>2. s \in Seq(Symbols) /\ \A j \in 1..Len(s) : means[moff[i] + j] = s[j]
  BY ONLY <1>0 DEF OnePiece
<1>3. place = off[i] + 1 + r /\ Len(text) = moff[i] + r
  BY DEF Reads
<1>4. Begins(text, means)
  BY DEF Reads, Begins
<1> DEFINE one == <<s[r + 1]>>
<1>5. text' = text \o one /\ means' = means
  BY DEF Move
<1>6. place' = place + 1
  BY DEF Move
<1>7. IsMalformed(s, metas[i + 1]) /\ r < Len(s)
  OBVIOUS
<1> HIDE DEF s
<1>8. r + 1 \in 1..Len(s)
  BY <1>1, <1>7
<1>9. one \in Seq(Symbols) /\ Len(one) = 1 /\ one[1] = s[r + 1]
  BY <1>2, <1>8
<1>10. GoesOn(text, one, means)
  <2>1. Len(text) + 1 = moff[i] + (r + 1)
    <3>1. moff[i] \in Nat
      BY <1>1
    <3>2. Len(text) = moff[i] + r
      BY <1>3
    <3> QED BY ONLY <3>1, <3>2, r \in Nat
  <2>2. means[Len(text) + 1] = s[r + 1]
    BY ONLY <1>2, <1>8, <2>1
  <2> QED BY ONLY <1>9, <2>2 DEF GoesOn
<1> HIDE DEF one
<1>11. /\ text \o one \in Seq(Symbols) /\ Len(text \o one) = Len(text) + Len(one)
       /\ Begins(text \o one, means)
  <2>1. one \in Seq(Symbols)
    BY <1>9
  <2> QED BY ONLY <1>4, <1>10, <2>1, text \in Seq(Symbols), TextGoesOn
<1>12. Len(text') = Len(text) + 1
  <2>1. Len(text') = Len(text) + Len(one)
    BY ONLY <1>5, <1>11
  <2> QED BY ONLY <1>9, <2>1
<1>13. text' \in Seq(Symbols) /\ \A k \in 1..Len(text') : text'[k] = means'[k]
  BY ONLY <1>5, <1>11 DEF Begins
<1>14. i \in 0..Len(sents) /\ i + 1 \in 0..Len(sents) /\ i < Len(sents)
  BY ONLY <1>1, i \in 0..(Len(sents) - 1)
<1>15. /\ place' = off[i] + 1 + (r + 1) /\ Len(text') = moff[i] + (r + 1)
  <2>1. off[i] \in Nat /\ moff[i] \in Nat
    BY <1>1
  <2> PICK a \in Nat, b \in Nat : a = off[i] /\ b = moff[i]
    BY <2>1
  <2>2. place = a + 1 + r /\ Len(text) = b + r
    BY <1>3
  <2>3. place' = a + 1 + (r + 1)
    <3>1. a \in Nat /\ r \in Nat
      OBVIOUS
    <3>2. place = a + 1 + r
      BY <2>2
    <3> QED BY ONLY <1>6, <3>1, <3>2
  <2>4. Len(text') = b + (r + 1)
    <3>1. b \in Nat /\ r \in Nat
      OBVIOUS
    <3>2. Len(text) = b + r
      BY <2>2
    <3> QED BY ONLY <1>12, <3>1, <3>2
  <2> QED BY <2>3, <2>4
<1>16. CASE r + 1 < Len(s)
  <2>1. Reads(sents, metas, off, moff, i, r + 1)'
    BY <1>7, <1>13, <1>14, <1>15, <1>16 DEF Reads, s
  <2> QED BY <1>13, <2>1
<1>17. CASE ~(r + 1 < Len(s))
  <2>1. r + 1 = Len(s)
    BY <1>8, <1>17
  <2>2. place' = off[i + 1] + 1 + 0 /\ Len(text') = moff[i + 1] + 0
    <3>1. off[i] \in Nat /\ moff[i] \in Nat
      BY <1>1
    <3> PICK a \in Nat, b \in Nat : a = off[i] /\ b = moff[i]
      BY <3>1
    <3>2. off[i + 1] = a + (r + 1) /\ moff[i + 1] = b + (r + 1)
      BY <1>1, <2>1
    <3>3. place' = a + 1 + (r + 1) /\ Len(text') = b + (r + 1)
      BY <1>15
    <3>4. a + 1 + (r + 1) = (a + (r + 1)) + 1 + 0 /\ b + (r + 1) = (b + (r + 1)) + 0
      BY ONLY a \in Nat, b \in Nat, r \in Nat
    <3> QED BY <3>2, <3>3, <3>4
  <2>3. Reads(sents, metas, off, moff, i + 1, 0)'
    BY <1>13, <1>14, <2>2 DEF Reads
  <2> QED BY <1>13, <2>3
<1> QED BY <1>16, <1>17

(* What json_unescape() does at a place, by what stands there.             *)
LEMMA TakesPlain ==
  ASSUME raw \in Seq(Symbols), place \in 1..Len(raw), JsonNext,
         raw[place] # Backslash \/ place = Len(raw)
  PROVE  Move(1, <<raw[place]>>)
<1>1. Len(raw) \in Nat /\ Symbol(place) = raw[place]
  BY DEF Symbol
<1>2. ~Escape
  BY <1>1 DEF Escape
<1>3. ~HexEscape(place)
  <2>1. CASE raw[place] # Backslash
    BY <1>1, <2>1 DEF HexEscape
  <2>2. CASE place = Len(raw)
    <3>1. Symbol(place + 1) = "end"
      BY <1>1, <2>2 DEF Symbol
    <3> QED BY <3>1 DEF HexEscape
  <2> QED BY <2>1, <2>2
<1> QED BY <1>2, <1>3 DEF JsonNext, TakePlain, TakeLetter, LetterEscape, TakePair,
                          Paired, TakeHalf, TakeHex, TakeMalformed

LEMMA TakesLetter ==
  ASSUME raw \in Seq(Symbols), place \in 1..(Len(raw) - 1), JsonNext,
         raw[place] = Backslash, raw[place + 1] \in {Quote, Backslash, "n"}
  PROVE  Move(2, <<IF raw[place + 1] = "n" THEN LineFeed ELSE raw[place + 1]>>)
<1>1. /\ Len(raw) \in Nat /\ Symbol(place) = Backslash
      /\ Symbol(place + 1) = raw[place + 1]
  BY DEF Symbol
<1>2. Escape /\ LetterEscape
  BY <1>1 DEF Escape, LetterEscape
<1>3. ~HexEscape(place)
  BY <1>1, SymbolsDiffer DEF HexEscape
<1> QED BY <1>2, <1>3 DEF JsonNext, TakePlain, TakeLetter, TakePair, Paired,
                          TakeHalf, TakeHex, TakeMalformed

LEMMA HexStands ==
  ASSUME raw \in Seq(Symbols), place \in 1..(Len(raw) - 2),
         raw[place] = Backslash, raw[place + 1] = "u", raw[place + 2] \in Quads
  PROVE  Escape /\ ~LetterEscape /\ HexEscape(place)
<1>1. /\ Len(raw) \in Nat /\ Symbol(place) = Backslash
      /\ Symbol(place + 1) = "u" /\ Symbol(place + 2) = raw[place + 2]
  BY DEF Symbol
<1> QED BY <1>1, SymbolsDiffer DEF Escape, LetterEscape, HexEscape

LEMMA TakesHex ==
  ASSUME raw \in Seq(Symbols), place \in 1..(Len(raw) - 2), JsonNext,
         raw[place] = Backslash, raw[place + 1] = "u",
         raw[place + 2] \in DOMAIN Hex
  PROVE  Move(3, <<Hex[raw[place + 2]]>>)
<1>1. Escape /\ ~LetterEscape /\ HexEscape(place)
  BY HexStands, HexHas
<1>2. raw[place + 2] \notin {High, Low}
  BY HexHas, SymbolsDiffer
<1> QED BY <1>1, <1>2 DEF JsonNext, TakePlain, TakeLetter, TakePair, Paired,
                          TakeHalf, TakeHex, TakeMalformed

LEMMA TakesHalf ==
  ASSUME raw \in Seq(Symbols), place \in 1..(Len(raw) - 2), JsonNext,
         raw[place] = Backslash, raw[place + 1] = "u",
         raw[place + 2] \in {High, Low}
  PROVE  IF Paired THEN Move(6, <<Astral>>) ELSE Move(3, <<Replacement>>)
<1>1. Escape /\ ~LetterEscape /\ HexEscape(place)
  BY HexStands, HexHas
<1>2. raw[place + 2] \notin DOMAIN Hex
  BY HexHas, SymbolsDiffer
<1> QED BY <1>1, <1>2 DEF JsonNext, TakePlain, TakeLetter, TakePair,
                          TakeHalf, TakeHex, TakeMalformed

LEMMA TakesMalformed ==
  ASSUME raw \in Seq(Symbols), place \in 1..(Len(raw) - 1), JsonNext,
         raw[place] = Backslash,
         \/ raw[place + 1] = "a"
         \/ place \in 1..(Len(raw) - 2) /\ raw[place + 1] = "u" /\ raw[place + 2] = "a"
  PROVE  Move(1, <<Backslash>>)
<1>1. /\ Len(raw) \in Nat /\ Symbol(place) = Backslash
      /\ Symbol(place + 1) = raw[place + 1]
  BY DEF Symbol
<1>2. Escape /\ ~LetterEscape
  BY <1>1, SymbolsDiffer DEF Escape, LetterEscape
<1>3. ~HexEscape(place)
  <2>1. CASE raw[place + 1] = "a"
    BY <1>1, <2>1, SymbolsDiffer DEF HexEscape
  <2>2. CASE place \in 1..(Len(raw) - 2) /\ raw[place + 2] = "a"
    <3>1. Symbol(place + 2) = "a"
      BY <1>1, <2>2 DEF Symbol
    <3>2. "a" \notin Quads
      BY HexHas, SymbolsDiffer
    <3> QED BY <3>1, <3>2 DEF HexEscape
  <2> QED BY <2>1, <2>2
<1> QED BY <1>2, <1>3 DEF JsonNext, TakePlain, TakeLetter, TakePair, Paired,
                          TakeHalf, TakeHex, TakeMalformed

(* What stands in raw from place q on is a piece.                          *)
Follows(s, o) ==
  /\ o \in Nat /\ Len(s) \in 1..6 /\ o + Len(s) <= Len(raw)
  /\ \A j \in 1..Len(s) : raw[o + j] = s[j]

Stands(s, q) ==
  /\ q \in 1..Len(raw) /\ raw[q] = s[1]
  /\ Len(s) >= 2 => q \in 1..(Len(raw) - 1) /\ raw[q + 1] = s[2]
  /\ Len(s) >= 3 => q \in 1..(Len(raw) - 2) /\ raw[q + 2] = s[3]
  /\ Len(s) >= 6 => /\ q \in 1..(Len(raw) - 5) /\ raw[q + 3] = s[4]
                    /\ raw[q + 4] = s[5] /\ raw[q + 5] = s[6]

LEMMA PieceStands ==
  ASSUME raw \in Seq(Symbols), NEW o, NEW q, q = o + 1, NEW s, Follows(s, o)
  PROVE  Stands(s, q)
<1> USE DEF Follows
<1>1. Len(raw) \in Nat
  OBVIOUS
<1>2. \A j \in 1..Len(s) : o + j = q + (j - 1)
  OBVIOUS
<1> PICK n \in 1..6 : n = Len(s)
  OBVIOUS
<1>3. q \in 1..Len(raw) /\ raw[q] = s[1]
  <2>1. 1 \in 1..Len(s) /\ o + 1 = q
    BY ONLY n \in 1..6, n = Len(s), q = o + 1
  <2> QED BY <1>1, <2>1
<1>4. ASSUME Len(s) >= 2 PROVE q \in 1..(Len(raw) - 1) /\ raw[q + 1] = s[2]
  <2>1. 2 \in 1..Len(s) /\ o + 2 = q + 1
    BY <1>4
  <2> QED BY <1>1, <2>1
<1>5. ASSUME Len(s) >= 3 PROVE q \in 1..(Len(raw) - 2) /\ raw[q + 2] = s[3]
  <2>1. 3 \in 1..Len(s) /\ o + 3 = q + 2
    BY <1>5
  <2> QED BY <1>1, <2>1
<1>6. ASSUME Len(s) >= 6
      PROVE  /\ q \in 1..(Len(raw) - 5) /\ raw[q + 3] = s[4]
             /\ raw[q + 4] = s[5] /\ raw[q + 5] = s[6]
  <2>1. /\ 4 \in 1..Len(s) /\ o + 4 = q + 3 /\ 5 \in 1..Len(s) /\ o + 5 = q + 4
        /\ 6 \in 1..Len(s) /\ o + 6 = q + 5
    BY <1>6
  <2> QED BY <1>1, <2>1
<1> QED BY <1>3, <1>4, <1>5, <1>6 DEF Stands

(* The first half of a pair that no second half follows.                   *)
LEMMA HalfIsAlone ==
  ASSUME NEW sents, NEW metas, NEW off, NEW moff, Agree(sents, metas, off, moff),
         raw \in Seq(Symbols), means \in Seq(Symbols),
         NEW i \in 0..(Len(sents) - 1), place \in Nat, place + 2 = off[i + 1],
         sents[i + 1] = <<Backslash, "u", High>>
  PROVE  ~Paired
<1>0. Agreed(sents, metas, off, moff)
  BY AgreeTypes
<1>1. Len(sents) \in Nat /\ Len(raw) \in Nat /\ off[Len(sents)] = Len(raw)
  BY ONLY <1>0 DEF Agreed
<1> SUFFICES ASSUME Symbol(place + 3) = Backslash, Symbol(place + 4) = "u",
                    raw[place + 5] = Low
             PROVE  FALSE
  <2>1. (place + 3) + 1 = place + 4
    OBVIOUS
  <2> QED BY <2>1 DEF Paired, HexEscape
<1>2. CASE i + 1 = Len(sents)
  <2>2. place + 3 > Len(raw)
    BY ONLY <1>1, <1>2, place \in Nat, place + 2 = off[i + 1]
  <2> QED BY <2>2, SymbolsDiffer DEF Symbol
<1>3. CASE i + 1 # Len(sents)
  <2> DEFINE s == sents[(i + 1) + 1]
             m == metas[(i + 1) + 1]
  <2>1. i + 1 \in 0..(Len(sents) - 1)
    BY <1>1, <1>3
  <2>2. /\ off[i + 1] \in Nat /\ off[i + 1] + Len(s) <= Len(raw)
        /\ Len(s) \in 1..6 /\ s \in Seq(Symbols)
        /\ \A j \in 1..Len(s) : raw[off[i + 1] + j] = s[j]
        /\ IsPiece(s, m, (i + 1) + 1 = Len(sents))
        /\ off[(i + 1) + 1] = off[i + 1] + Len(s)
    <3>1. OnePiece(sents, metas, off, moff, i + 1)
      BY <2>1, AgreeAt
    <3> QED BY ONLY <3>1 DEF OnePiece
  <2>3. s # <<Backslash, "u", Low>>
    <3>1. i + 1 \in 1..(Len(sents) - 1)
      BY <1>1, <2>1
    <3>2. \A k \in 1..(Len(sents) - 1) :
            ~(/\ sents[k] = <<Backslash, "u", High>>
              /\ sents[k + 1] = <<Backslash, "u", Low>>)
      BY DEF Agree
    <3>3. sents[i + 1] = <<Backslash, "u", High>>
      OBVIOUS
    <3> QED BY ONLY <3>1, <3>2, <3>3
  <2>4. off[i + 1 + 1] = off[i + 1] + Len(s)
    BY <2>2
  <2>5. (i + 1) + 1 = Len(sents) => off[i + 1] + Len(s) = Len(raw)
    BY ONLY <1>1, <2>4
  <2> HIDE DEF s, m
  <2>6. place + 3 = off[i + 1] + 1
    BY <2>2
  <2>7. /\ place + 3 \in 1..Len(raw) /\ raw[place + 3] = s[1]
        /\ Len(s) >= 2 => /\ place + 3 \in 1..(Len(raw) - 1)
                          /\ raw[(place + 3) + 1] = s[2]
        /\ Len(s) >= 3 => raw[(place + 3) + 2] = s[3]
    <3>1. Follows(s, off[i + 1])
      BY ONLY <2>2 DEF Follows
    <3>2. Stands(s, place + 3)
      BY <2>6, <3>1, PieceStands
    <3> QED BY ONLY <3>2 DEF Stands
  <2>8. (place + 3) + 1 = place + 4 /\ (place + 3) + 2 = place + 5
    BY ONLY place \in Nat
  <2>9. s[1] = Backslash
    BY <2>7 DEF Symbol
  <2>10. Len(s) >= 2 => s[2] = "u"
    BY <1>1, <2>7, <2>8 DEF Symbol
  <2>11. Len(s) >= 3 => s[3] = Low
    BY <2>7, <2>8
  <2>12. CASE IsPlain(s, m, (i + 1) + 1 = Len(sents))
    <3>1. Len(s) = 1 /\ (i + 1) + 1 = Len(sents)
      BY <2>9, <2>12 DEF IsPlain
    <3>2. place + 4 > Len(raw)
      BY <1>1, <2>2, <2>5, <2>6, <3>1
    <3> QED BY <3>2, SymbolsDiffer DEF Symbol
  <2>13. CASE IsLetter(s, m)
    BY <2>10, <2>13, SymbolsDiffer DEF IsLetter
  <2>14. CASE IsHex(s, m)
    <3> PICK h \in {"basic", "control"} : s = <<Backslash, "u", h>>
      BY <2>14 DEF IsHex
    <3>1. Len(s) = 3 /\ s[3] = h
      BY ONLY s = <<Backslash, "u", h>>
    <3>2. h = Low
      BY <2>11, <3>1
    <3> QED BY <3>2, SymbolsDiffer
  <2>15. CASE IsPair(s, m)
    <3>1. s = <<Backslash, "u", High, Backslash, "u", Low>>
      BY <2>15 DEF IsPair
    <3>2. Len(s) = 6 /\ s[3] = High
      BY <3>1
    <3> QED BY <2>11, <3>2, SymbolsDiffer
  <2>16. CASE IsHalf(s, m)
    <3> PICK h \in {High, Low} : s = <<Backslash, "u", h>>
      BY <2>16 DEF IsHalf
    <3>1. Len(s) = 3 /\ s[3] = h
      BY ONLY s = <<Backslash, "u", h>>
    <3>2. h = Low
      BY <2>11, <3>1
    <3> QED BY <2>3, <3>2
  <2>17. CASE IsMalformed(s, m)
    <3>1. CASE s = <<Backslash, "u", "a">>
      <4>1. Len(s) = 3 /\ s[3] = "a"
        BY ONLY <3>1
      <4>2. "a" # Low
        BY ONLY SymbolsDiffer
      <4>3. s[3] = Low
        BY <2>11, <4>1
      <4> QED BY ONLY <4>1, <4>2, <4>3
    <3>2. CASE s = <<Backslash, "a">>
      BY <2>10, <3>2, SymbolsDiffer
    <3> QED BY <2>17, <3>1, <3>2 DEF IsMalformed
  <2> QED BY <2>2, <2>12, <2>13, <2>14, <2>15, <2>16, <2>17 DEF IsPiece
<1> QED BY <1>2, <1>3

(* Between two pieces json_unescape() reads the next one, or the backslash *)
(* of one that is no escape.                                               *)
LEMMA PieceStep ==
  ASSUME NEW sents, NEW metas, NEW off, NEW moff, Agree(sents, metas, off, moff),
         raw \in Seq(Symbols), means \in Seq(Symbols),
         NEW i \in 0..(Len(sents) - 1), place = off[i] + 1, JsonNext
  PROVE  \/ Move(Len(sents[i + 1]), metas[i + 1])
         \/ IsMalformed(sents[i + 1], metas[i + 1]) /\ Move(1, <<sents[i + 1][1]>>)
<1> DEFINE s == sents[i + 1]
           m == metas[i + 1]
<1>1. /\ off[i] \in Nat /\ off[i + 1] = off[i] + Len(s) /\ off[i + 1] <= Len(raw)
      /\ Len(s) \in 1..6 /\ s \in Seq(Symbols)
      /\ \A j \in 1..Len(s) : raw[off[i] + j] = s[j]
      /\ IsPiece(s, m, i + 1 = Len(sents))
  <2>1. OnePiece(sents, metas, off, moff, i)
    BY AgreeAt
  <2> QED BY ONLY <2>1 DEF OnePiece
<1>2. i + 1 = Len(sents) => off[i] + Len(s) = Len(raw)
  <2>1. Agreed(sents, metas, off, moff)
    BY AgreeTypes
  <2> QED BY ONLY <1>1, <2>1 DEF Agreed
<1>3. s = <<Backslash, "u", High>> => ~Paired
  <2> SUFFICES ASSUME s = <<Backslash, "u", High>> PROVE ~Paired
    OBVIOUS
  <2>1. Len(s) = 3
    OBVIOUS
  <2>2. place \in Nat /\ place + 2 = off[i + 1]
    <3> PICK o \in Nat : o = off[i]
      BY <1>1
    <3>1. off[i + 1] = o + 3 /\ place = o + 1
      BY <1>1, <2>1
    <3>2. (o + 1) \in Nat /\ (o + 1) + 2 = o + 3
      BY ONLY o \in Nat
    <3> QED BY ONLY <3>1, <3>2
  <2> QED BY <2>2, HalfIsAlone
<1> HIDE DEF s, m
<1>4. Len(raw) \in Nat
  OBVIOUS
<1>5. /\ place \in 1..Len(raw) /\ raw[place] = s[1]
      /\ Len(s) >= 2 => place \in 1..(Len(raw) - 1) /\ raw[place + 1] = s[2]
      /\ Len(s) >= 3 => place \in 1..(Len(raw) - 2) /\ raw[place + 2] = s[3]
      /\ Len(s) >= 6 => /\ place \in 1..(Len(raw) - 5) /\ raw[place + 3] = s[4]
                        /\ raw[place + 4] = s[5] /\ raw[place + 5] = s[6]
  <2>1. Follows(s, off[i])
    BY ONLY <1>1 DEF Follows
  <2>2. Stands(s, place)
    BY <2>1, PieceStands
  <2> QED BY ONLY <2>2 DEF Stands
<1>6. CASE IsPlain(s, m, i + 1 = Len(sents))
  <2> PICK c \in Symbols : /\ s = <<c>> /\ m = <<c>>
                           /\ c = Backslash => i + 1 = Len(sents)
    BY <1>6 DEF IsPlain
  <2>1. Len(s) = 1 /\ s[1] = c
    OBVIOUS
  <2>2. raw[place] # Backslash \/ place = Len(raw)
    BY <1>1, <1>2, <1>5, <2>1
  <2>3. Move(1, <<c>>)
    BY <1>5, <2>1, <2>2, TakesPlain
  <2> QED BY <2>1, <2>3 DEF s, m
<1>7. CASE IsLetter(s, m)
  <2> PICK c \in {Quote, Backslash, "n"} :
        s = <<Backslash, c>> /\ m = <<IF c = "n" THEN LineFeed ELSE c>>
    BY <1>7 DEF IsLetter
  <2>1. Len(s) = 2 /\ s[1] = Backslash /\ s[2] = c
    OBVIOUS
  <2>2. /\ place \in 1..(Len(raw) - 1) /\ raw[place] = Backslash
        /\ raw[place + 1] = c
    BY ONLY <1>5, <2>1
  <2>3. Move(2, m)
    BY <2>2, TakesLetter
  <2> QED BY <2>1, <2>3 DEF s, m
<1>8. CASE IsHex(s, m)
  <2> PICK h \in {"basic", "control"} :
        s = <<Backslash, "u", h>> /\ m = <<Hex[h]>>
    BY <1>8 DEF IsHex
  <2>1. Len(s) = 3 /\ s[1] = Backslash /\ s[2] = "u" /\ s[3] = h
    OBVIOUS
  <2>2. /\ place \in 1..(Len(raw) - 2) /\ raw[place] = Backslash
        /\ raw[place + 1] = "u" /\ raw[place + 2] = h
    BY ONLY <1>5, <2>1
  <2>3. Move(3, m)
    BY <2>2, TakesHex, HexHas
  <2> QED BY <2>1, <2>3 DEF s, m
<1>9. CASE IsPair(s, m)
  <2>1. /\ s = <<Backslash, "u", High, Backslash, "u", Low>> /\ m = <<Astral>>
    BY <1>9 DEF IsPair
  <2>2. /\ Len(s) = 6 /\ s[1] = Backslash /\ s[2] = "u" /\ s[3] = High
        /\ s[4] = Backslash /\ s[5] = "u" /\ s[6] = Low
    BY <2>1
  <2>3. Paired
    <3>1. /\ Symbol(place) = Backslash /\ Symbol(place + 1) = "u"
          /\ Symbol(place + 2) = High /\ raw[place + 2] = High
          /\ Symbol(place + 3) = Backslash /\ Symbol(place + 4) = "u"
          /\ Symbol(place + 5) = Low /\ raw[place + 5] = Low
      <4>1. place \in 1..(Len(raw) - 5) /\ raw[place] = s[1]
            /\ raw[place + 1] = s[2] /\ raw[place + 2] = s[3]
            /\ raw[place + 3] = s[4] /\ raw[place + 4] = s[5]
            /\ raw[place + 5] = s[6]
        <5>1. Len(s) >= 2 /\ Len(s) >= 3 /\ Len(s) >= 6
          BY ONLY <2>2
        <5> QED BY ONLY <1>5, <5>1
      <4>2. /\ place <= Len(raw) /\ place + 1 <= Len(raw) /\ place + 2 <= Len(raw)
            /\ place + 3 <= Len(raw) /\ place + 4 <= Len(raw)
            /\ place + 5 <= Len(raw)
        <5>1. place \in 1..(Len(raw) - 5)
          BY ONLY <4>1
        <5> QED BY ONLY <1>4, <5>1
      <4> QED BY ONLY <2>2, <4>1, <4>2 DEF Symbol
    <3>2. (place + 3) + 1 = place + 4 /\ (place + 3) + 2 = place + 5
      BY <1>4, <1>5
    <3> QED BY <3>1, <3>2, HexHas DEF Paired, HexEscape
  <2>4. Move(6, m)
    BY <1>5, <2>1, <2>2, <2>3, TakesHalf
  <2> QED BY <2>2, <2>4 DEF s, m
<1>10. CASE IsHalf(s, m)
  <2> PICK h \in {High, Low} : s = <<Backslash, "u", h>> /\ m = <<Replacement>>
    BY <1>10 DEF IsHalf
  <2>1. Len(s) = 3 /\ s[1] = Backslash /\ s[2] = "u" /\ s[3] = h
    OBVIOUS
  <2>2. ~Paired
    <3>1. raw[place + 2] = h
      BY ONLY <1>5, <2>1
    <3>2. CASE h = High
      BY <1>3, <3>2
    <3>3. CASE h = Low
      BY ONLY <3>1, <3>3, SymbolsDiffer DEF Paired
    <3> QED BY ONLY <3>2, <3>3, h \in {High, Low}
  <2>3. Move(3, m)
    BY <1>5, <2>1, <2>2, TakesHalf
  <2> QED BY <2>1, <2>3 DEF s, m
<1>11. CASE IsMalformed(s, m)
  <2>1. s[1] = Backslash
    BY <1>11 DEF IsMalformed
  <2>2. Move(1, <<Backslash>>)
    <3>1. CASE s = <<Backslash, "u", "a">>
      BY <1>5, <3>1, TakesMalformed
    <3>2. CASE s = <<Backslash, "a">>
      BY <1>5, <3>2, TakesMalformed
    <3> QED BY <1>11, <3>1, <3>2 DEF IsMalformed
  <2> QED BY <1>11, <2>1, <2>2 DEF s, m
<1> QED BY <1>1, <1>6, <1>7, <1>8, <1>9, <1>10, <1>11 DEF IsPiece

LEMMA UnescapeStep == UnescapeInv /\ [JsonNext]_jsonVars => UnescapeInv'
<1> SUFFICES ASSUME UnescapeInv, [JsonNext]_jsonVars PROVE UnescapeInv'
  OBVIOUS
<1>1. /\ raw \in Seq(Symbols) /\ means \in Seq(Symbols) /\ text \in Seq(Symbols)
      /\ place \in Nat
  BY DEF UnescapeInv
<1>2. PICK sents, metas, off, moff :
        /\ Agree(sents, metas, off, moff)
        /\ \E i, r : Reads(sents, metas, off, moff, i, r)
  BY DEF UnescapeInv
<1>3. PICK i, r : Reads(sents, metas, off, moff, i, r)
  BY <1>2
<1>4. /\ i \in 0..Len(sents) /\ r \in Nat /\ place = off[i] + 1 + r
      /\ r # 0 => /\ i < Len(sents) /\ r < Len(sents[i + 1])
                  /\ IsMalformed(sents[i + 1], metas[i + 1])
  BY <1>3 DEF Reads
<1>5. Len(sents) \in Nat /\ Len(raw) \in Nat /\ off[Len(sents)] = Len(raw)
  <2>1. Agreed(sents, metas, off, moff)
    BY <1>1, <1>2, AgreeTypes
  <2> QED BY ONLY <2>1 DEF Agreed
<1>6. CASE UNCHANGED jsonVars
  <2>1. Agree(sents, metas, off, moff)'
    BY <1>2, <1>6 DEF Agree, Laid, jsonVars
  <2>2. Reads(sents, metas, off, moff, i, r)'
    BY <1>3, <1>6 DEF Reads, jsonVars
  <2> QED BY <1>1, <1>6, <2>1, <2>2 DEF UnescapeInv, jsonVars
<1>7. CASE JsonNext
  <2>1. UNCHANGED <<raw, means>> /\ place' \in Nat
    BY <1>1, <1>7 DEF JsonNext, TakePlain, TakeLetter, TakePair, TakeHalf, TakeHex,
                      TakeMalformed, Move
  <2>2. Agree(sents, metas, off, moff)'
    BY <1>2, <2>1 DEF Agree, Laid
  <2>3. i < Len(sents)
    <3> SUFFICES ASSUME i = Len(sents) PROVE FALSE
      BY <1>4, <1>5
    <3>1. place > Len(raw)
      BY <1>4, <1>5
    <3>2. Symbol(place) = "end"
      BY ONLY <1>1, <1>5, <3>1 DEF Symbol
    <3> QED BY <1>1, <1>5, <1>7, <3>1, <3>2, SymbolsDiffer
            DEF JsonNext, TakePlain, TakeLetter, LetterEscape, Escape, TakePair,
                Paired, TakeHalf, TakeHex, HexEscape, TakeMalformed
  <2>4. i \in 0..(Len(sents) - 1)
    BY <1>4, <1>5, <2>3
  <2>5. OnePiece(sents, metas, off, moff, i)
    BY <1>1, <1>2, <2>4, AgreeAt
  <2>6. /\ text' \in Seq(Symbols)
        /\ \E i2, r2 : Reads(sents, metas, off, moff, i2, r2)'
    <3>1. CASE r = 0
      <4>1. place = off[i] + 1
        <5>1. off[i] \in Nat
          BY ONLY <2>5 DEF OnePiece
        <5> QED BY ONLY <1>4, <3>1, <5>1
      <4>2. CASE Move(Len(sents[i + 1]), metas[i + 1])
        <5>1. Reads(sents, metas, off, moff, i, 0)
          BY <1>3, <3>1
        <5> QED BY <1>1, <1>2, <2>4, <4>2, <5>1, PieceIsRead
      <4>3. CASE /\ IsMalformed(sents[i + 1], metas[i + 1])
                 /\ Move(1, <<sents[i + 1][1]>>)
        <5>1. 0 < Len(sents[i + 1]) /\ 0 + 1 = 1
          <6>1. Len(sents[i + 1]) \in 1..6
            BY ONLY <2>5 DEF OnePiece
          <6> PICK n \in 1..6 : n = Len(sents[i + 1])
            BY <6>1
          <6>2. 0 < n /\ 0 + 1 = 1
            BY ONLY n \in 1..6
          <6> QED BY <6>2
        <5>2. Reads(sents, metas, off, moff, i, 0)
          BY <1>3, <3>1
        <5> QED BY <1>1, <1>2, <2>4, <4>3, <5>1, <5>2, SymbolIsRead
      <4> QED BY <1>1, <1>2, <1>7, <2>4, <4>1, <4>2, <4>3, PieceStep
    <3>2. CASE r # 0
      <4> DEFINE s == sents[i + 1]
      <4>1. r < Len(s) /\ IsMalformed(s, metas[i + 1])
        BY <1>4, <3>2
      <4>2. /\ off[i] \in Nat /\ off[i + 1] = off[i] + Len(s)
            /\ off[i + 1] <= Len(raw) /\ Len(s) \in Nat
            /\ \A j \in 1..Len(s) : raw[off[i] + j] = s[j]
        BY ONLY <2>5 DEF OnePiece
      <4> HIDE DEF s
      <4>3. r + 1 \in 1..Len(s)
        BY ONLY <1>4, <4>1, <4>2
      <4>4. raw[off[i] + (r + 1)] = s[r + 1]
        BY <4>2, <4>3
      <4>5. /\ place = off[i] + (r + 1) /\ place \in 1..Len(raw)
        <5>1. off[i] \in Nat /\ r \in Nat /\ r < Len(s) /\ Len(s) \in Nat
              /\ off[i] + Len(s) <= Len(raw) /\ place = off[i] + 1 + r
          BY ONLY <1>4, <4>1, <4>2
        <5> QED BY ONLY <1>5, <5>1
      <4>6. s[r + 1] # Backslash
        <5>1. CASE s = <<Backslash, "u", "a">>
          <6>1. r \in 1..2
            BY <1>4, <3>2, <4>1, <5>1
          <6> QED BY <5>1, <6>1, SymbolsDiffer
        <5>2. CASE s = <<Backslash, "a">>
          <6>1. r = 1
            BY <1>4, <3>2, <4>1, <5>2
          <6> QED BY <5>2, <6>1, SymbolsDiffer
        <5> QED BY <4>1, <5>1, <5>2 DEF IsMalformed
      <4>7. Move(1, <<s[r + 1]>>)
        BY <1>1, <1>7, <4>4, <4>5, <4>6, TakesPlain
      <4> QED BY <1>1, <1>2, <1>3, <1>4, <2>4, <4>1, <4>7, SymbolIsRead DEF s
    <3> QED BY <3>1, <3>2
  <2> QED BY <1>1, <2>1, <2>2, <2>6 DEF UnescapeInv
<1> QED BY <1>6, <1>7 DEF jsonVars

(* When all is read, all is as it was meant.                               *)
LEMMA ReadIsMeant == UnescapeInv => TextSurvives
<1> SUFFICES ASSUME UnescapeInv, place > Len(raw) PROVE text = means
  BY DEF TextSurvives
<1>1. /\ raw \in Seq(Symbols) /\ means \in Seq(Symbols) /\ text \in Seq(Symbols)
  BY DEF UnescapeInv
<1>2. PICK sents, metas, off, moff :
        /\ Agree(sents, metas, off, moff)
        /\ \E i, r : Reads(sents, metas, off, moff, i, r)
  BY DEF UnescapeInv
<1>3. PICK i, r : Reads(sents, metas, off, moff, i, r)
  BY <1>2
<1>4. /\ i \in 0..Len(sents) /\ r \in Nat
      /\ place = off[i] + 1 + r /\ Len(text) = moff[i] + r
      /\ r # 0 => i < Len(sents) /\ r < Len(sents[i + 1])
      /\ \A k \in 1..Len(text) : text[k] = means[k]
  BY <1>3 DEF Reads
<1>5. /\ Len(sents) \in Nat /\ Len(raw) \in Nat /\ Len(means) \in Nat
      /\ off[Len(sents)] = Len(raw) /\ moff[Len(sents)] = Len(means)
  <2>1. Agreed(sents, metas, off, moff)
    BY <1>1, <1>2, AgreeTypes
  <2> QED BY ONLY <2>1 DEF Agreed
<1>6. i = Len(sents) /\ r = 0
  <2> SUFFICES ASSUME i # Len(sents) PROVE FALSE
    BY <1>4
  <2>1. i \in 0..(Len(sents) - 1)
    BY <1>4, <1>5
  <2>2. /\ off[i] \in Nat /\ Len(sents[i + 1]) \in 1..6
        /\ off[i] + Len(sents[i + 1]) <= Len(raw)
    <3>1. OnePiece(sents, metas, off, moff, i)
      BY <1>1, <1>2, <2>1, AgreeAt
    <3> QED BY ONLY <3>1 DEF OnePiece
  <2>3. r < Len(sents[i + 1])
    <3> PICK n \in 1..6 : n = Len(sents[i + 1])
      BY <2>2
    <3>1. r # 0 => r < n
      BY <1>4
    <3>2. r < n
      BY ONLY n \in 1..6, <3>1
    <3> QED BY <3>2
  <2>4. place > Len(raw) /\ place = off[i] + 1 + r
    BY <1>4
  <2> QED BY ONLY <1>4, <1>5, <2>2, <2>3, <2>4
<1>7. Len(text) = Len(means)
  BY <1>4, <1>5, <1>6
<1> QED BY <1>1, <1>4, <1>7

(* What a sender may write is a piece, wherever it stands.                 *)
LEMMA SentIsPiece ==
  ASSUME NEW p \in Pieces, NEW last
  PROVE  /\ IsPiece(p.sent, p.means, last)
         /\ p.sent \in Seq(Symbols) /\ p.means \in Seq(Symbols)
<1>1. IsPiece(p.sent, p.means, last)
  <2>1. CASE p \in {[sent |-> <<"a">>, means |-> <<"a">>],
                    [sent |-> <<"n">>, means |-> <<"n">>]}
    <3> PICK c \in {"a", "n"} : p.sent = <<c>> /\ p.means = <<c>>
      BY <2>1
    <3> QED BY SymbolsHold, SymbolsDiffer DEF IsPiece, IsPlain
  <2>2. CASE p \in {[sent |-> <<Backslash, "n">>, means |-> <<LineFeed>>],
                    [sent |-> <<Backslash, Backslash>>, means |-> <<Backslash>>]}
    <3>1. PICK c \in {"n", Backslash} :
            /\ p.sent = <<Backslash, c>>
            /\ p.means = <<IF c = "n" THEN LineFeed ELSE c>>
      BY <2>2, SymbolsDiffer
    <3> QED BY <3>1 DEF IsPiece, IsLetter
  <2>3. CASE p = [sent |-> <<Backslash, "u", "basic">>, means |-> <<"e-acute">>]
    <3>1. p.sent = <<Backslash, "u", "basic">> /\ p.means = <<Hex["basic"]>>
      BY <2>3, HexHas
    <3> QED BY <3>1 DEF IsPiece, IsHex
  <2>4. CASE p = [sent |-> <<Backslash, "u", High, Backslash, "u", Low>>,
                  means |-> <<Astral>>]
    <3>1. /\ p.sent = <<Backslash, "u", High, Backslash, "u", Low>>
          /\ p.means = <<Astral>>
      BY <2>4
    <3> QED BY <3>1 DEF IsPiece, IsPair
  <2>5. CASE p \in {[sent |-> <<Backslash, "u", High>>, means |-> <<Replacement>>],
                    [sent |-> <<Backslash, "u", Low>>, means |-> <<Replacement>>]}
    <3> PICK h \in {High, Low} :
          p.sent = <<Backslash, "u", h>> /\ p.means = <<Replacement>>
      BY <2>5
    <3> QED BY DEF IsPiece, IsHalf
  <2>6. CASE p \in {[sent |-> <<Backslash, "u", "a">>,
                     means |-> <<Backslash, "u", "a">>],
                    [sent |-> <<Backslash, "a">>, means |-> <<Backslash, "a">>]}
    <3>1. /\ p.sent \in {<<Backslash, "u", "a">>, <<Backslash, "a">>}
          /\ p.means = p.sent
      BY <2>6
    <3> QED BY <3>1 DEF IsPiece, IsMalformed
  <2> QED BY <2>1, <2>2, <2>3, <2>4, <2>5, <2>6 DEF Pieces
<1> QED BY <1>1, PieceTypes

(* A character that is posted is a piece, with its escape.                 *)
LEMMA EscapeIsPiece ==
  ASSUME NEW c \in Symbols, NEW last
  PROVE  /\ IsPiece(EscapeChar(c), <<c>>, last)
         /\ EscapeChar(c) \in Seq(Symbols) /\ <<c>> \in Seq(Symbols)
         /\ EscapeChar(c) # <<Backslash, "u", High>>
<1>1. IsPiece(EscapeChar(c), <<c>>, last) /\ EscapeChar(c) # <<Backslash, "u", High>>
  <2>1. CASE c \in {Quote, Backslash}
    <3>1. EscapeChar(c) = <<Backslash, c>> /\ c # "n"
      <4>1. EscapeChar(c) = <<Backslash, c>>
        BY <2>1, EscapedDiffer DEF EscapeChar
      <4>2. c # "n"
        BY <2>1, SymbolsDiffer
      <4> QED BY <4>1, <4>2
    <3> QED BY <2>1, <3>1 DEF IsPiece, IsLetter
  <2>2. CASE c = LineFeed
    <3>1. EscapeChar(c) = <<Backslash, "n">>
      BY <2>2, EscapedDiffer DEF EscapeChar
    <3> QED BY <2>2, <3>1 DEF IsPiece, IsLetter
  <2>3. CASE c = Control
    <3>1. EscapeChar(c) = <<Backslash, "u", "control">>
      BY <2>3, EscapedDiffer DEF EscapeChar
    <3>2. Hex["control"] = c /\ "control" # High
      BY <2>3, HexHas, SymbolsDiffer
    <3> QED BY <3>1, <3>2 DEF IsPiece, IsHex
  <2>4. CASE c \notin {Quote, Backslash, LineFeed, Control}
    <3>1. EscapeChar(c) = <<c>>
      BY <2>4 DEF EscapeChar
    <3> QED BY <2>4, <3>1 DEF IsPiece, IsPlain
  <2> QED BY <2>1, <2>2, <2>3, <2>4
<1> QED BY <1>1, PieceTypes

LEMMA MessageAgrees ==
  ASSUME NEW m \in Messages, NEW end \in {<<>>, <<Backslash>>},
         raw = FlattenSeq([i \in 1..Len(m) |-> m[i].sent]) \o end,
         means = FlattenSeq([i \in 1..Len(m) |-> m[i].means]) \o end
  PROVE  /\ raw \in Seq(Symbols) /\ means \in Seq(Symbols)
         /\ \E sents, metas, off, moff : Agree(sents, metas, off, moff)
<1> DEFINE ss == [i \in 1..Len(m) |-> m[i].sent]
           ms == [i \in 1..Len(m) |-> m[i].means]
<1>1. /\ m \in Seq(Pieces) /\ Len(m) \in Nat
      /\ \A i \in 1..(Len(m) - 1) : ~(Lone(m[i], High) /\ Lone(m[i + 1], Low))
  <2>1. m \in UNION {[1..n -> Pieces] : n \in 0..MaxPieces}
    BY DEF Messages, BoundedSeq, SeqOf
  <2>2. PICK n \in 0..MaxPieces : m \in [1..n -> Pieces]
    BY <2>1
  <2>3. n \in Nat
    BY TextsAssumption
  <2>4. m \in Seq(Pieces) /\ Len(m) \in Nat
    BY <2>2, <2>3
  <2> QED BY <2>4 DEF Messages
<1>2. \A i \in 1..Len(m) : m[i] \in Pieces
  BY <1>1
<1>3. /\ ss \in Seq(Seq(Symbols)) /\ ms \in Seq(Seq(Symbols))
      /\ Len(ss) = Len(m) /\ Len(ms) = Len(m)
  <2>1. \A i \in 1..Len(m) :
          m[i].sent \in Seq(Symbols) /\ m[i].means \in Seq(Symbols)
    BY <1>2, SentIsPiece
  <2> QED BY <1>1, <2>1
<1>4. \A i \in 1..Len(m) :
        /\ ss[i] = m[i].sent /\ ms[i] = m[i].means
        /\ \A last : IsPiece(ss[i], ms[i], last)
  BY <1>2, SentIsPiece
<1>5. \A i \in 1..(Len(m) - 1) :
        ~(ss[i] = <<Backslash, "u", High>> /\ ss[i + 1] = <<Backslash, "u", Low>>)
  <2>1. \A i \in 1..(Len(m) - 1) : i \in 1..Len(m) /\ i + 1 \in 1..Len(m)
    BY <1>1
  <2> QED BY <1>1, <1>4, <2>1 DEF Lone
<1>6. raw = FlattenSeq(ss) \o end /\ means = FlattenSeq(ms) \o end
  OBVIOUS
<1> HIDE DEF ss, ms
<1>7. /\ FlattenSeq(ss) \in Seq(Symbols) /\ FlattenSeq(ms) \in Seq(Symbols)
      /\ \E off : Laid(ss, FlattenSeq(ss), off)
      /\ \E moff : Laid(ms, FlattenSeq(ms), moff)
  BY <1>3, FlattenIsLaid
<1>8. PICK off, moff : /\ Laid(ss, FlattenSeq(ss), off)
                       /\ Laid(ms, FlattenSeq(ms), moff)
  BY <1>7
<1>9. CASE end = <<>>
  <2>1. raw = FlattenSeq(ss) /\ means = FlattenSeq(ms)
    BY <1>6, <1>7, <1>9
  <2>2. Agree(ss, ms, off, moff)
    BY <1>3, <1>4, <1>5, <1>8, <2>1 DEF Agree
  <2> QED BY <1>7, <2>1, <2>2
<1>10. CASE end = <<Backslash>>
  <2> DEFINE ss2 == Append(ss, end)
             ms2 == Append(ms, end)
  <2>1. end \in Seq(Symbols)
    BY <1>10, SymbolsHold
  <2>2. /\ ss2 \in Seq(Seq(Symbols)) /\ FlattenSeq(ss) \o end \in Seq(Symbols)
        /\ \E off2 : Laid(ss2, FlattenSeq(ss) \o end, off2)
    BY <1>3, <1>7, <1>8, <2>1, LaidAppend
  <2>3. /\ ms2 \in Seq(Seq(Symbols)) /\ FlattenSeq(ms) \o end \in Seq(Symbols)
        /\ \E moff2 : Laid(ms2, FlattenSeq(ms) \o end, moff2)
    BY <1>3, <1>7, <1>8, <2>1, LaidAppend
  <2>4. /\ Len(ss2) = Len(m) + 1 /\ Len(ms2) = Len(m) + 1
        /\ ss2[Len(m) + 1] = end /\ ms2[Len(m) + 1] = end
        /\ \A i \in 1..Len(m) : ss2[i] = ss[i] /\ ms2[i] = ms[i]
    BY <1>3
  <2> HIDE DEF ss2, ms2
  <2>5. ASSUME NEW i \in 1..Len(ss2) PROVE IsPiece(ss2[i], ms2[i], i = Len(ss2))
    <3>1. CASE i \in 1..Len(m)
      BY <1>4, <2>4, <3>1
    <3>2. CASE i = Len(ss2)
      BY <1>10, <2>4, <3>2, SymbolsHold DEF IsPiece, IsPlain
    <3> QED BY <1>1, <2>4, <3>1, <3>2
  <2>6. ASSUME NEW i \in 1..(Len(ss2) - 1)
        PROVE  ~(/\ ss2[i] = <<Backslash, "u", High>>
                 /\ ss2[i + 1] = <<Backslash, "u", Low>>)
    <3>1. i \in 1..Len(m) /\ (i \in 1..(Len(m) - 1) \/ i = Len(m))
      BY <1>1, <2>4
    <3>2. CASE i \in 1..(Len(m) - 1)
      <4>1. i + 1 \in 1..Len(m)
        BY <1>1, <3>2
      <4> QED BY <1>5, <2>4, <3>1, <3>2, <4>1
    <3>3. CASE i = Len(m)
      <4>1. ss2[i + 1] = <<Backslash>>
        BY <1>10, <2>4, <3>3
      <4> QED BY <4>1
    <3> QED BY <3>1, <3>2, <3>3
  <2>7. PICK off2, moff2 : Laid(ss2, raw, off2) /\ Laid(ms2, means, moff2)
    BY <1>6, <2>2, <2>3
  <2>8. Agree(ss2, ms2, off2, moff2)
    BY <2>2, <2>3, <2>4, <2>5, <2>6, <2>7 DEF Agree
  <2> QED BY <1>6, <2>2, <2>3, <2>8
<1> QED BY <1>9, <1>10

LEMMA PostAgrees ==
  ASSUME means \in Posts, raw = Escaped(means)
  PROVE  /\ raw \in Seq(Symbols) /\ means \in Seq(Symbols)
         /\ \E sents, metas, off, moff : Agree(sents, metas, off, moff)
<1>1. means \in Seq(Symbols) /\ Len(means) \in Nat
      /\ \A i \in 1..Len(means) : means[i] \in Symbols
  <2>1. means \in Seq(Symbols)
    BY SymbolsHold
  <2> QED BY <2>1
<1>2. PICK ss : ss = Escapes(means)
  OBVIOUS
<1>3. PICK ms : ms = [i \in 1..Len(means) |-> <<means[i]>>]
  OBVIOUS
<1>4. PICK moff : moff = [i \in 0..Len(means) |-> i]
  OBVIOUS
<1>5. /\ Len(ss) = Len(means) /\ Len(ms) = Len(means)
      /\ ss \in Seq(Seq(Symbols)) /\ ms \in Seq(Seq(Symbols))
      /\ \A i \in 1..Len(means) :
           ss[i] = EscapeChar(means[i]) /\ ms[i] = <<means[i]>>
  <2>1. \A i \in 1..Len(means) :
          EscapeChar(means[i]) \in Seq(Symbols) /\ <<means[i]>> \in Seq(Symbols)
    BY <1>1, EscapeIsPiece
  <2>2. /\ Len(ss) = Len(means) /\ ss \in Seq(Seq(Symbols))
        /\ \A i \in 1..Len(means) : ss[i] = EscapeChar(means[i])
    <3>1. ss = [i \in 1..Len(means) |-> EscapeChar(means[i])]
      BY <1>2 DEF Escapes
    <3> QED BY ONLY <1>1, <2>1, <3>1
  <2>3. /\ Len(ms) = Len(means) /\ ms \in Seq(Seq(Symbols))
        /\ \A i \in 1..Len(means) : ms[i] = <<means[i]>>
    BY ONLY <1>1, <1>3, <2>1
  <2> QED BY <2>2, <2>3
<1>6. raw = FlattenSeq(ss)
  BY <1>2 DEF Escaped, Escapes
<1>7. PICK off : raw \in Seq(Symbols) /\ Laid(ss, raw, off)
  BY <1>5, <1>6, FlattenIsLaid
<1>8. Laid(ms, means, moff)
  <2>1. ASSUME NEW i \in 1..Len(means) PROVE Len(ms[i]) = 1 /\ ms[i][1] = means[i]
    <3>1. ms[i] = <<means[i]>>
      BY <1>5
    <3> QED BY ONLY <3>1
  <2>2. \A i \in 1..Len(means) : moff[i] = i /\ moff[i - 1] = i - 1
    BY <1>1, <1>4
  <2>3. moff \in [0..Len(means) -> Nat] /\ moff[0] = 0 /\ moff[Len(means)] = Len(means)
    BY <1>1, <1>4
  <2>4. ASSUME NEW i \in 1..Len(ms)
        PROVE  /\ moff[i] = moff[i - 1] + Len(ms[i])
               /\ \A j \in 1..Len(ms[i]) : means[moff[i - 1] + j] = ms[i][j]
    <3>1. i \in 1..Len(means) /\ i \in Nat
      BY <1>1, <1>5
    <3>2. Len(ms[i]) = 1 /\ ms[i][1] = means[i] /\ moff[i] = i /\ moff[i - 1] = i - 1
      BY <2>1, <2>2, <3>1
    <3>3. ASSUME NEW j \in 1..Len(ms[i]) PROVE moff[i - 1] + j = i /\ j = 1
      <4>1. j \in 1..1
        BY <3>2
      <4> QED BY ONLY <3>1, <3>2, <4>1
    <3>4. i = (i - 1) + 1
      BY ONLY <3>1
    <3> QED BY <3>2, <3>3, <3>4
  <2>5. Len(ms) = Len(means)
    BY <1>5
  <2> QED BY <2>3, <2>4, <2>5, Zenon DEF Laid
<1>9. ASSUME NEW i \in 1..Len(ss)
      PROVE  /\ IsPiece(ss[i], ms[i], i = Len(ss))
             /\ ss[i] # <<Backslash, "u", High>>
  <2>1. i \in 1..Len(means)
    BY <1>5
  <2>2. means[i] \in Symbols /\ ss[i] = EscapeChar(means[i]) /\ ms[i] = <<means[i]>>
    BY <1>1, <1>5, <2>1
  <2> QED BY <2>2, EscapeIsPiece
<1>10. \A i \in 1..(Len(ss) - 1) : i \in 1..Len(ss)
  BY <1>1, <1>5
<1>11. Agree(ss, ms, off, moff)
  BY <1>5, <1>7, <1>8, <1>9, <1>10 DEF Agree
<1> QED BY <1>1, <1>7, <1>11

LEMMA JsonInitHolds == JsonInit => UnescapeInv
<1> SUFFICES ASSUME JsonInit PROVE UnescapeInv
  OBVIOUS
<1>1. /\ raw \in Seq(Symbols) /\ means \in Seq(Symbols)
      /\ \E sents, metas, off, moff : Agree(sents, metas, off, moff)
  BY MessageAgrees, PostAgrees DEF JsonInit
<1>2. place = 1 /\ text = <<>>
  BY DEF JsonInit
<1>3. PICK sents, metas, off, moff : Agree(sents, metas, off, moff)
  BY <1>1
<1>4. Len(sents) \in Nat /\ off[0] = 0 /\ moff[0] = 0
  <2>1. Agreed(sents, metas, off, moff)
    BY <1>1, <1>3, AgreeTypes
  <2> QED BY ONLY <2>1 DEF Agreed
<1>5. Reads(sents, metas, off, moff, 0, 0)
  BY <1>2, <1>4 DEF Reads
<1> QED BY <1>1, <1>2, <1>3, <1>5 DEF UnescapeInv

(* Titles and descriptions reach the reviewer as they were written, and    *)
(* what the bot posts is read back as it was posted.                       *)
THEOREM TextSurvivesTheorem == JsonSpec => []TextSurvives
BY JsonInitHolds, UnescapeStep, ReadIsMeant, PTL DEF JsonSpec

-----------------------------------------------------------------------------
(* How many numbers of a set are not above one of them.                    *)
Rank(S, i) == Cardinality({j \in S : j <= i})

LEMMA RankDiffers ==
  ASSUME NEW S \in SUBSET Nat, IsFiniteSet(S)
  PROVE  /\ \A i \in S : Rank(S, i) \in 1..Cardinality(S)
         /\ \A i, k \in S : i < k => Rank(S, i) < Rank(S, k)
<1>1. ASSUME NEW i \in S
      PROVE  /\ IsFiniteSet({j \in S : j <= i}) /\ Rank(S, i) \in Nat
             /\ Rank(S, i) # 0 /\ Rank(S, i) <= Cardinality(S)
  <2> DEFINE T == {j \in S : j <= i}
  <2>1. T \in SUBSET S /\ i \in T
    OBVIOUS
  <2>2. Rank(S, i) = Cardinality(T)
    BY DEF Rank
  <2> HIDE DEF T
  <2>3. IsFiniteSet(T) /\ Cardinality(T) <= Cardinality(S)
    BY <2>1, FS_Subset
  <2>4. Cardinality(T) \in Nat /\ Cardinality(T) # 0
    BY <2>1, <2>3, FS_CardinalityType, FS_EmptySet
  <2> QED BY <2>2, <2>3, <2>4 DEF T
<1>2. ASSUME NEW i \in S, NEW k \in S, i < k PROVE Rank(S, i) < Rank(S, k)
  <2> DEFINE T == {j \in S : j <= i}
             U == {j \in S : j <= k}
  <2>1. T \in SUBSET U /\ k \in U /\ k \notin T
    <3>1. \A j \in S : j \in Nat
      OBVIOUS
    <3>2. \A j \in S : j <= i => j <= k
      BY <1>2, <3>1
    <3>3. ~(k <= i) /\ k <= k
      BY <1>2, <3>1
    <3> QED BY <3>2, <3>3
  <2>2. IsFiniteSet(U) /\ Rank(S, i) = Cardinality(T) /\ Rank(S, k) = Cardinality(U)
        /\ Rank(S, i) \in Nat /\ Rank(S, k) \in Nat
    BY <1>1 DEF Rank
  <2> HIDE DEF T, U
  <2>3. Cardinality(T) <= Cardinality(U) /\ Cardinality(U) # Cardinality(T)
    BY <2>1, <2>2, FS_Subset
  <2> QED BY <2>2, <2>3
<1>3. Cardinality(S) \in Nat
  BY FS_CardinalityType
<1>4. \A i \in S : Rank(S, i) \in 1..Cardinality(S)
  <2> SUFFICES ASSUME NEW i \in S PROVE Rank(S, i) \in 1..Cardinality(S)
    OBVIOUS
  <2>1. Rank(S, i) \in Nat /\ Rank(S, i) # 0 /\ Rank(S, i) <= Cardinality(S)
    BY <1>1
  <2> QED BY ONLY <1>3, <2>1
<1>5. \A i, k \in S : i < k => Rank(S, i) < Rank(S, k)
  BY <1>2
<1> QED BY <1>4, <1>5

LEMMA AscendingIs ==
  ASSUME NEW S \in SUBSET Nat, IsFiniteSet(S)
  PROVE  /\ Cardinality(S) \in Nat /\ Ascending(S) \in Seq(S)
         /\ Len(Ascending(S)) = Cardinality(S)
         /\ \A k \in 1..Cardinality(S) : Rank(S, Ascending(S)[k]) = k
<1>1. Cardinality(S) \in Nat
  BY FS_CardinalityType
<1> DEFINE n == Cardinality(S)
           rank == [i \in S |-> Rank(S, i)]
<1>2. rank \in [S -> 1..n] /\ \A i \in S : rank[i] = Rank(S, i)
  BY RankDiffers
<1> HIDE DEF rank
<1>3. ASSUME NEW i \in S, NEW k \in S, rank[i] = rank[k] PROVE i = k
  <2>1. ~(Rank(S, i) < Rank(S, k)) /\ ~(Rank(S, k) < Rank(S, i))
    BY <1>1, <1>2, <1>3, RankDiffers
  <2>2. ~(i < k) /\ ~(k < i)
    BY <2>1, RankDiffers
  <2> QED BY <2>2
<1>4. rank \in Injection(S, 1..n)
  BY <1>2, <1>3 DEF Injection, IsInjective
<1>5. IsFiniteSet(1..n) /\ Cardinality(1..n) = n
  BY <1>1, FS_Interval
<1>6. rank \in Surjection(S, 1..n)
  BY <1>4, <1>5, FS_Injection
<1>7. \A k \in 1..n : \E i \in S : Rank(S, i) = k
  BY <1>2, <1>6 DEF Surjection
<1>8. ASSUME NEW k \in 1..n
      PROVE  Ascending(S)[k] \in S /\ Rank(S, Ascending(S)[k]) = k
  <2>1. Ascending(S)[k] = CHOOSE i \in S : Rank(S, i) = k
    BY DEF Ascending, Rank
  <2> QED BY <1>7, <2>1
<1>9. Ascending(S) \in Seq(S) /\ Len(Ascending(S)) = n
  <2> PICK A : A = Ascending(S)
    OBVIOUS
  <2>1. A = [k \in 1..n |-> CHOOSE i \in S : Rank(S, i) = k]
    BY DEF Ascending, Rank
  <2>2. DOMAIN A = 1..n /\ A = [k \in 1..n |-> A[k]]
    BY <2>1
  <2>3. \A k \in 1..n : A[k] \in S
    BY <1>8
  <2>4. A \in [1..n -> S]
    BY <2>2, <2>3
  <2>5. n \in Nat
    BY <1>1
  <2> HIDE DEF n
  <2>6. A \in Seq(S) /\ Len(A) = n
    BY ONLY <2>4, <2>5
  <2> QED BY <2>6
<1> QED BY <1>1, <1>8, <1>9

(* Numbers that are in order already.                                      *)
LEMMA AscendingOf ==
  ASSUME NEW n \in Nat, NEW a \in [1..n -> Nat],
         \A i, k \in 1..n : i < k => a[i] < a[k]
  PROVE  Ascending({a[i] : i \in 1..n}) = a
<1> DEFINE S == {a[i] : i \in 1..n}
<1>1. S \in SUBSET Nat /\ \A i \in 1..n : a[i] \in S
  OBVIOUS
<1>2. ASSUME NEW m \in 0..n
      PROVE  LET T == {a[i] : i \in 1..m} IN IsFiniteSet(T) /\ Cardinality(T) = m
  <2> DEFINE T == {a[i] : i \in 1..m}
             f == [i \in 1..m |-> a[i]]
  <2>1. 1..m \subseteq 1..n /\ m \in Nat
    OBVIOUS
  <2>2. ASSUME NEW i \in 1..m, NEW k \in 1..m, a[i] = a[k] PROVE i = k
    <3>1. i \in 1..n /\ k \in 1..n /\ a[i] \in Nat /\ a[k] \in Nat
      BY <2>1
    <3>2. ~(i < k) /\ ~(k < i)
      BY <2>2, <3>1
    <3> QED BY <3>1, <3>2
  <2>3. f \in Bijection(1..m, T)
    <3>1. f \in [1..m -> T] /\ \A i \in 1..m : f[i] = a[i]
      OBVIOUS
    <3>2. \A x \in T : \E i \in 1..m : f[i] = x
      OBVIOUS
    <3> HIDE DEF f, T
    <3> QED BY <2>2, <3>1, <3>2 
              DEF Bijection, Injection, Surjection, IsInjective
  <2>4. IsFiniteSet(1..m) /\ Cardinality(1..m) = m
    BY <2>1, FS_Interval
  <2> HIDE DEF f, T
  <2>5. ExistsBijection(1..m, T)
    BY ONLY <2>3 DEF ExistsBijection
  <2>6. IsFiniteSet(T) /\ Cardinality(T) = m
    BY <2>4, <2>5, FS_Bijection
  <2> QED BY <2>6 DEF T
<1>3. IsFiniteSet(S) /\ Cardinality(S) = n
  <2>1. n \in 0..n
    OBVIOUS
  <2> QED BY ONLY <1>2, <2>1
<1>4. ASSUME NEW m \in 1..n PROVE Rank(S, a[m]) = m
  <2>1. {j \in S : j <= a[m]} = {a[i] : i \in 1..m}
    <3>1. ASSUME NEW i \in 1..n PROVE a[i] <= a[m] <=> i <= m
      <4>1. a[i] \in Nat /\ a[m] \in Nat /\ i \in Nat /\ m \in Nat
        OBVIOUS
      <4>2. (i < m => a[i] < a[m]) /\ (m < i => a[m] < a[i])
        OBVIOUS
      <4>3. i = m => a[i] = a[m]
        OBVIOUS
      <4> QED BY <4>1, <4>2, <4>3
    <3>2. \A i \in 1..m : i \in 1..n /\ i <= m
      OBVIOUS
    <3>3. \A i \in 1..n : i <= m => i \in 1..m
      OBVIOUS
    <3> QED BY <3>1, <3>2, <3>3
  <2>2. m \in 0..n
    OBVIOUS
  <2> QED BY <1>2, <2>1, <2>2 DEF Rank
<1> HIDE DEF S
<1>5. /\ Ascending(S) \in Seq(S) /\ Len(Ascending(S)) = n
      /\ \A k \in 1..n : Rank(S, Ascending(S)[k]) = k
  BY <1>1, <1>3, AscendingIs
<1>6. ASSUME NEW k \in 1..n PROVE Ascending(S)[k] = a[k]
  <2>1. Ascending(S)[k] \in S
    BY <1>5
  <2>2. PICK m \in 1..n : Ascending(S)[k] = a[m]
    BY <2>1 DEF S
  <2>3. m = k
    BY <1>4, <1>5, <2>2
  <2> QED BY <2>2, <2>3
<1>7. Ascending(S) = [k \in 1..n |-> a[k]]
  <2>1. Ascending(S) = [k \in 1..n |-> Ascending(S)[k]]
    BY <1>5
  <2> QED BY <1>6, <2>1
<1> QED BY <1>7 DEF S

LineKinds == {"git", "old", "new", "null", "hunk", "text"}
Lines == [kind : LineKinds, path : Paths \cup {Unknown}]

LEMMA HeaderIs ==
  ASSUME NEW f \in Files
  PROVE  \/ Header(f) = <<>> /\ f.kind # "delete"
         \/ /\ f.kind # "delete"
            /\ \E l \in {Text, Old(f.path)} : Header(f) = <<l, New(f.path)>>
         \/ /\ f.kind = "delete"
            /\ Header(f) = <<Old(f.path), Line("null", Unknown)>>
<1>1. CASE f.kind = "delete"
  BY <1>1 DEF Header
<1>2. CASE f.kind = "add"
  BY <1>2 DEF Header
<1>3. CASE f.kind = "edit"
  BY <1>3 DEF Header
<1>4. CASE f.kind \notin {"edit", "add", "delete"}
  BY <1>4 DEF Header
<1> QED BY <1>1, <1>2, <1>3, <1>4

LEMMA LinesAre ==
  ASSUME NEW p \in Paths
  PROVE  /\ Text \in Lines /\ Old(p) \in Lines /\ New(p) \in Lines
         /\ Line("git", p) \in Lines /\ Line("null", Unknown) \in Lines
         /\ Line("hunk", Unknown) \in Lines
         /\ "git" \notin {Text.kind, Old(p).kind, New(p).kind,
                          Line("null", Unknown).kind, Line("hunk", Unknown).kind}
         /\ Line("git", p).kind = "git" /\ Line("git", p).path = p
BY DEF Lines, LineKinds, Line, Text, Old, New

LEMMA BodyIs ==
  ASSUME NEW b \in Bodies
  PROVE  /\ b \in Seq(Lines) /\ Len(b) \in Nat
         /\ \A j \in 1..Len(b) : b[j].kind # "git"
<1>1. CASE b = <<Text>>
  <2>1. Text \in Lines /\ Text.kind # "git"
    BY DEF Lines, LineKinds, Line, Text
  <2> QED BY <1>1, <2>1
<1>2. ASSUME NEW p \in Plain, b = <<Line("new", p), Text>>
      PROVE  /\ b \in Seq(Lines) /\ Len(b) \in Nat
             /\ \A j \in 1..Len(b) : b[j].kind # "git"
  <2>1. /\ Text \in Lines /\ Text.kind # "git"
        /\ Line("new", p) \in Lines /\ Line("new", p).kind # "git"
    BY DEF Lines, LineKinds, Line, Text, Paths
  <2> QED BY <1>2, <2>1
<1> QED BY <1>1, <1>2 DEF Bodies

(* A section: its first line, and the only one of its kind, is that of git; *)
(* the lines of its header come before the first hunk.                      *)
LEMMA SectionIs ==
  ASSUME NEW f \in Files
  PROVE  /\ Section(f) \in Seq(Lines) /\ Len(Section(f)) \in Nat \ {0}
         /\ Section(f)[1] = Line("git", f.path)
         /\ \A j \in 2..Len(Section(f)) : Section(f)[j].kind # "git"
         /\ Header(f) = <<>> => Len(Section(f)) = 1
         /\ Header(f) # <<>> =>
              /\ Len(Section(f)) >= 4 /\ Section(f)[2] = Header(f)[1]
              /\ Section(f)[3] = Header(f)[2]
              /\ Section(f)[4] = Line("hunk", Unknown)
<1>0. f.path \in Paths /\ f.body \in Bodies
  BY DEF Files
<1>1. CASE Header(f) = <<>>
  <2>1. Section(f) = <<Line("git", f.path)>> \o <<>> \o <<>>
    BY <1>1 DEF Section
  <2>2. Section(f) = <<Line("git", f.path)>>
    BY <2>1
  <2>3. Line("git", f.path) \in Lines
    BY <1>0, LinesAre
  <2> HIDE <1>0
  <2> QED BY <1>1, <2>2, <2>3
<1>2. CASE Header(f) # <<>>
  <2>1. PICK l, k : /\ Header(f) = <<l, k>> /\ l \in Lines /\ k \in Lines
                    /\ l.kind # "git" /\ k.kind # "git"
    BY <1>0, <1>2, HeaderIs, LinesAre
  <2>2. PICK g, h : /\ g = Line("git", f.path) /\ h = Line("hunk", Unknown)
                    /\ g \in Lines /\ h \in Lines /\ h.kind # "git"
    BY <1>0, LinesAre
  <2>3. PICK b : /\ b = f.body /\ b \in Seq(Lines) /\ Len(b) \in Nat
                 /\ \A j \in 1..Len(b) : b[j].kind # "git"
    BY <1>0, BodyIs
  <2>4. Section(f) = <<g>> \o <<l, k>> \o (<<h>> \o b)
    BY <1>2, <2>1, <2>2, <2>3 DEF Section
  <2>5. PICK s : s = <<g>> \o <<l, k>> \o (<<h>> \o b)
    OBVIOUS
  <2>6. /\ s \in Seq(Lines) /\ Len(s) = 4 + Len(b)
        /\ s[1] = g /\ s[2] = l /\ s[3] = k /\ s[4] = h
        /\ \A j \in 1..Len(b) : s[4 + j] = b[j]
    <3>1. PICK t : t = <<h>> \o b
      OBVIOUS
    <3>2. /\ t \in Seq(Lines) /\ Len(t) = 1 + Len(b) /\ t[1] = h
          /\ \A j \in 1..Len(b) : t[1 + j] = b[j]
      BY ONLY <2>2, <2>3, <3>1
    <3>3. PICK u : u = <<g>> \o <<l, k>>
      OBVIOUS
    <3>4. /\ u \in Seq(Lines) /\ Len(u) = 3 /\ u[1] = g /\ u[2] = l /\ u[3] = k
      BY ONLY <2>1, <2>2, <3>3
    <3>5. s = u \o t
      BY ONLY <2>5, <3>1, <3>3
    <3>6. /\ s \in Seq(Lines) /\ Len(s) = 3 + Len(t)
          /\ \A j \in 1..3 : s[j] = u[j]
          /\ \A j \in 1..Len(t) : s[3 + j] = t[j]
      <4>1. u \in Seq(Lines) /\ t \in Seq(Lines) /\ Len(u) = 3
        BY ONLY <3>2, <3>4
      <4>2. /\ s \in Seq(Lines) /\ Len(s) = Len(u) + Len(t)
            /\ \A j \in 1..Len(u) : s[j] = u[j]
            /\ \A j \in 1..Len(t) : s[Len(u) + j] = t[j]
        <5>1. u \in Seq(Lines) /\ t \in Seq(Lines)
          BY <4>1
        <5>2. /\ u \o t \in Seq(Lines) /\ Len(u \o t) = Len(u) + Len(t)
              /\ \A j \in 1..Len(u) : (u \o t)[j] = u[j]
              /\ \A j \in 1..Len(t) : (u \o t)[Len(u) + j] = t[j]
          BY <5>1, Joined
        <5> QED BY <3>5, <5>2
      <4> QED BY ONLY <4>1, <4>2
    <3>7. \A j \in 1..Len(b) : 1 + j \in 1..Len(t) /\ 3 + (1 + j) = 4 + j
      BY ONLY <2>3, <3>2
    <3>8. s[4] = h
      <4>1. 1 \in 1..Len(t) /\ 3 + 1 = 4
        BY ONLY <2>3, <3>2
      <4> QED BY ONLY <3>2, <3>6, <4>1
    <3>9. \A j \in 1..Len(b) : s[4 + j] = b[j]
      BY ONLY <3>2, <3>6, <3>7
    <3>10. s[1] = g /\ s[2] = l /\ s[3] = k
      BY ONLY <3>4, <3>6
    <3>11. Len(s) = 4 + Len(b)
      BY ONLY <2>3, <3>2, <3>6
    <3> QED BY <3>6, <3>8, <3>9, <3>10, <3>11
  <2>7. ASSUME NEW j \in 2..Len(s) PROVE s[j].kind # "git"
    <3>1. j \in {2, 3, 4} \/ (j - 4 \in 1..Len(b) /\ 4 + (j - 4) = j)
      BY ONLY <2>3, <2>6, j \in 2..Len(s)
    <3>2. CASE j \in {2, 3, 4}
      BY <2>1, <2>2, <2>6, <3>2
    <3>3. CASE j - 4 \in 1..Len(b) /\ 4 + (j - 4) = j
      BY <2>3, <2>6, <3>3
    <3> QED BY <3>1, <3>2, <3>3
  <2>8. Len(s) \in Nat \ {0} /\ Len(s) >= 4
    BY ONLY <2>3, <2>6
  <2>9. Header(f)[1] = l /\ Header(f)[2] = k
    BY <2>1
  <2>10. Section(f) = s
    BY <2>4, <2>5
  <2> QED BY ONLY <1>2, <2>2, <2>6, <2>7, <2>8, <2>9, <2>10
<1> QED BY <1>1, <1>2

LEMMA OnlyOne ==
  ASSUME NEW n \in Int
  PROVE  Min({n}) = n /\ Max({n}) = n
BY DEF Min, Max

(* section_path() finds the path of the file, one it may be taken for, or  *)
(* none, and it knows which files were deleted, when git says so.          *)
LEMMA PathIs ==
  ASSUME NEW f \in Files
  PROVE  /\ SectionPath(Section(f)).path \in Names(f) \cup {Unknown}
         /\ SectionPath(Section(f)).deleted \in BOOLEAN
         /\ SectionPath(Section(f)).deleted => f.kind = "delete"
         /\ f.kind = "delete" => \/ SectionPath(Section(f)).deleted
                                 \/ SectionPath(Section(f)).path = Unknown
<1> PICK s : s = Section(f)
  OBVIOUS
<1> DEFINE ends == {i \in HeaderLines(s) : s[i].kind \in {"new", "null"}}
           olds == {i \in HeaderLines(s) : i < Min(ends) /\ s[i].kind = "old"}
<1>0. f.path \in Paths
  BY DEF Files
<1>1. /\ Len(s) \in Nat \ {0} /\ s[1] = Line("git", f.path)
      /\ Header(f) = <<>> => Len(s) = 1
      /\ Header(f) # <<>> =>
           /\ Len(s) >= 4 /\ s[2] = Header(f)[1] /\ s[3] = Header(f)[2]
           /\ s[4] = Line("hunk", Unknown)
  BY SectionIs
<1>2. SectionPath(s) =
        CASE ends = {} -> [path |-> FromGitLine(s[1].path), deleted |-> FALSE]
          [] ends # {} /\ s[Min(ends)].kind = "new" ->
               [path |-> s[Min(ends)].path, deleted |-> FALSE]
          [] OTHER -> [path |-> IF olds = {} THEN Unknown
                                ELSE s[Max(olds)].path, deleted |-> TRUE]
  BY DEF SectionPath
<1>3. s[1].kind = "git" /\ s[1].path = f.path
  BY <1>1 DEF Line
<1>4. FromGitLine(f.path) = IF f.path \in Spaced THEN Rest
                            ELSE IF f.path \in Quoted THEN Unknown ELSE f.path
  BY DEF FromGitLine
<1> HIDE DEF ends, olds
<1>5. CASE Header(f) = <<>>
  <2>1. HeaderLines(s) \subseteq {1}
    <3>1. Len(s) = 1
      BY <1>1, <1>5
    <3>2. 1..Len(s) = {1}
      BY ONLY <3>1
    <3> QED BY ONLY <3>2 DEF HeaderLines
  <2>2. ends = {}
    BY <1>3, <2>1 DEF ends
  <2>3. SectionPath(s) = [path |-> FromGitLine(f.path), deleted |-> FALSE]
    BY <1>2, <1>3, <2>2
  <2>4. f.kind # "delete"
    BY <1>5, HeaderIs
  <2>5. FromGitLine(f.path) \in Names(f) \cup {Unknown}
    BY <1>4, <1>5 DEF Names
  <2> QED BY <2>3, <2>4, <2>5
<1>6. CASE Header(f) # <<>>
  <2>1. HeaderLines(s) = {1, 2, 3}
    <3>1. /\ s[1].kind # "hunk" /\ s[2].kind # "hunk" /\ s[3].kind # "hunk"
          /\ s[4].kind = "hunk"
      BY <1>1, <1>3, <1>6, HeaderIs DEF Line, Old, New, Text
    <3>2. \A i \in 1..Len(s) : (4 \in 1..i) \/ (i \in {1, 2, 3})
      BY <1>1
    <3>3. \A i \in {1, 2, 3} : i \in 1..Len(s) /\ 1..i \subseteq {1, 2, 3}
      BY <1>1, <1>6
    <3> QED BY <3>1, <3>2, <3>3 DEF HeaderLines
  <2>2. CASE f.kind = "delete"
    <3>1. s[2] = Old(f.path) /\ s[3] = Line("null", Unknown)
      BY <1>1, <1>6, <2>2, HeaderIs
    <3>2. s[3].kind = "null" /\ s[2].kind \in {"old", "text"}
          /\ (s[2].kind = "old" => s[2].path = f.path)
      BY <3>1 DEF Line, Old, Text
    <3>3. ends = {3}
      BY <1>3, <2>1, <3>2 DEF ends
    <3>4. Min(ends) = 3
      BY <3>3, OnlyOne
    <3>5. olds \subseteq {2} /\ (olds # {} => s[2].kind = "old")
      BY <1>3, <2>1, <3>2, <3>4 DEF olds
    <3>6. olds # {} => Max(olds) = 2
      <4>1. olds # {} => olds = {2}
        BY <3>5
      <4> QED BY <4>1, OnlyOne
    <3>7. SectionPath(s) = [path |-> IF olds = {} THEN Unknown
                                     ELSE s[Max(olds)].path, deleted |-> TRUE]
      BY <1>2, <3>2, <3>3, <3>4
    <3> QED BY <2>2, <3>2, <3>5, <3>6, <3>7 DEF Names
  <2>3. CASE f.kind # "delete"
    <3>1. s[2] \in {Text, Old(f.path)} /\ s[3] = New(f.path)
      BY <1>1, <1>6, <2>3, HeaderIs
    <3>2. s[2].kind \notin {"new", "null"}
      BY <3>1 DEF Line, Old, Text
    <3>3. CASE f.path \in Quoted
      <4>1. s[3].kind = "text"
        BY <3>1, <3>3 DEF New, Text, Line
      <4>2. ends = {}
        BY <1>3, <2>1, <3>2, <4>1 DEF ends
      <4>3. SectionPath(s) = [path |-> FromGitLine(f.path), deleted |-> FALSE]
        BY <1>2, <1>3, <4>2
      <4>4. FromGitLine(f.path) \in Names(f) \cup {Unknown}
        BY <1>4, <3>3 DEF Names
      <4> QED BY <2>3, <4>3, <4>4
    <3>4. CASE f.path \notin Quoted
      <4>1. s[3].kind = "new" /\ s[3].path = f.path
        BY <3>1, <3>4 DEF New, Line
      <4>2. ends = {3}
        BY <1>3, <2>1, <3>2, <4>1 DEF ends
      <4>3. Min(ends) = 3
        BY <4>2, OnlyOne
      <4>4. SectionPath(s) = [path |-> f.path, deleted |-> FALSE]
        BY <1>2, <4>1, <4>2, <4>3
      <4> QED BY <2>3, <4>4 DEF Names
    <3> QED BY <3>3, <3>4
  <2> QED BY <2>2, <2>3
<1> QED BY <1>5, <1>6

LEMMA SubSeqIs ==
  ASSUME NEW S, NEW list \in Seq(S), NEW m \in Nat, NEW n \in Nat,
         m <= n, n <= Len(list)
  PROVE  /\ SubSeq(list, m + 1, n) \in Seq(S)
         /\ Len(SubSeq(list, m + 1, n)) = n - m
         /\ \A i \in 1..(n - m) : SubSeq(list, m + 1, n)[i] = list[m + i]
OBVIOUS

LEMMA SameParts ==
  ASSUME NEW S, NEW a \in Seq(S), NEW b \in Seq(S), Len(a) = Len(b),
         \A j \in 1..Len(a) : a[j] = b[j]
  PROVE  a = b
OBVIOUS

(* A diff, of some files with or without a line in front.                  *)
DiffOf(first, fs) ==
  first \o FlattenSeq([i \in 1..Len(fs) |-> Section(fs[i])])

(* Its lines: behind off[i - 1] begins the section of the i-th file.       *)
LiesAt(first, fs, lines, off) ==
  /\ first \in Seq(Lines) /\ lines \in Seq(Lines)
  /\ Len(first) \in {0, 1} /\ (Len(first) = 1 => first[1] = Text)
  /\ \A j \in 1..Len(first) : lines[j] = first[j]
  /\ off \in [0..Len(fs) -> Nat] /\ off[0] = 0
  /\ Len(lines) = Len(first) + off[Len(fs)]
  /\ \A i \in 1..Len(fs) :
       /\ off[i] = off[i - 1] + Len(Section(fs[i]))
       /\ off[i - 1] < off[i] /\ off[i] <= off[Len(fs)]
       /\ \A j \in 1..Len(Section(fs[i])) :
            lines[Len(first) + (off[i - 1] + j)] = Section(fs[i])[j]
  /\ \A i \in 0..Len(fs), k \in 0..Len(fs) : i <= k => off[i] <= off[k]
  /\ \A p \in 1..off[Len(fs)] : \E i \in 1..Len(fs) :
       off[i - 1] < p /\ p <= off[i]

LEMMA DiffLies ==
  ASSUME NEW fs \in Seq(Files), NEW first \in {<<>>, <<Text>>}
  PROVE  \E off : LiesAt(first, fs, DiffOf(first, fs), off)
<1> DEFINE n == Len(fs)
<1>0. n \in Nat /\ \A i \in 1..n : fs[i] \in Files
  OBVIOUS
<1>1. PICK secs : secs = [i \in 1..n |-> Section(fs[i])]
  OBVIOUS
<1>2. \A i \in 1..n : secs[i] = Section(fs[i]) /\ Section(fs[i]) \in Seq(Lines)
  BY <1>0, <1>1, SectionIs
<1>3. secs \in Seq(Seq(Lines)) /\ Len(secs) = n
  <2> HIDE DEF n
  <2> QED BY <1>0, <1>1, <1>2
<1>4. PICK flat : flat = FlattenSeq(secs)
  OBVIOUS
<1>5. PICK off : flat \in Seq(Lines) /\ Laid(secs, flat, off)
  BY <1>3, <1>4, FlattenIsLaid
<1>6. /\ first \in Seq(Lines) /\ Len(first) \in {0, 1}
      /\ (Len(first) = 1 => first[1] = Text)
  <2>1. Text \in Lines
    BY DEF Lines, LineKinds, Text, Line
  <2>2. CASE first = <<>>
    BY <2>2
  <2>3. CASE first = <<Text>>
    BY <2>1, <2>3
  <2> QED BY <2>2, <2>3
<1>7. PICK lines : lines = first \o flat
  OBVIOUS
<1>8. DiffOf(first, fs) = lines
  BY <1>1, <1>4, <1>7 DEF DiffOf
<1>9. /\ lines \in Seq(Lines) /\ Len(lines) = Len(first) + Len(flat)
      /\ \A j \in 1..Len(first) : lines[j] = first[j]
      /\ \A j \in 1..Len(flat) : lines[Len(first) + j] = flat[j]
  <2>1. flat \in Seq(Lines) /\ first \in Seq(Lines)
    BY <1>5, <1>6
  <2> QED BY <1>7, <2>1, Joined
<1>10. /\ off \in [0..n -> Nat] /\ off[0] = 0 /\ off[n] = Len(flat)
       /\ \A i \in 1..n : off[i] = off[i - 1] + Len(secs[i])
       /\ \A i \in 1..n : \A j \in 1..Len(secs[i]) : flat[off[i - 1] + j] = secs[i][j]
  BY <1>3, <1>5 DEF Laid
<1>11. \A i \in 0..n, k \in 0..n : i <= k => off[i] <= off[k]
  <2> SUFFICES ASSUME NEW i \in 0..n, NEW k \in 0..n, i <= k PROVE off[i] <= off[k]
    OBVIOUS
  <2>1. i \in 0..Len(secs) /\ k \in i..Len(secs)
    BY <1>0, <1>3
  <2> QED BY <1>3, <1>5, <2>1, LaidMonotone
<1>12. \A p \in 1..off[n] : \E i \in 1..n : off[i - 1] < p /\ p <= off[i]
  BY <1>3, <1>5, <1>10, LaidCovers
<1> HIDE DEF n
<1>13. ASSUME NEW i \in 1..n
       PROVE  /\ off[i] = off[i - 1] + Len(secs[i])
              /\ off[i - 1] < off[i] /\ off[i] <= off[n]
              /\ \A j \in 1..Len(secs[i]) :
                   lines[Len(first) + (off[i - 1] + j)] = secs[i][j]
  <2>1. i \in 0..n /\ i - 1 \in 0..n /\ n \in 0..n /\ i <= n
    BY <1>0
  <2>2. Len(secs[i]) \in Nat \ {0}
    BY <1>0, <1>2, SectionIs
  <2>3. off[i] = off[i - 1] + Len(secs[i]) /\ off[i] \in Nat /\ off[i - 1] \in Nat
    BY <1>10, <2>1
  <2>4. off[i - 1] < off[i] /\ off[i] <= off[n] /\ off[n] \in Nat
    BY <1>10, <1>11, <2>1, <2>2, <2>3
  <2>5. ASSUME NEW j \in 1..Len(secs[i])
        PROVE  lines[Len(first) + (off[i - 1] + j)] = secs[i][j]
    <3>1. off[i - 1] + j \in 1..Len(flat)
      BY <1>10, <2>2, <2>3, <2>4
    <3> QED BY <1>9, <1>10, <3>1
  <2> QED BY <2>3, <2>4, <2>5
<1>14. Len(lines) = Len(first) + off[n]
  BY <1>9, <1>10
<1>15. ASSUME NEW i \in 1..n
       PROVE  /\ off[i] = off[i - 1] + Len(Section(fs[i]))
              /\ off[i - 1] < off[i] /\ off[i] <= off[n]
              /\ \A j \in 1..Len(Section(fs[i])) :
                   lines[Len(first) + (off[i - 1] + j)] = Section(fs[i])[j]
  BY <1>2, <1>13
<1>16. LiesAt(first, fs, lines, off)
  BY <1>6, <1>9, <1>10, <1>11, <1>12, <1>14, <1>15 DEF LiesAt, n
<1> QED BY <1>8, <1>16

(* split_diff_by_file() takes a diff apart into the sections of its files. *)
LEMMA SplitIs ==
  ASSUME NEW fs \in Seq(Files), NEW first \in {<<>>, <<Text>>}
  PROVE  LET split == Split(DiffOf(first, fs))
         IN  /\ split.preamble = first
             /\ split.files =
                  [i \in 1..Len(fs) |->
                     [text |-> Section(fs[i]),
                      path |-> SectionPath(Section(fs[i])).path,
                      deleted |-> SectionPath(Section(fs[i])).deleted]]
<1> PICK lines : lines = DiffOf(first, fs)
  OBVIOUS
<1>1. PICK off : LiesAt(first, fs, lines, off)
  BY DiffLies
<1> DEFINE n == Len(fs)
           a == Len(first)
<1>2. /\ n \in Nat /\ a \in {0, 1} /\ Len(lines) = a + off[n]
      /\ lines \in Seq(Lines) /\ first \in Seq(Lines)
      /\ (a = 1 => first[1] = Text) /\ \A j \in 1..a : lines[j] = first[j]
      /\ \A i \in 0..n : off[i] \in Nat
      /\ off[0] = 0
  <2>1. n \in Nat
    OBVIOUS
  <2>2. /\ a \in {0, 1} /\ Len(lines) = a + off[n]
        /\ lines \in Seq(Lines) /\ first \in Seq(Lines) /\ off[0] = 0
        /\ (a = 1 => first[1] = Text) /\ \A j \in 1..a : lines[j] = first[j]
    BY ONLY <1>1 DEF LiesAt
  <2>3. off \in [0..n -> Nat]
    BY ONLY <1>1 DEF LiesAt
  <2> QED BY <2>1, <2>2, <2>3
<1>3. \A i \in 1..n :
        /\ off[i] = off[i - 1] + Len(Section(fs[i]))
        /\ off[i - 1] < off[i] /\ off[i] <= off[n]
        /\ \A j \in 1..Len(Section(fs[i])) :
             lines[a + (off[i - 1] + j)] = Section(fs[i])[j]
  BY <1>1 DEF LiesAt
<1>4. /\ \A i \in 0..n, k \in 0..n : i <= k => off[i] <= off[k]
      /\ \A p \in 1..off[n] : \E i \in 1..n : off[i - 1] < p /\ p <= off[i]
  BY <1>1 DEF LiesAt
<1>5. \A i \in 1..n : /\ Section(fs[i]) \in Seq(Lines)
                      /\ Len(Section(fs[i])) \in Nat \ {0}
                      /\ Section(fs[i])[1].kind = "git"
                      /\ \A j \in 2..Len(Section(fs[i])) : Section(fs[i])[j].kind # "git"
  <2> SUFFICES ASSUME NEW i \in 1..n
               PROVE  /\ Section(fs[i]) \in Seq(Lines)
                      /\ Len(Section(fs[i])) \in Nat \ {0}
                      /\ Section(fs[i])[1].kind = "git"
                      /\ \A j \in 2..Len(Section(fs[i])) :
                           Section(fs[i])[j].kind # "git"
    OBVIOUS
  <2>1. PICK f \in Files : f = fs[i]
    OBVIOUS
  <2>2. /\ Section(f) \in Seq(Lines) /\ Len(Section(f)) \in Nat \ {0}
        /\ Section(f)[1] = Line("git", f.path)
        /\ \A j \in 2..Len(Section(f)) : Section(f)[j].kind # "git"
    BY SectionIs
  <2>3. Section(f)[1].kind = "git"
    BY <2>2 DEF Line
  <2> QED BY <2>1, <2>2, <2>3
<1> HIDE DEF n, a
<1>6. \A i \in 1..n : /\ i \in 0..n /\ i - 1 \in 0..n
                      /\ off[i] \in Nat /\ off[i - 1] \in Nat
  <2>1. \A i \in 1..n : i \in 0..n /\ i - 1 \in 0..n
    BY ONLY <1>2
  <2> QED BY <1>2, <2>1
<1>7. PICK at : at = [i \in 1..n |-> (a + off[i - 1]) + 1]
  OBVIOUS
<1>8. at \in [1..n -> Nat] /\ \A i \in 1..n : at[i] = (a + off[i - 1]) + 1
  <2>1. \A i \in 1..n : (a + off[i - 1]) + 1 \in Nat
    BY <1>2, <1>6
  <2> QED BY <1>7, <2>1
<1>9. ASSUME NEW i \in 1..n, NEW k \in 1..n, i < k PROVE at[i] < at[k]
  <2>1. i \in 0..n /\ k - 1 \in 0..n /\ i <= k - 1
    BY ONLY <1>2, <1>9, i \in 1..n, k \in 1..n
  <2>2. off[i - 1] < off[i] /\ off[i] <= off[k - 1]
    BY <1>3, <1>4, <2>1
  <2>3. off[i - 1] \in Nat /\ off[i] \in Nat /\ off[k - 1] \in Nat /\ a \in Nat
    BY <1>2, <1>6
  <2>4. (a + off[i - 1]) + 1 < (a + off[k - 1]) + 1
    BY ONLY <2>2, <2>3
  <2> QED BY <1>8, <2>4
<1>10. ASSUME NEW i \in 1..n
       PROVE  at[i] \in 1..Len(lines) /\ lines[at[i]].kind = "git"
  <2>1. /\ off[i - 1] \in Nat /\ off[i] \in Nat /\ off[i - 1] < off[i]
        /\ off[i] <= off[n] /\ off[n] \in Nat /\ a \in Nat
        /\ at[i] = (a + off[i - 1]) + 1
    <3>1. off[n] \in Nat /\ a \in Nat
      <4>1. n \in 0..n
        BY <1>2
      <4> QED BY <1>2, <4>1
    <3>2. off[i - 1] \in Nat /\ off[i] \in Nat
      BY <1>6
    <3>3. off[i - 1] < off[i] /\ off[i] <= off[n]
      BY <1>3
    <3>4. at[i] = (a + off[i - 1]) + 1
      BY <1>8
    <3> QED BY <3>1, <3>2, <3>3, <3>4
  <2>2. Len(lines) = a + off[n]
    BY <1>2
  <2>3. at[i] \in 1..Len(lines) /\ at[i] = a + (off[i - 1] + 1)
    BY ONLY <2>1, <2>2, SMTT(30)
  <2>4. lines[a + (off[i - 1] + 1)] = Section(fs[i])[1]
    <3>1. 1 \in 1..Len(Section(fs[i]))
      BY <1>5
    <3> QED BY <1>3, <3>1
  <2> QED BY <1>5, <2>3, <2>4
<1>11. ASSUME NEW q \in 1..Len(lines), lines[q].kind = "git"
       PROVE  \E i \in 1..n : q = at[i]
  <2>1. ~(q <= a)
    <3> SUFFICES ASSUME q <= a PROVE FALSE
      OBVIOUS
    <3>1. a = 1 /\ q = 1
      BY <1>2
    <3>2. lines[1] = Text
      BY <1>2, <3>1
    <3> QED BY <1>11, <3>1, <3>2 DEF Text, Line
  <2>2. q - a \in 1..off[n] /\ q = a + (q - a)
    <3>1. n \in 0..n
      BY <1>2
    <3>2. off[n] \in Nat /\ a \in Nat /\ Len(lines) = a + off[n]
      BY <1>2, <3>1
    <3> QED BY ONLY <2>1, <3>2, q \in 1..Len(lines)
  <2>3. PICK i \in 1..n : off[i - 1] < q - a /\ q - a <= off[i]
    BY <1>4, <2>2
  <2>4. PICK d \in 1..Len(Section(fs[i])) : q - a = off[i - 1] + d
    <3>1. /\ off[i - 1] \in Nat /\ off[i] = off[i - 1] + Len(Section(fs[i]))
          /\ Len(Section(fs[i])) \in Nat
      BY <1>3, <1>5, <1>6
    <3>2. PICK p \in Nat : p = q - a
      BY <2>2
    <3>3. p - off[i - 1] \in 1..Len(Section(fs[i])) /\ p = off[i - 1] + (p - off[i - 1])
      BY <2>3, <3>1, <3>2
    <3> QED BY <3>2, <3>3
  <2>5. lines[q] = Section(fs[i])[d]
    BY <1>3, <2>2, <2>4
  <2>6. d = 1
    <3>1. ~(d \in 2..Len(Section(fs[i])))
      BY <1>5, <1>11, <2>5
    <3>2. Len(Section(fs[i])) \in Nat
      BY <1>5
    <3> QED BY <3>1, <3>2
  <2>7. q = (a + off[i - 1]) + 1
    <3>1. off[i - 1] \in Nat /\ a \in Nat
      BY <1>2, <1>6
    <3> QED BY <2>2, <2>4, <2>6, <3>1
  <2> QED BY <1>8, <2>7
<1>12. {q \in 1..Len(lines) : lines[q].kind = "git"} = {at[i] : i \in 1..n}
  BY <1>10, <1>11
<1>13. Starts(lines) = at
  BY <1>2, <1>8, <1>9, <1>12, AscendingOf DEF Starts
<1>14. Len(at) = n
  BY ONLY <1>2, <1>8
<1>15. ASSUME NEW i \in 1..n
       PROVE  SubSeq(lines, at[i], IF i < n THEN at[i + 1] - 1 ELSE Len(lines))
                = Section(fs[i])
  <2>1. /\ off[i - 1] \in Nat /\ off[i] \in Nat /\ off[i - 1] < off[i]
        /\ off[i] <= off[n] /\ off[n] \in Nat /\ a \in Nat
        /\ at[i] = (a + off[i - 1]) + 1
    <3>1. off[n] \in Nat /\ a \in Nat
      <4>1. n \in 0..n
        BY <1>2
      <4> QED BY <1>2, <4>1
    <3>2. off[i - 1] \in Nat /\ off[i] \in Nat
      BY <1>6
    <3>3. off[i - 1] < off[i] /\ off[i] <= off[n]
      BY <1>3
    <3>4. at[i] = (a + off[i - 1]) + 1
      BY <1>8
    <3> QED BY <3>1, <3>2, <3>3, <3>4
  <2>2. (IF i < n THEN at[i + 1] - 1 ELSE Len(lines)) = a + off[i]
    <3>1. CASE i < n
      <4>1. i + 1 \in 1..n /\ (i + 1) - 1 = i
        BY <1>2, <3>1
      <4>2. at[i + 1] = (a + off[i]) + 1
        BY <1>8, <4>1
      <4> QED BY <2>1, <3>1, <4>2
    <3>2. CASE ~(i < n)
      <4>1. i = n
        BY <1>2, <3>2
      <4> QED BY <1>2, <3>2, <4>1
    <3> QED BY <3>1, <3>2
  <2> DEFINE part == SubSeq(lines, (a + off[i - 1]) + 1, a + off[i])
  <2>3. PICK b \in Nat, e \in Nat : b = a + off[i - 1] /\ e = a + off[i]
    BY <2>1
  <2>4. b <= e /\ e <= Len(lines) /\ e - b = Len(Section(fs[i]))
    <3>1. off[i] = off[i - 1] + Len(Section(fs[i])) /\ Len(Section(fs[i])) \in Nat
          /\ Len(lines) = a + off[n]
      BY <1>2, <1>3, <1>5
    <3>2. PICK x \in Nat, y \in Nat, z \in Nat, l \in Nat :
            /\ x = off[i - 1] /\ y = off[i] /\ z = off[n]
            /\ l = Len(Section(fs[i]))
      BY <2>1, <3>1
    <3>3. /\ x < y /\ y <= z /\ a \in Nat /\ b = a + x /\ e = a + y /\ y = x + l
          /\ Len(lines) = a + z
      BY <2>1, <2>3, <3>1, <3>2
    <3>4. b <= e /\ e <= Len(lines) /\ e - b = l
      BY ONLY <3>3, x \in Nat, y \in Nat, z \in Nat, l \in Nat
    <3> QED BY <3>2, <3>4
  <2>5. /\ SubSeq(lines, b + 1, e) \in Seq(Lines)
        /\ Len(SubSeq(lines, b + 1, e)) = e - b
        /\ \A j \in 1..(e - b) : SubSeq(lines, b + 1, e)[j] = lines[b + j]
    <3>1. lines \in Seq(Lines) /\ b <= e /\ e <= Len(lines)
      BY <1>2, <2>4
    <3> QED BY <3>1, SubSeqIs, Zenon
  <2>6. part = SubSeq(lines, b + 1, e)
    BY <2>3
  <2> HIDE DEF part
  <2>7. /\ part \in Seq(Lines) /\ Len(part) = Len(Section(fs[i]))
        /\ \A j \in 1..Len(part) : part[j] = lines[b + j]
    BY <2>4, <2>5, <2>6
  <2>8. ASSUME NEW j \in 1..Len(part) PROVE part[j] = Section(fs[i])[j]
    <3>1. b + j = a + (off[i - 1] + j)
      BY <2>1, <2>3, SMTT(30)
    <3>2. j \in 1..Len(Section(fs[i]))
      BY <2>7
    <3> QED BY <1>3, <2>7, <3>1, <3>2
  <2>9. part = Section(fs[i])
    BY <1>5, <2>7, <2>8, SameParts
  <2> QED BY <2>1, <2>2, <2>9 DEF part
<1>16. Split(lines).files =
         [i \in 1..n |-> [text |-> Section(fs[i]),
                          path |-> SectionPath(Section(fs[i])).path,
                          deleted |-> SectionPath(Section(fs[i])).deleted]]
  BY <1>13, <1>14, <1>15 DEF Split
<1>17. Split(lines).preamble = IF at = <<>> THEN lines ELSE SubSeq(lines, 1, at[1] - 1)
  BY <1>13 DEF Split
<1>18. Split(lines).preamble = first
  <2>1. CASE n = 0
    <3>1. at = <<>>
      BY <1>8, <2>1
    <3>2. Len(lines) = Len(first) /\ \A j \in 1..Len(lines) : lines[j] = first[j]
      BY <1>2, <2>1 DEF a
    <3>3. lines = first
      BY <1>2, <3>2, SameParts
    <3> QED BY <1>17, <3>1, <3>3
  <2>2. CASE n # 0
    <3>1. at # <<>> /\ 1 \in 1..n /\ 1 - 1 = 0
      BY <1>2, <1>14, <2>2
    <3>2. at[1] = (a + 0) + 1 /\ at[1] - 1 = a /\ a \in Nat
      BY <1>2, <1>8, <3>1
    <3>3. a <= Len(lines) /\ 0 <= a /\ 0 + 1 = 1 /\ a - 0 = a
      <4>1. at[1] \in 1..Len(lines)
        BY <1>10, <3>1
      <4>2. Len(lines) \in Nat
        BY <1>2
      <4> QED BY ONLY <3>2, <4>1, <4>2
    <3>4. /\ SubSeq(lines, 0 + 1, a) \in Seq(Lines)
          /\ Len(SubSeq(lines, 0 + 1, a)) = a - 0
          /\ \A j \in 1..(a - 0) : SubSeq(lines, 0 + 1, a)[j] = lines[0 + j]
      BY <1>2, <3>2, <3>3, SubSeqIs
    <3>5. PICK part : part = SubSeq(lines, 1, a)
      OBVIOUS
    <3>6. /\ part \in Seq(Lines) /\ Len(part) = a
          /\ \A j \in 1..a : part[j] = lines[j]
      BY <3>2, <3>3, <3>4, <3>5
    <3>7. Len(part) = Len(first) /\ \A j \in 1..Len(part) : part[j] = first[j]
      BY <1>2, <3>6 DEF a
    <3>8. part = first
      BY <1>2, <3>6, <3>7, SameParts
    <3> QED BY <1>17, <3>1, <3>2, <3>5, <3>8
  <2> QED BY <2>1, <2>2
<1> QED BY <1>16, <1>18 DEF n

(* The sizes of some files, added up.                                      *)
LEMMA SizeUnfolds ==
  ASSUME NEW found, Len(found) \in Nat
  PROVE  \E F : /\ F = [n \in 0..Len(found) |->
                          IF n = 0 THEN 0 ELSE F[n - 1] + found[n].size]
                /\ SizeOf(found) = F[Len(found)]
<1> DEFINE Upto(m, F) == F = [n \in 0..m |-> IF n = 0 THEN 0
                                             ELSE F[n - 1] + found[n].size]
           T == {m \in Nat : \E F : Upto(m, F)}
<1>1. 0 \in T
  <2> DEFINE Z == [n \in 0..0 |-> 0]
  <2>1. Z = [n \in 0..0 |-> IF n = 0 THEN 0 ELSE Z[n - 1] + found[n].size]
    <3>1. \A n \in 0..0 : n = 0
      OBVIOUS
    <3> QED BY <3>1
  <2> HIDE DEF Z
  <2>2. Upto(0, Z)
    BY <2>1
  <2> QED BY <2>2
<1>2. ASSUME NEW m \in 0..(Len(found) - 1), m \in T PROVE m + 1 \in T
  <2>1. PICK F : Upto(m, F)
    BY <1>2
  <2> DEFINE G == [n \in 0..(m + 1) |->
                     IF n = m + 1 THEN F[m] + found[m + 1].size ELSE F[n]]
  <2>2. ASSUME NEW n \in 0..(m + 1)
        PROVE  G[n] = IF n = 0 THEN 0 ELSE G[n - 1] + found[n].size
    <3>1. CASE n = m + 1
      <4>1. m \in 0..(m + 1) /\ m # m + 1 /\ n # 0 /\ n - 1 = m
        BY <3>1
      <4>2. G[m] = F[m]
        BY <4>1
      <4> QED BY <3>1, <4>1, <4>2
    <3>2. CASE n # m + 1
      <4>1. n \in 0..m /\ G[n] = F[n]
        BY <3>2
      <4>2. n # 0 => n - 1 \in 0..(m + 1) /\ n - 1 # m + 1 /\ G[n - 1] = F[n - 1]
        BY <4>1
      <4>3. F[n] = IF n = 0 THEN 0 ELSE F[n - 1] + found[n].size
        BY <2>1, <4>1
      <4> QED BY <4>1, <4>2, <4>3
    <3> QED BY <3>1, <3>2
  <2>3. G = [n \in 0..(m + 1) |-> G[n]]
    OBVIOUS
  <2> HIDE DEF G
  <2>4. Upto(m + 1, G)
    BY <2>2, <2>3
  <2> HIDE DEF Upto
  <2> QED BY <2>4
<1> HIDE DEF Upto
<1>3. Len(found) \in T
  <2>1. 0..Len(found) \subseteq T
    <3>1. T \in SUBSET Nat
      OBVIOUS
    <3> HIDE DEF T
    <3> QED BY <1>1, <1>2, <3>1, NumbersUpTo
  <2> QED BY <2>1
<1>4. PICK F : Upto(Len(found), F)
  BY <1>3
<1> DEFINE C == CHOOSE size :
                  size = [n \in 0..Len(found) |->
                            IF n = 0 THEN 0 ELSE size[n - 1] + found[n].size]
<1>5. SizeOf(found) = C[Len(found)]
  BY DEF SizeOf
<1>6. C = [n \in 0..Len(found) |-> IF n = 0 THEN 0 ELSE C[n - 1] + found[n].size]
  BY <1>4 DEF Upto
<1> HIDE DEF C
<1> QED BY <1>5, <1>6

LEMMA SizeGrows ==
  ASSUME NEW S, NEW found \in Seq(S), NEW x \in S
  PROVE  /\ SizeOf(<<>>) = 0
         /\ SizeOf(Append(found, x)) = SizeOf(found) + x.size
<1> PICK more : more = Append(found, x)
  OBVIOUS
<1> PICK l \in Nat : l = Len(found)
  OBVIOUS
<1>1. /\ Len(more) = l + 1 /\ more[l + 1] = x
      /\ \A n \in 1..l : more[n] = found[n]
  OBVIOUS
<1>2. PICK F : /\ F = [n \in 0..l |-> IF n = 0 THEN 0 ELSE F[n - 1] + found[n].size]
               /\ SizeOf(found) = F[l]
  BY SizeUnfolds
<1>3. Len(more) \in Nat
  BY <1>1
<1>4. PICK G : /\ G = [n \in 0..(l + 1) |->
                         IF n = 0 THEN 0 ELSE G[n - 1] + more[n].size]
               /\ SizeOf(more) = G[l + 1]
  BY <1>1, <1>3, SizeUnfolds
<1>5. /\ F[0] = 0 /\ G[0] = 0
      /\ \A n \in 1..l : F[n] = F[n - 1] + found[n].size
      /\ \A n \in 1..(l + 1) : G[n] = G[n - 1] + more[n].size
  <2>1. 0 \in 0..l /\ 0 \in 0..(l + 1)
    OBVIOUS
  <2>2. \A n \in 1..l : n \in 0..l /\ n # 0
    OBVIOUS
  <2>3. \A n \in 1..(l + 1) : n \in 0..(l + 1) /\ n # 0
    OBVIOUS
  <2>4. F[0] = 0 /\ \A n \in 1..l : F[n] = F[n - 1] + found[n].size
    BY ONLY <1>2, <2>1, <2>2
  <2>5. G[0] = 0 /\ \A n \in 1..(l + 1) : G[n] = G[n - 1] + more[n].size
    BY ONLY <1>4, <2>1, <2>3
  <2> QED BY <2>4, <2>5
<1> DEFINE T == {n \in Nat : n <= l => F[n] = G[n]}
<1>6. 0 \in T
  BY <1>5
<1>7. ASSUME NEW n \in 0..(l - 1), n \in T PROVE n + 1 \in T
  <2>1. n + 1 \in 1..l /\ n + 1 \in 1..(l + 1) /\ (n + 1) - 1 = n /\ n <= l
    OBVIOUS
  <2>2. F[n] = G[n]
    BY <1>7, <2>1
  <2>3. F[n + 1] = G[n + 1]
    BY <1>1, <1>5, <2>1, <2>2
  <2> QED BY <2>1, <2>3
<1>8. T \in SUBSET Nat /\ \A n \in T : n <= l => F[n] = G[n]
  OBVIOUS
<1> HIDE DEF T
<1>9. 0..l \subseteq T
  BY <1>6, <1>7, <1>8, NumbersUpTo
<1>10. F[l] = G[l]
  BY <1>8, <1>9
<1>11. G[l + 1] = G[l] + x.size
  <2>1. l + 1 \in 1..(l + 1) /\ (l + 1) - 1 = l
    OBVIOUS
  <2> QED BY <1>1, <1>5, <2>1
<1>12. SizeOf(<<>>) = 0
  <2>1. Len(<<>>) = 0
    OBVIOUS
  <2>2. PICK H : /\ H = [n \in 0..0 |->
                           IF n = 0 THEN 0 ELSE H[n - 1] + <<>>[n].size]
                 /\ SizeOf(<<>>) = H[0]
    BY <2>1, SizeUnfolds
  <2>3. 0 \in 0..0
    OBVIOUS
  <2> QED BY ONLY <2>2, <2>3
<1> QED BY <1>2, <1>4, <1>10, <1>11, <1>12

(* changed_paths(): each path once, and each of a file that is shown and   *)
(* was not deleted.                                                        *)
LEMMA ChangedAre ==
  ASSUME NEW fs \in Seq(Files), NEW first \in {<<>>, <<Text>>}
  PROVE  LET paths == ChangedPaths(DiffOf(first, fs))
         IN  /\ Len(paths) \in Nat
             /\ \A k \in 1..Len(paths) : \E i \in 1..Len(fs) :
                  paths[k] \in Names(fs[i]) /\ fs[i].kind # "delete"
             /\ \A k, m \in 1..Len(paths) : paths[k] = paths[m] => k = m
<1> PICK lines : lines = DiffOf(first, fs)
  OBVIOUS
<1> PICK n \in Nat : n = Len(fs)
  OBVIOUS
<1> PICK found : found = Split(lines).files
  OBVIOUS
<1>1. found = [i \in 1..n |-> [text |-> Section(fs[i]),
                               path |-> SectionPath(Section(fs[i])).path,
                               deleted |-> SectionPath(Section(fs[i])).deleted]]
  BY SplitIs
<1>2. /\ Len(found) = n
      /\ \A i \in 1..n : /\ found[i].path = SectionPath(Section(fs[i])).path
                         /\ found[i].deleted = SectionPath(Section(fs[i])).deleted
  BY ONLY <1>1, n \in Nat
<1> PICK S : S = Firsts(found)
  OBVIOUS
<1>3. /\ S \subseteq 1..n
      /\ \A i \in S : ~found[i].deleted /\ found[i].path # Unknown
      /\ \A i, j \in S : j < i => found[j].path # found[i].path
  BY <1>2 DEF Firsts, Shown
<1>4. S \in SUBSET Nat /\ IsFiniteSet(S)
  <2>1. 1 \in Int /\ n \in Int
    BY ONLY n \in Nat
  <2>2. IsFiniteSet(1..n)
    BY ONLY <2>1, FS_Interval
  <2>3. S \in SUBSET (1..n)
    BY <1>3
  <2>4. IsFiniteSet(S)
    BY ONLY <2>2, <2>3, FS_Subset
  <2>5. 1..n \subseteq Nat
    BY ONLY n \in Nat
  <2> QED BY ONLY <2>3, <2>4, <2>5
<1> PICK order : order = Ascending(S)
  OBVIOUS
<1>5. /\ order \in Seq(S) /\ Len(order) \in Nat
      /\ \A k \in 1..Len(order) : order[k] \in S /\ Rank(S, order[k]) = k
  <2>1. /\ order \in Seq(S) /\ Len(order) = Cardinality(S)
        /\ \A k \in 1..Cardinality(S) : Rank(S, order[k]) = k
    BY <1>4, AscendingIs
  <2> QED BY <2>1
<1> PICK paths : paths = ChangedPaths(lines)
  OBVIOUS
<1>6. paths = [k \in 1..Len(order) |-> found[order[k]].path]
  BY DEF ChangedPaths
<1>7. Len(paths) = Len(order) /\ \A k \in 1..Len(order) : paths[k] = found[order[k]].path
  BY ONLY <1>5, <1>6
<1>8. ASSUME NEW k \in 1..Len(paths)
      PROVE  \E i \in 1..n : paths[k] \in Names(fs[i]) /\ fs[i].kind # "delete"
  <2>1. PICK i \in S : i = order[k]
    BY <1>5, <1>7
  <2>2. /\ i \in 1..n /\ ~found[i].deleted /\ found[i].path # Unknown
        /\ paths[k] = found[i].path
    BY <1>3, <1>7, <2>1
  <2>3. PICK f \in Files : f = fs[i]
    BY <2>2
  <2>4. paths[k] \in Names(f) /\ f.kind # "delete"
    BY <1>2, <2>2, <2>3, PathIs
  <2> QED BY <2>2, <2>3, <2>4
<1>9. ASSUME NEW k \in 1..Len(paths), NEW m \in 1..Len(paths), paths[k] = paths[m]
      PROVE  k = m
  <2>1. order[k] \in S /\ order[m] \in S /\ Rank(S, order[k]) = k /\ Rank(S, order[m]) = m
    BY <1>5, <1>7
  <2>2. found[order[k]].path = found[order[m]].path
    BY <1>7, <1>9
  <2>3. ~(order[k] < order[m]) /\ ~(order[m] < order[k])
    BY <1>3, <2>1, <2>2
  <2>4. order[k] = order[m]
    BY <1>4, <2>1, <2>3
  <2> QED BY <2>1, <2>4
<1> QED BY <1>5, <1>7, <1>8, <1>9

DiffInv ==
  /\ files \in Seq(Files) /\ budget \in 0..MaxBudget
  /\ caps \in [total : Nat, files : Nat]
  /\ \E first \in {<<>>, <<Text>>} : diff = DiffOf(first, files)

LEMMA DiffInit == InputInit => DiffInv
<1> SUFFICES ASSUME InputInit PROVE DiffInv
  OBVIOUS
<1>1. files \in UNION {[1..n -> Files] : n \in 0..MaxFiles}
  BY DEF InputInit, BoundedSeq, SeqOf
<1>2. PICK n \in 0..MaxFiles : files \in [1..n -> Files]
  BY <1>1
<1>3. n \in Nat
  BY BoundsAssumption
<1>4. files \in Seq(Files)
  BY <1>2, <1>3
<1>5. caps \in [total : Nat, files : Nat]
  BY CapsAssumption DEF InputInit
<1> QED BY <1>4, <1>5 DEF InputInit, DiffInv, DiffOf

LEMMA DiffStays ==
  DiffInv /\ [InputNext]_reviewInputVars => DiffInv' /\ UNCHANGED inputVars
BY DEF DiffInv, InputNext, TakeWhole, StartTrim, KeepSection, OmitSection, EndTrim,
       SkipContext, FetchFile, FetchNothing, FetchStops, ContextEnds,
       reviewInputVars, inputVars

(* The sections, by the files they are of.                                 *)
LEMMA SectionsOf ==
  ASSUME DiffInv
  PROVE  /\ Preamble \in {<<>>, <<Text>>} /\ diff = DiffOf(Preamble, files)
         /\ Len(files) \in Nat /\ Len(Sections) = Len(files)
         /\ Sections = [i \in 1..Len(files) |->
                          [text |-> Section(files[i]),
                           path |-> SectionPath(Section(files[i])).path,
                           deleted |-> SectionPath(Section(files[i])).deleted]]
         /\ \A i \in 1..Len(files) :
              /\ files[i] \in Files
              /\ Sections[i].text = Section(files[i])
              /\ Sections[i].path = SectionPath(Section(files[i])).path
              /\ Sections[i].deleted = SectionPath(Section(files[i])).deleted
<1>1. files \in Seq(Files)
  BY DEF DiffInv
<1>2. PICK first \in {<<>>, <<Text>>} : diff = DiffOf(first, files)
  BY DEF DiffInv
<1>3. /\ Preamble = first
      /\ Sections = [i \in 1..Len(files) |->
                       [text |-> Section(files[i]),
                        path |-> SectionPath(Section(files[i])).path,
                        deleted |-> SectionPath(Section(files[i])).deleted]]
  BY <1>1, <1>2, SplitIs DEF Preamble, Sections
<1>4. Len(files) \in Nat /\ \A i \in 1..Len(files) : files[i] \in Files
  BY <1>1
<1>5. PICK n \in Nat : n = Len(files)
  BY <1>4
<1>6. PICK secs : secs = Sections
  OBVIOUS
<1>7. /\ Len(secs) = n
      /\ \A i \in 1..n : /\ secs[i].text = Section(files[i])
                         /\ secs[i].path = SectionPath(Section(files[i])).path
                         /\ secs[i].deleted = SectionPath(Section(files[i])).deleted
  BY ONLY <1>3, <1>5, <1>6
<1> QED BY <1>2, <1>3, <1>4, <1>5, <1>6, <1>7

(* Whatever the lines of its hunks look like, a diff is taken apart into   *)
(* its files.                                                              *)
THEOREM SectionsTheorem == InputSpec => []SectionsAreFiles
<1>1. DiffInv => SectionsAreFiles
  <2> SUFFICES ASSUME DiffInv PROVE SectionsAreFiles
    OBVIOUS
  <2>1. /\ diff = DiffOf(Preamble, files)
        /\ Len(files) \in Nat /\ Len(Sections) = Len(files)
        /\ \A i \in 1..Len(files) :
             /\ files[i] \in Files
             /\ Sections[i].text = Section(files[i])
             /\ Sections[i].path = SectionPath(Section(files[i])).path
             /\ Sections[i].deleted = SectionPath(Section(files[i])).deleted
    BY SectionsOf
  <2>2. diff = Preamble \o FlattenSeq([i \in 1..Len(Sections) |-> Sections[i].text])
    <3>1. [i \in 1..Len(Sections) |-> Sections[i].text]
            = [i \in 1..Len(files) |-> Section(files[i])]
      BY <2>1
    <3> QED BY <2>1, <3>1 DEF DiffOf
  <2>3. ASSUME NEW i \in 1..Len(files)
        PROVE  /\ Sections[i].text = Section(files[i])
               /\ Sections[i].path \in Names(files[i]) \cup {Unknown}
               /\ Sections[i].deleted => files[i].kind = "delete"
    BY <2>1, PathIs
  <2> QED BY <2>1, <2>2, <2>3 DEF SectionsAreFiles
<1> QED BY <1>1, DiffInit, DiffStays, PTL DEF InputSpec

(* The bytes of some of the files, given by their numbers.                 *)
Filled(fs, k) ==
  Len(FlattenSeq([j \in 1..Len(k) |-> Section(fs[k[j]])]))

(* The i-th file did not fit behind those of k that come before it.        *)
LeftOut(fs, a, b, k, i) ==
  \E n \in 0..Len(k) :
    /\ \A j \in 1..Len(k) : k[j] < i <=> j <= n
    /\ a + Filled(fs, SubSeq(k, 1, n)) + Len(Section(fs[i])) > b

(* The first m files are divided into k, which fit into b bytes behind the *)
(* a bytes of the preamble, and o, which did not fit.                      *)
Divided(fs, a, b, m, k, o) ==
  /\ k \in Seq(1..m) /\ o \in Seq(1..m)
  /\ ToSet(k) \cup ToSet(o) = 1..m /\ Len(k) + Len(o) = m
  /\ a + Filled(fs, k) <= b
  /\ \A i \in ToSet(o) : LeftOut(fs, a, b, k, i)

(* What was fetched of some paths under the caps m, in a attempts and t    *)
(* bytes.                                                                  *)
Fetches(paths, m, a, t, c) ==
  /\ c \in Seq([path : Paths \cup {Rest}, size : Nat])
  /\ \A i \in 1..Len(c) : \E k \in 1..a : k <= Len(paths) /\ c[i].path = paths[k]
  /\ \A i, j \in 1..Len(c) : c[i].path = c[j].path => i = j
  /\ t \in Nat /\ t = SizeOf(c) /\ t <= m.total
  /\ a \in Nat /\ Len(c) <= a /\ a <= m.files /\ a <= Len(paths)
  /\ m.total = 0 => a = 0

Picked(fs, k) == [j \in 1..Len(k) |-> fs[k[j]]]

InputInv ==
  /\ DiffInv
  /\ pc \in {"start", "trim", "context", "notice", "done"}
  /\ pc = "start" => next = 1 /\ kept = <<>> /\ omitted = <<>>
  /\ pc = "trim" =>
       /\ next \in 1..(Len(files) + 1)
       /\ Divided(files, Len(Preamble), budget, next - 1, kept, omitted)
       /\ used = Len(Preamble) + Filled(files, kept)
  /\ pc \in {"context", "done"} =>
       /\ Divided(files, Len(Preamble), budget, Len(files), kept, omitted)
       /\ request = DiffOf(Preamble, Picked(files, kept))
       /\ Fetches(ChangedPaths(request), caps, attempts, total, context)
  /\ pc \notin {"context", "done"} => attempts = 0 /\ total = 0 /\ context = <<>>

LEMMA AppendIs ==
  ASSUME NEW S, NEW k \in Seq(S), NEW x \in S
  PROVE  /\ Append(k, x) \in Seq(S) /\ Len(k) \in Nat
         /\ Len(Append(k, x)) = Len(k) + 1
         /\ Append(k, x)[Len(k) + 1] = x
         /\ \A j \in 1..Len(k) : Append(k, x)[j] = k[j]
         /\ ToSet(Append(k, x)) = ToSet(k) \cup {x}
<1>1. /\ Append(k, x) \in Seq(S) /\ Len(k) \in Nat
      /\ Len(Append(k, x)) = Len(k) + 1
      /\ Append(k, x)[Len(k) + 1] = x
      /\ \A j \in 1..Len(k) : Append(k, x)[j] = k[j]
  OBVIOUS
<1> PICK more : more = Append(k, x)
  OBVIOUS
<1> PICK n \in Nat : n = Len(k)
  OBVIOUS
<1>2. DOMAIN more = 1..(n + 1) /\ DOMAIN k = 1..n
  OBVIOUS
<1>3. ToSet(more) = ToSet(k) \cup {x}
  <2>1. 1..(n + 1) = 1..n \cup {n + 1}
    BY ONLY n \in Nat
  <2>2. more[n + 1] = x /\ \A j \in 1..n : more[j] = k[j]
    BY <1>1
  <2> QED BY ONLY <1>2, <2>1, <2>2 DEF ToSet
<1> QED BY <1>1, <1>3

LEMMA FilledGrows ==
  ASSUME NEW fs \in Seq(Files), NEW k \in Seq(1..Len(fs)), NEW i \in 1..Len(fs)
  PROVE  /\ Filled(fs, <<>>) = 0 /\ Filled(fs, k) \in Nat
         /\ Filled(fs, Append(k, i)) = Filled(fs, k) + Len(Section(fs[i]))
<1>1. \A x \in 1..Len(fs) : Section(fs[x]) \in Seq(Lines)
  BY SectionIs
<1> PICK more : more = Append(k, i)
  OBVIOUS
<1> PICK n \in Nat : n = Len(k)
  OBVIOUS
<1>2. /\ Len(more) = n + 1 /\ more[n + 1] = i /\ Len(k) = n
      /\ \A j \in 1..n : more[j] = k[j] /\ k[j] \in 1..Len(fs)
  OBVIOUS
<1> PICK secs : secs = [j \in 1..n |-> Section(fs[k[j]])]
  OBVIOUS
<1> PICK s \in Seq(Lines) : s = Section(fs[i])
  BY <1>1
<1>3. secs \in Seq(Seq(Lines)) /\ Len(secs) = n
  BY <1>1, <1>2
<1>4. [j \in 1..(n + 1) |-> Section(fs[more[j]])] = Append(secs, s)
  <2>1. Len(Append(secs, s)) = n + 1 /\ Append(secs, s) \in Seq(Seq(Lines))
    BY <1>3
  <2>2. Append(secs, s) = [j \in 1..(n + 1) |-> Append(secs, s)[j]]
    BY <2>1
  <2>3. ASSUME NEW j \in 1..(n + 1)
        PROVE  Append(secs, s)[j] = Section(fs[more[j]])
    <3>1. CASE j = n + 1
      BY <1>2, <1>3, <3>1
    <3>2. CASE j # n + 1
      <4>1. j \in 1..n
        BY <3>2
      <4>2. Append(secs, s)[j] = secs[j]
        BY <1>3, <4>1
      <4> QED BY <1>2, <4>1, <4>2
    <3> QED BY <3>1, <3>2
  <2> QED BY <2>2, <2>3
<1>5. Filled(fs, more) = Len(FlattenSeq(Append(secs, s)))
  BY <1>2, <1>4 DEF Filled
<1>6. Filled(fs, k) = Len(FlattenSeq(secs))
  BY <1>2 DEF Filled
<1>7. FlattenSeq(secs) \in Seq(Lines) /\ FlattenSeq(Append(secs, s)) = FlattenSeq(secs) \o s
  BY <1>3, FlattenAppends
<1>8. Len(FlattenSeq(secs)) \in Nat
      /\ Len(FlattenSeq(secs) \o s) = Len(FlattenSeq(secs)) + Len(s)
  BY <1>7, Joined
<1>9. Filled(fs, <<>>) = 0
  <2>1. [j \in 1..Len(<<>>) |-> Section(fs[<<>>[j]])] = <<>>
    OBVIOUS
  <2>2. Filled(fs, <<>>) = Len(FlattenSeq(<<>>))
    BY <2>1 DEF Filled
  <2> QED BY <2>2, FlattenEmpty
<1> QED BY <1>5, <1>6, <1>7, <1>8, <1>9

LEMMA NumbersWiden ==
  ASSUME NEW m \in Nat, NEW l \in Nat, m <= l, NEW k \in Seq(1..m)
  PROVE  k \in Seq(1..l) /\ Len(k) \in Nat /\ ToSet(k) \subseteq 1..m
<1>1. 1..m \subseteq 1..l
  OBVIOUS
<1>2. k \in Seq(1..l) /\ Len(k) \in Nat
  BY <1>1
<1>3. DOMAIN k = 1..Len(k) /\ \A j \in 1..Len(k) : k[j] \in 1..m
  OBVIOUS
<1> QED BY <1>2, <1>3 DEF ToSet

(* A section that fits is kept: those left out before stay left out.       *)
LEMMA DividedKeeps ==
  ASSUME NEW fs \in Seq(Files), NEW a \in Nat, NEW b \in Nat,
         NEW m \in Nat, m < Len(fs), NEW k, NEW o, Divided(fs, a, b, m, k, o),
         a + Filled(fs, k) + Len(Section(fs[m + 1])) <= b
  PROVE  Divided(fs, a, b, m + 1, Append(k, m + 1), o)
<1> PICK l \in Nat : l = Len(fs)
  OBVIOUS
<1>1. /\ k \in Seq(1..m) /\ o \in Seq(1..m)
      /\ ToSet(k) \cup ToSet(o) = 1..m /\ Len(k) + Len(o) = m
      /\ a + Filled(fs, k) <= b
      /\ \A i \in ToSet(o) : LeftOut(fs, a, b, k, i)
  BY DEF Divided
<1>2. m <= m + 1 /\ m <= l /\ m + 1 \in Nat /\ m + 1 \in 1..l /\ m + 1 \in 1..(m + 1)
  OBVIOUS
<1>3. /\ k \in Seq(1..(m + 1)) /\ o \in Seq(1..(m + 1)) /\ k \in Seq(1..l)
      /\ Len(k) \in Nat /\ Len(o) \in Nat /\ ToSet(o) \subseteq 1..m
  <2>1. k \in Seq(1..(m + 1)) /\ Len(k) \in Nat
    BY ONLY <1>1, <1>2, m \in Nat, NumbersWiden
  <2>2. o \in Seq(1..(m + 1)) /\ Len(o) \in Nat /\ ToSet(o) \subseteq 1..m
    BY ONLY <1>1, <1>2, m \in Nat, NumbersWiden
  <2>3. k \in Seq(1..l)
    BY ONLY <1>1, <1>2, m \in Nat, l \in Nat, NumbersWiden
  <2> QED BY <2>1, <2>2, <2>3
<1> PICK more : more = Append(k, m + 1)
  OBVIOUS
<1> PICK n \in Nat : n = Len(k)
  BY <1>3
<1>4. /\ more \in Seq(1..(m + 1)) /\ Len(more) = n + 1 /\ more[n + 1] = m + 1
      /\ \A j \in 1..n : more[j] = k[j]
      /\ ToSet(more) = ToSet(k) \cup {m + 1}
  BY <1>2, <1>3, AppendIs, SMTT(30)
<1>5. ToSet(more) \cup ToSet(o) = 1..(m + 1)
  <2>1. 1..(m + 1) = 1..m \cup {m + 1}
    BY ONLY m \in Nat
  <2> QED BY <1>1, <1>4, <2>1
<1>6. Len(more) + Len(o) = m + 1
  <2>1. n + Len(o) = m /\ Len(o) \in Nat /\ Len(more) = n + 1
    BY <1>1, <1>3, <1>4
  <2> QED BY ONLY <2>1, n \in Nat, m \in Nat
<1>7. Filled(fs, more) = Filled(fs, k) + Len(Section(fs[m + 1])) /\ Filled(fs, k) \in Nat
  BY <1>2, <1>3, FilledGrows
<1>8. Len(Section(fs[m + 1])) \in Nat
  <2>1. fs[m + 1] \in Files
    BY <1>2
  <2> QED BY <2>1, SectionIs
<1>9. a + Filled(fs, more) <= b
  BY ONLY <1>7, <1>8, a \in Nat, b \in Nat, a + Filled(fs, k) + Len(Section(fs[m + 1])) <= b
<1>10. ASSUME NEW i \in ToSet(o) PROVE LeftOut(fs, a, b, more, i)
  <2>1. i \in 1..m
    BY <1>3
  <2>2. PICK h \in 0..Len(k) :
          /\ \A j \in 1..Len(k) : k[j] < i <=> j <= h
          /\ a + Filled(fs, SubSeq(k, 1, h)) + Len(Section(fs[i])) > b
    BY <1>1 DEF LeftOut
  <2>3. h \in 0..n /\ h \in 0..Len(more) /\ h \in Nat /\ h <= n
    BY <1>4
  <2>4. ASSUME NEW j \in 1..Len(more) PROVE more[j] < i <=> j <= h
    <3>1. CASE j = n + 1
      <4>1. ~(m + 1 < i) /\ ~(n + 1 <= h)
        BY <2>1, <2>3
      <4> QED BY <1>4, <3>1, <4>1
    <3>2. CASE j # n + 1
      <4>1. j \in 1..n
        <5>1. j \in 1..(n + 1)
          BY <1>4
        <5> QED BY ONLY <3>2, <5>1, n \in Nat
      <4> QED BY <1>4, <2>2, <4>1
    <3> QED BY <3>1, <3>2
  <2>5. SubSeq(more, 1, h) = SubSeq(k, 1, h)
    <3>1. /\ SubSeq(more, 0 + 1, h) \in Seq(1..(m + 1)) /\ Len(SubSeq(more, 0 + 1, h)) = h - 0
          /\ \A j \in 1..(h - 0) : SubSeq(more, 0 + 1, h)[j] = more[0 + j]
      <4>1. 0 \in Nat /\ 0 <= h /\ h <= Len(more)
        BY <1>4, <2>3
      <4> QED BY ONLY <1>4, <2>3, <4>1, SubSeqIs
    <3>2. /\ SubSeq(k, 0 + 1, h) \in Seq(1..(m + 1)) /\ Len(SubSeq(k, 0 + 1, h)) = h - 0
          /\ \A j \in 1..(h - 0) : SubSeq(k, 0 + 1, h)[j] = k[0 + j]
      <4>1. 0 \in Nat /\ 0 <= h /\ h <= Len(k) /\ h \in Nat
        BY <2>3
      <4>2. k \in Seq(1..(m + 1))
        BY <1>3
      <4> QED BY ONLY <4>1, <4>2, SubSeqIs
    <3>3. 0 + 1 = 1 /\ h - 0 = h /\ \A j \in 1..h : 0 + j = j /\ j \in 1..n
      BY <2>3
    <3>4. \A j \in 1..h : SubSeq(more, 1, h)[j] = SubSeq(k, 1, h)[j]
      BY <1>4, <3>1, <3>2, <3>3
    <3> QED BY <3>1, <3>2, <3>3, <3>4, SameParts
  <2>6. a + Filled(fs, SubSeq(more, 1, h)) + Len(Section(fs[i])) > b
    BY <2>2, <2>5
  <2> QED BY <2>3, <2>4, <2>6 DEF LeftOut
<1>11. Divided(fs, a, b, m + 1, more, o)
  BY <1>3, <1>4, <1>5, <1>6, <1>9, <1>10 DEF Divided
<1> QED BY <1>11

(* One that does not fit is left out.                                      *)
LEMMA DividedOmits ==
  ASSUME NEW fs \in Seq(Files), NEW a \in Nat, NEW b \in Nat,
         NEW m \in Nat, m < Len(fs), NEW k, NEW o, Divided(fs, a, b, m, k, o),
         a + Filled(fs, k) + Len(Section(fs[m + 1])) > b
  PROVE  Divided(fs, a, b, m + 1, k, Append(o, m + 1))
<1>1. /\ k \in Seq(1..m) /\ o \in Seq(1..m)
      /\ ToSet(k) \cup ToSet(o) = 1..m /\ Len(k) + Len(o) = m
      /\ a + Filled(fs, k) <= b
      /\ \A i \in ToSet(o) : LeftOut(fs, a, b, k, i)
  BY DEF Divided
<1>2. m <= m + 1 /\ m + 1 \in Nat /\ m + 1 \in 1..(m + 1)
  OBVIOUS
<1>3. /\ k \in Seq(1..(m + 1)) /\ o \in Seq(1..(m + 1))
      /\ Len(k) \in Nat /\ Len(o) \in Nat
  <2>1. k \in Seq(1..(m + 1)) /\ Len(k) \in Nat
    BY ONLY <1>1, <1>2, m \in Nat, NumbersWiden
  <2>2. o \in Seq(1..(m + 1)) /\ Len(o) \in Nat
    BY ONLY <1>1, <1>2, m \in Nat, NumbersWiden
  <2> QED BY <2>1, <2>2
<1> PICK more : more = Append(o, m + 1)
  OBVIOUS
<1>4. /\ more \in Seq(1..(m + 1)) /\ Len(more) = Len(o) + 1
      /\ ToSet(more) = ToSet(o) \cup {m + 1}
  BY <1>2, <1>3, AppendIs, SMTT(30)
<1>5. ToSet(k) \cup ToSet(more) = 1..(m + 1)
  <2>1. 1..(m + 1) = 1..m \cup {m + 1}
    BY ONLY m \in Nat
  <2> QED BY <1>1, <1>4, <2>1
<1>6. Len(k) + Len(more) = m + 1
  BY ONLY <1>1, <1>3, <1>4, m \in Nat
<1>7. LeftOut(fs, a, b, k, m + 1)
  <2>1. ASSUME NEW j \in 1..Len(k) PROVE k[j] < m + 1 <=> j <= Len(k)
    <3>1. k[j] \in 1..m
      BY <1>1, SMTT(30)
    <3> QED BY <3>1
  <2>2. SubSeq(k, 1, Len(k)) = k
    BY <1>1
  <2>3. Len(k) \in 0..Len(k)
    BY <1>3
  <2> QED BY <2>1, <2>2, <2>3 DEF LeftOut
<1>8. \A i \in ToSet(more) : LeftOut(fs, a, b, k, i)
  BY <1>1, <1>4, <1>7
<1>9. Divided(fs, a, b, m + 1, k, more)
  BY <1>1, <1>3, <1>4, <1>5, <1>6, <1>8 DEF Divided
<1> QED BY <1>9

LEMMA DividedStarts ==
  ASSUME NEW fs \in Seq(Files), NEW a \in Nat, NEW b \in Nat, a <= b
  PROVE  Divided(fs, a, b, 0, <<>>, <<>>) /\ Filled(fs, <<>>) = 0
<1>1. Filled(fs, <<>>) = 0
  <2>1. [j \in 1..Len(<<>>) |-> Section(fs[<<>>[j]])] = <<>>
    OBVIOUS
  <2>2. Filled(fs, <<>>) = Len(FlattenSeq(<<>>))
    BY <2>1 DEF Filled
  <2> QED BY <2>2, FlattenEmpty
<1>2. ToSet(<<>>) = {} /\ 1..0 = {} /\ <<>> \in Seq(1..0) /\ Len(<<>>) = 0
  <2>1. DOMAIN <<>> = {}
    OBVIOUS
  <2> QED BY <2>1 DEF ToSet
<1>3. a + Filled(fs, <<>>) <= b /\ 0 + 0 = 0
  BY <1>1
<1> QED BY <1>1, <1>2, <1>3 DEF Divided

(* A diff that fits is kept as it is.                                      *)
LEMMA DividedWhole ==
  ASSUME NEW fs \in Seq(Files), NEW first \in {<<>>, <<Text>>}, NEW b \in Nat,
         Len(DiffOf(first, fs)) <= b
  PROVE  LET k == [i \in 1..Len(fs) |-> i]
         IN  /\ Divided(fs, Len(first), b, Len(fs), k, <<>>)
             /\ fs = [j \in 1..Len(k) |-> fs[k[j]]]
<1> PICK n \in Nat : n = Len(fs)
  OBVIOUS
<1> PICK k : k = [i \in 1..n |-> i]
  OBVIOUS
<1>1. k \in Seq(1..n) /\ Len(k) = n /\ DOMAIN k = 1..n /\ \A i \in 1..n : k[i] = i
  OBVIOUS
<1>2. fs = [j \in 1..n |-> fs[k[j]]]
  <2>1. fs = [j \in 1..n |-> fs[j]]
    OBVIOUS
  <2> QED BY <1>1, <2>1
<1>3. Len(first) + Filled(fs, k) <= b
  <2> PICK secs : secs = [j \in 1..n |-> Section(fs[j])]
    OBVIOUS
  <2>1. \A j \in 1..n : Section(fs[j]) \in Seq(Lines)
    BY SectionIs
  <2>2. secs \in Seq(Seq(Lines))
    BY <2>1
  <2>3. FlattenSeq(secs) \in Seq(Lines)
    BY <2>2, FlattenIsLaid
  <2>4. [j \in 1..Len(k) |-> Section(fs[k[j]])] = secs
    BY <1>1
  <2>5. Filled(fs, k) = Len(FlattenSeq(secs))
    BY <2>4 DEF Filled
  <2>6. DiffOf(first, fs) = first \o FlattenSeq(secs)
    BY DEF DiffOf
  <2>7. first \in Seq(Lines)
    <3>1. Text \in Lines
      BY DEF Lines, LineKinds, Text, Line
    <3>2. CASE first = <<>>
      BY <3>2
    <3>3. CASE first = <<Text>>
      BY <3>1, <3>3
    <3> QED BY <3>2, <3>3
  <2> QED BY <2>3, <2>5, <2>6, <2>7, Joined
<1>4. ToSet(k) \cup ToSet(<<>>) = 1..n /\ ToSet(<<>>) = {} /\ <<>> \in Seq(1..n)
  <2>1. DOMAIN <<>> = {}
    OBVIOUS
  <2> QED BY <1>1, <2>1 DEF ToSet
<1>5. Len(k) + Len(<<>>) = n
  BY <1>1
<1>6. Divided(fs, Len(first), b, n, k, <<>>)
  BY <1>1, <1>3, <1>4, <1>5 DEF Divided
<1> QED BY <1>1, <1>2, <1>6

LEMMA FetchesStart ==
  ASSUME NEW paths, Len(paths) \in Nat, NEW m \in [total : Nat, files : Nat]
  PROVE  Fetches(paths, m, 0, 0, <<>>)
<1>1. SizeOf(<<>>) = 0
  <2>1. <<>> \in Seq({0}) /\ 0 \in {0}
    OBVIOUS
  <2> QED BY <2>1, SizeGrows
<1>2. m.total \in Nat /\ m.files \in Nat
  OBVIOUS
<1>3. <<>> \in Seq([path : Paths \cup {Rest}, size : Nat]) /\ Len(<<>>) = 0 /\ 0 \in Nat
  OBVIOUS
<1>4. 1..0 = {} /\ 0 <= m.total /\ 0 <= m.files /\ 0 <= Len(paths) /\ 0 <= 0
  BY ONLY <1>2, Len(paths) \in Nat
<1> QED BY <1>1, <1>3, <1>4 DEF Fetches

(* A path is tried, and gives nothing.                                     *)
LEMMA FetchesNothing ==
  ASSUME NEW paths, NEW m \in [total : Nat, files : Nat], NEW a, NEW t, NEW c,
         Fetches(paths, m, a, t, c), Len(paths) \in Nat, a < Len(paths),
         a < m.files, m.total # 0
  PROVE  Fetches(paths, m, a + 1, t, c)
<1>1. /\ c \in Seq([path : Paths \cup {Rest}, size : Nat])
      /\ \A i \in 1..Len(c) : \E k \in 1..a : k <= Len(paths) /\ c[i].path = paths[k]
      /\ \A i, j \in 1..Len(c) : c[i].path = c[j].path => i = j
      /\ t \in Nat /\ t = SizeOf(c) /\ t <= m.total
      /\ a \in Nat /\ Len(c) <= a /\ a <= m.files /\ a <= Len(paths)
  BY DEF Fetches
<1>2. m.files \in Nat /\ Len(c) \in Nat /\ a \in Nat
  BY <1>1
<1>3. /\ a + 1 \in Nat /\ Len(c) <= a + 1 /\ a + 1 <= m.files
      /\ a + 1 <= Len(paths) /\ 1..a \subseteq 1..(a + 1)
  <2>1. Len(c) <= a
    BY <1>1
  <2> QED BY ONLY <1>2, <2>1, Len(paths) \in Nat, a < Len(paths), a < m.files
<1>4. \A i \in 1..Len(c) : \E k \in 1..(a + 1) : k <= Len(paths) /\ c[i].path = paths[k]
  BY <1>1, <1>3
<1> QED BY <1>1, <1>3, <1>4 DEF Fetches

(* A path is tried, and its file of n bytes is kept.                       *)
LEMMA FetchesFile ==
  ASSUME NEW paths, NEW m \in [total : Nat, files : Nat], NEW a, NEW t, NEW c,
         Fetches(paths, m, a, t, c), Len(paths) \in Nat, a < Len(paths),
         a < m.files, m.total # 0,
         \A k, i \in 1..Len(paths) : paths[k] = paths[i] => k = i,
         paths[a + 1] \in Paths \cup {Rest},
         NEW n \in Nat, t + n <= m.total
  PROVE  Fetches(paths, m, a + 1, t + n, Append(c, [path |-> paths[a + 1], size |-> n]))
<1> DEFINE Fetched == [path : Paths \cup {Rest}, size : Nat]
<1> PICK x \in Fetched : x = [path |-> paths[a + 1], size |-> n]
  OBVIOUS
<1>0. x.path = paths[a + 1] /\ x.size = n
  OBVIOUS
<1>1. /\ c \in Seq(Fetched)
      /\ \A i \in 1..Len(c) : \E k \in 1..a : k <= Len(paths) /\ c[i].path = paths[k]
      /\ \A i, j \in 1..Len(c) : c[i].path = c[j].path => i = j
      /\ t \in Nat /\ t = SizeOf(c) /\ a \in Nat /\ Len(c) <= a
  BY DEF Fetches
<1> HIDE DEF Fetched
<1> PICK more : more = Append(c, x)
  OBVIOUS
<1> PICK l \in Nat : l = Len(c)
  BY <1>1
<1> PICK p \in Nat : p = Len(paths)
  OBVIOUS
<1>2. /\ more \in Seq(Fetched) /\ Len(more) = l + 1 /\ more[l + 1] = x
      /\ \A j \in 1..l : more[j] = c[j]
  BY <1>1, AppendIs
<1>3. /\ m.files \in Nat /\ a \in Nat /\ l <= a /\ a < p /\ a < m.files
  BY <1>1
<1>4. /\ a + 1 \in Nat /\ l + 1 <= a + 1 /\ a + 1 <= m.files
      /\ a + 1 <= p /\ a + 1 \in 1..(a + 1) /\ a + 1 \in 1..p
      /\ 1..(l + 1) = 1..l \cup {l + 1} /\ l + 1 \notin 1..l
      /\ \A k \in 1..a : k \in 1..(a + 1) /\ k \in 1..p /\ k # a + 1
  BY ONLY <1>3, l \in Nat, p \in Nat
<1>5. ASSUME NEW i \in 1..(l + 1)
      PROVE  \E k \in 1..(a + 1) : k <= p /\ more[i].path = paths[k]
  <2>1. CASE i = l + 1
    BY <1>0, <1>2, <1>4, <2>1
  <2>2. CASE i \in 1..l
    <3>1. PICK k \in 1..a : k <= p /\ c[i].path = paths[k]
      BY <1>1, <2>2
    <3> QED BY <1>2, <1>4, <2>2, <3>1
  <2> QED BY <1>4, <2>1, <2>2
<1>6. \A i \in 1..l : more[i].path # more[l + 1].path
  <2> SUFFICES ASSUME NEW i \in 1..l PROVE c[i].path # paths[a + 1]
    BY <1>0, <1>2
  <2>1. PICK k \in 1..a : k <= p /\ c[i].path = paths[k]
    BY <1>1
  <2> QED BY <1>4, <2>1
<1>7. ASSUME NEW i \in 1..(l + 1), NEW j \in 1..(l + 1), more[i].path = more[j].path
      PROVE  i = j
  <2>1. CASE i \in 1..l /\ j \in 1..l
    BY <1>1, <1>2, <1>7, <2>1
  <2>2. CASE i = l + 1 /\ j \in 1..l
    BY <1>6, <1>7, <2>2
  <2>3. CASE i \in 1..l /\ j = l + 1
    BY <1>6, <1>7, <2>3
  <2>4. CASE i = l + 1 /\ j = l + 1
    BY <2>4
  <2> QED BY <1>4, <2>1, <2>2, <2>3, <2>4
<1>8. t + n = SizeOf(more) /\ t + n \in Nat
  <2>1. SizeOf(more) = SizeOf(c) + x.size
    BY <1>1, SizeGrows
  <2> QED BY <1>0, <1>1, <2>1
<1>9. Fetches(paths, m, a + 1, t + n, more)
  <2>1. /\ more \in Seq(Fetched)
        /\ \A i \in 1..Len(more) :
             \E k \in 1..(a + 1) : k <= Len(paths) /\ more[i].path = paths[k]
        /\ \A i, j \in 1..Len(more) : more[i].path = more[j].path => i = j
    BY <1>2, <1>5, <1>7
  <2>2. /\ Len(more) <= a + 1 /\ a + 1 <= Len(paths)
        /\ a + 1 \in Nat /\ a + 1 <= m.files
    BY <1>2, <1>4
  <2> QED BY <1>8, <2>1, <2>2 DEF Fetches, Fetched
<1> QED BY <1>9

LEMMA RoomIs ==
  ASSUME NEW b \in Nat, NEW u \in Nat, u <= b, NEW w \in Nat, b < w
  PROVE  (b - u) % w = b - u
<1>1. b - u \in Nat /\ b - u < w
  OBVIOUS
<1> QED BY <1>1

(* Some of the files, and the paths their diff is fetched for.             *)
LEMMA PickedPaths ==
  ASSUME NEW fs \in Seq(Files), NEW k \in Seq(1..Len(fs)),
         NEW first \in {<<>>, <<Text>>}
  PROVE  LET paths == ChangedPaths(DiffOf(first, Picked(fs, k)))
         IN  /\ Len(paths) \in Nat
             /\ \A x \in 1..Len(paths) :
                  /\ paths[x] \in Paths \cup {Rest}
                  /\ \E i \in ToSet(k) : /\ paths[x] \in Names(fs[i])
                                         /\ fs[i].kind # "delete"
             /\ \A x, y \in 1..Len(paths) : paths[x] = paths[y] => x = y
<1> PICK n \in Nat : n = Len(k)
  OBVIOUS
<1> PICK some : some = Picked(fs, k)
  OBVIOUS
<1>1. /\ some \in Seq(Files) /\ Len(some) = n
      /\ \A j \in 1..n : some[j] = fs[k[j]] /\ k[j] \in ToSet(k) /\ fs[k[j]] \in Files
  <2>1. \A j \in 1..n : fs[k[j]] \in Files
    OBVIOUS
  <2>2. some = [j \in 1..n |-> fs[k[j]]]
    BY DEF Picked
  <2>3. \A j \in 1..n : k[j] \in ToSet(k)
    <3>1. DOMAIN k = 1..n
      OBVIOUS
    <3> QED BY ONLY <3>1 DEF ToSet
  <2>4. some \in Seq(Files) /\ Len(some) = n
    BY ONLY <2>1, <2>2, n \in Nat
  <2> QED BY ONLY <2>1, <2>2, <2>3, <2>4
<1> PICK paths : paths = ChangedPaths(DiffOf(first, some))
  OBVIOUS
<1>2. /\ Len(paths) \in Nat
      /\ \A x \in 1..Len(paths) : \E j \in 1..Len(some) :
           paths[x] \in Names(some[j]) /\ some[j].kind # "delete"
      /\ \A x, y \in 1..Len(paths) : paths[x] = paths[y] => x = y
  <2>1. some \in Seq(Files)
    BY <1>1
  <2>2. LET list == ChangedPaths(DiffOf(first, some))
        IN  /\ Len(list) \in Nat
            /\ \A x \in 1..Len(list) : \E j \in 1..Len(some) :
                 list[x] \in Names(some[j]) /\ some[j].kind # "delete"
            /\ \A x, y \in 1..Len(list) : list[x] = list[y] => x = y
    BY ONLY <2>1, first \in {<<>>, <<Text>>}, ChangedAre
  <2> QED BY ONLY <2>2, paths = ChangedPaths(DiffOf(first, some))
<1>3. ASSUME NEW x \in 1..Len(paths)
      PROVE  /\ paths[x] \in Paths \cup {Rest}
             /\ \E i \in ToSet(k) : paths[x] \in Names(fs[i]) /\ fs[i].kind # "delete"
  <2>1. PICK j \in 1..n : paths[x] \in Names(fs[k[j]]) /\ fs[k[j]].kind # "delete"
    <3>1. PICK j \in 1..n : paths[x] \in Names(some[j]) /\ some[j].kind # "delete"
      BY ONLY <1>1, <1>2, x \in 1..Len(paths)
    <3>2. some[j] = fs[k[j]]
      BY ONLY <1>1, <3>1
    <3> QED BY ONLY <3>1, <3>2
  <2>2. fs[k[j]].path \in Paths
    BY <1>1 DEF Files
  <2> QED BY <1>1, <2>1, <2>2 DEF Names
<1> QED BY <1>2, <1>3

LEMMA InputBegins == InputInit => InputInv
<1> SUFFICES ASSUME InputInit PROVE InputInv
  OBVIOUS
<1>1. DiffInv
  BY DiffInit
<1>2. /\ pc = "start" /\ next = 1 /\ kept = <<>> /\ omitted = <<>>
      /\ attempts = 0 /\ total = 0 /\ context = <<>>
  BY DEF InputInit
<1> QED BY <1>1, <1>2 DEF InputInv

LEMMA InputStep == InputInv /\ [InputNext]_reviewInputVars => InputInv'
<1> SUFFICES ASSUME InputInv, [InputNext]_reviewInputVars PROVE InputInv'
  OBVIOUS
<1>1. DiffInv /\ DiffInv' /\ UNCHANGED inputVars
  BY DiffStays DEF InputInv
<1>2. /\ files' = files /\ budget' = budget /\ diff' = diff /\ caps' = caps
      /\ caps \in [total : Nat, files : Nat]
      /\ Preamble' = Preamble /\ Sections' = Sections
  BY <1>1 DEF DiffInv, inputVars, Preamble, Sections
<1>3. /\ Preamble \in {<<>>, <<Text>>} /\ diff = DiffOf(Preamble, files)
      /\ Len(files) \in Nat /\ Len(Sections) = Len(files)
      /\ \A i \in 1..Len(files) : Sections[i].text = Section(files[i])
  BY <1>1, SectionsOf
<1> PICK a \in Nat : a = Len(Preamble)
  <2>1. Len(<<>>) \in Nat /\ Len(<<Text>>) \in Nat
    OBVIOUS
  <2> QED BY <1>3, <2>1
<1>4. files \in Seq(Files) /\ budget \in Nat /\ SizeMax \in Nat /\ budget < SizeMax
  <2>1. files \in Seq(Files) /\ budget \in 0..MaxBudget
    BY <1>1 DEF DiffInv
  <2>2. MaxBudget \in Nat /\ SizeMax \in Nat /\ SizeMax > MaxBudget
    BY BoundsAssumption
  <2> QED BY <2>1, <2>2
<1>5. /\ pc \in {"start", "trim", "context", "notice", "done"}
      /\ pc = "start" => next = 1 /\ kept = <<>> /\ omitted = <<>>
      /\ pc = "trim" =>
           /\ next \in 1..(Len(files) + 1)
           /\ Divided(files, a, budget, next - 1, kept, omitted)
           /\ used = a + Filled(files, kept)
      /\ pc \in {"context", "done"} =>
           /\ Divided(files, a, budget, Len(files), kept, omitted)
           /\ request = DiffOf(Preamble, Picked(files, kept))
           /\ Fetches(ChangedPaths(request), caps, attempts, total, context)
      /\ pc \notin {"context", "done"} => attempts = 0 /\ total = 0 /\ context = <<>>
  BY DEF InputInv
(* What is to be shown of the next state.                                  *)
<1> DEFINE Stays ==
      /\ pc' \in {"start", "trim", "context", "notice", "done"}
      /\ pc' = "start" => next' = 1 /\ kept' = <<>> /\ omitted' = <<>>
      /\ pc' = "trim" =>
           /\ next' \in 1..(Len(files) + 1)
           /\ Divided(files, a, budget, next' - 1, kept', omitted')
           /\ used' = a + Filled(files, kept')
      /\ pc' \in {"context", "done"} =>
           /\ Divided(files, a, budget, Len(files), kept', omitted')
           /\ request' = DiffOf(Preamble, Picked(files, kept'))
           /\ Fetches(ChangedPaths(request'), caps, attempts', total', context')
      /\ pc' \notin {"context", "done"} =>
           attempts' = 0 /\ total' = 0 /\ context' = <<>>
<1> SUFFICES Stays
  BY <1>1, <1>2 DEF InputInv
<1>6. ASSUME NEW k \in Seq(1..Len(files))
      PROVE  Len(ChangedPaths(DiffOf(Preamble, Picked(files, k)))) \in Nat
  BY <1>3, <1>4, PickedPaths
<1>7. ASSUME pc = "trim", next <= Len(files)
      PROVE  /\ next \in Nat /\ next - 1 \in Nat /\ (next - 1) + 1 = next
             /\ next - 1 < Len(files) /\ next + 1 \in 1..(Len(files) + 1)
             /\ Divided(files, a, budget, next - 1, kept, omitted)
             /\ used \in Nat /\ used = a + Filled(files, kept) /\ used <= budget
             /\ Room = budget - used
             /\ Len(Section(files[next])) \in Nat
             /\ Sections[next].text = Section(files[next])
  <2>1. /\ next \in 1..(Len(files) + 1) /\ used = a + Filled(files, kept)
        /\ Divided(files, a, budget, next - 1, kept, omitted)
    BY <1>5, <1>7
  <2>2. /\ next \in Nat /\ next - 1 \in Nat /\ (next - 1) + 1 = next
        /\ next - 1 < Len(files) /\ next + 1 \in 1..(Len(files) + 1)
        /\ next - 1 <= Len(files) /\ next \in 1..Len(files)
    BY ONLY <1>7, <2>1, Len(files) \in Nat, <1>3
  <2>3. kept \in Seq(1..(next - 1)) /\ a + Filled(files, kept) <= budget
    BY <2>1 DEF Divided
  <2>4. kept \in Seq(1..Len(files))
    BY ONLY <1>3, <2>2, <2>3, NumbersWiden
  <2>5. Filled(files, kept) \in Nat
    BY ONLY <1>4, <2>2, <2>4, FilledGrows
  <2>6. used \in Nat /\ used <= budget
    BY ONLY <2>1, <2>3, <2>5, a \in Nat
  <2>7. Room = budget - used
    BY <1>4, <2>6, RoomIs DEF Room
  <2>8. files[next] \in Files
    BY ONLY <1>4, <2>2
  <2>9. Len(Section(files[next])) \in Nat
    BY <2>8, SectionIs
  <2> QED BY <1>3, <2>1, <2>2, <2>6, <2>7, <2>9
<1>8. CASE TakeWhole
  <2>1. /\ pc = "start" /\ Len(diff) <= budget /\ request' = diff
        /\ kept' = Numbers(Sections) /\ pc' = "context" /\ omitted' = <<>>
        /\ attempts' = 0 /\ total' = 0 /\ context' = <<>>
    BY <1>5, <1>8 DEF TakeWhole, contextVars
  <2>2. kept' = [i \in 1..Len(files) |-> i]
    BY <1>3, <2>1 DEF Numbers
  <2>3. /\ Divided(files, a, budget, Len(files), kept', <<>>)
        /\ files = Picked(files, kept')
    BY <1>3, <1>4, <2>1, <2>2, DividedWhole DEF Picked
  <2>4. request' = DiffOf(Preamble, Picked(files, kept'))
    BY <1>3, <2>1, <2>3
  <2>5. kept' \in Seq(1..Len(files))
    BY <2>3 DEF Divided
  <2>6. Fetches(ChangedPaths(request'), caps, 0, 0, <<>>)
    BY <1>2, <1>6, <2>4, <2>5, FetchesStart
  <2> QED BY <2>1, <2>3, <2>4, <2>6
<1>9. CASE StartTrim
  <2>1. /\ pc = "start" /\ pc' \in {"trim", "notice"} /\ kept' = <<>>
        /\ attempts' = 0 /\ total' = 0 /\ context' = <<>> /\ next' = 1
        /\ pc' = "trim" => PreambleFits /\ omitted' = <<>> /\ used' = Len(Preamble)
    BY <1>5, <1>9 DEF StartTrim, contextVars
  <2>2. pc' = "trim" => a <= budget
    BY <2>1 DEF PreambleFits
  <2>3. pc' = "trim" => /\ Divided(files, a, budget, 0, <<>>, <<>>)
                        /\ Filled(files, <<>>) = 0
    BY <1>4, <2>2, DividedStarts
  <2>4. 1 \in 1..(Len(files) + 1) /\ 1 - 1 = 0 /\ a + 0 = a
    BY <1>3
  <2> QED BY <2>1, <2>3, <2>4
<1>10. CASE KeepSection
  <2>1. /\ pc = "trim" /\ next <= Len(files)
        /\ Len(Sections[next].text) <= Room
        /\ used' = used + Len(Sections[next].text)
        /\ kept' = Append(kept, next) /\ next' = next + 1
        /\ pc' = "trim" /\ omitted' = omitted
        /\ attempts' = 0 /\ total' = 0 /\ context' = <<>>
    BY <1>3, <1>5, <1>10 DEF KeepSection, contextVars
  <2>2. /\ next \in Nat /\ next - 1 \in Nat /\ (next - 1) + 1 = next
        /\ next - 1 < Len(files) /\ next + 1 \in 1..(Len(files) + 1)
        /\ Divided(files, a, budget, next - 1, kept, omitted)
        /\ used \in Nat /\ used = a + Filled(files, kept) /\ used <= budget
        /\ Room = budget - used
        /\ Len(Section(files[next])) \in Nat
        /\ Sections[next].text = Section(files[next])
    BY <1>7, <2>1
  <2>3. a + Filled(files, kept) + Len(Section(files[next])) <= budget
    BY ONLY <1>4, <2>1, <2>2
  <2>4. Divided(files, a, budget, next, Append(kept, next), omitted)
    <3>1. PICK m \in Nat : m = next - 1 /\ m + 1 = next /\ m < Len(files)
      BY <2>2
    <3>2. Divided(files, a, budget, m + 1, Append(kept, m + 1), omitted)
      BY <1>4, <2>2, <2>3, <3>1, DividedKeeps
    <3> QED BY <3>1, <3>2
  <2>5. used' = a + Filled(files, kept')
    <3>1. kept \in Seq(1..(next - 1))
      BY <2>2 DEF Divided
    <3>2. kept \in Seq(1..Len(files)) /\ next \in 1..Len(files)
      <4>1. next - 1 <= Len(files) /\ next \in 1..Len(files)
        BY <1>3, <2>1, <2>2
      <4> QED BY ONLY <1>3, <2>2, <3>1, <4>1, NumbersWiden
    <3>3. /\ Filled(files, kept) \in Nat
          /\ Filled(files, kept') = Filled(files, kept) + Len(Section(files[next]))
      BY <1>4, <2>1, <3>2, FilledGrows
    <3> QED BY ONLY <2>1, <2>2, <3>3, a \in Nat
  <2>6. next' - 1 = next
    BY <2>1, <2>2
  <2> QED BY <2>1, <2>2, <2>4, <2>5, <2>6
<1>11. CASE OmitSection
  <2>1. /\ pc = "trim" /\ next <= Len(files)
        /\ Len(Sections[next].text) > Room
        /\ omitted' = Append(omitted, next) /\ next' = next + 1
        /\ pc' = "trim" /\ kept' = kept /\ used' = used
        /\ attempts' = 0 /\ total' = 0 /\ context' = <<>>
    BY <1>3, <1>5, <1>11 DEF OmitSection, contextVars
  <2>2. /\ next \in Nat /\ next - 1 \in Nat /\ (next - 1) + 1 = next
        /\ next - 1 < Len(files) /\ next + 1 \in 1..(Len(files) + 1)
        /\ Divided(files, a, budget, next - 1, kept, omitted)
        /\ used \in Nat /\ used = a + Filled(files, kept) /\ used <= budget
        /\ Room = budget - used
        /\ Len(Section(files[next])) \in Nat
        /\ Sections[next].text = Section(files[next])
    BY <1>7, <2>1
  <2>3. a + Filled(files, kept) + Len(Section(files[next])) > budget
    BY ONLY <1>4, <2>1, <2>2
  <2>4. Divided(files, a, budget, next, kept, Append(omitted, next))
    <3>1. PICK m \in Nat : m = next - 1 /\ m + 1 = next /\ m < Len(files)
      BY <2>2
    <3>2. Divided(files, a, budget, m + 1, kept, Append(omitted, m + 1))
      BY <1>4, <2>2, <2>3, <3>1, DividedOmits
    <3> QED BY <3>1, <3>2
  <2>5. next' - 1 = next
    BY <2>1, <2>2
  <2> QED BY <2>1, <2>2, <2>4, <2>5
<1>12. CASE EndTrim
  <2>1. /\ pc = "trim" /\ next > Len(files) /\ pc' \in {"notice", "context"}
        /\ pc' = "context" => request' = KeptText
        /\ kept' = kept /\ omitted' = omitted
        /\ attempts' = 0 /\ total' = 0 /\ context' = <<>>
    BY <1>3, <1>5, <1>12 DEF EndTrim, contextVars, trimVars
  <2>2. next - 1 = Len(files)
    BY <1>3, <1>5, <2>1
  <2>3. Divided(files, a, budget, Len(files), kept, omitted)
    BY <1>5, <2>1, <2>2
  <2>4. kept \in Seq(1..Len(files))
    BY <2>3 DEF Divided
  <2>5. KeptText = DiffOf(Preamble, Picked(files, kept))
    <3> PICK n \in Nat : n = Len(kept)
      BY <2>4
    <3> PICK some : some = Picked(files, kept)
      OBVIOUS
    <3>1. some = [j \in 1..n |-> files[kept[j]]]
      BY DEF Picked
    <3>2. Len(some) = n /\ \A j \in 1..n : some[j] = files[kept[j]]
      BY ONLY <3>1, n \in Nat
    <3>3. \A j \in 1..n : kept[j] \in 1..Len(files)
      BY <2>4
    <3>4. \A j \in 1..n : Sections[kept[j]].text = Section(some[j])
      BY <1>3, <3>2, <3>3
    <3> QED BY <3>2, <3>4 DEF KeptText, DiffOf
  <2>6. pc' = "context" => Fetches(ChangedPaths(request'), caps, 0, 0, <<>>)
    BY <1>2, <1>6, <2>1, <2>4, <2>5, FetchesStart
  <2> QED BY <2>1, <2>3, <2>5, <2>6
<1>13. ASSUME pc = "context", UNCHANGED trimVars, UNCHANGED request,
              pc' \in {"context", "done"},
              \/ UNCHANGED contextVars
              \/ Fetches(ChangedPaths(request), caps, attempts', total', context')
       PROVE  Stays
  <2>1. kept' = kept /\ omitted' = omitted /\ request' = request
    BY <1>13 DEF trimVars
  <2>2. /\ Divided(files, a, budget, Len(files), kept, omitted)
        /\ request = DiffOf(Preamble, Picked(files, kept))
        /\ Fetches(ChangedPaths(request), caps, attempts, total, context)
    BY <1>5, <1>13
  <2>3. Fetches(ChangedPaths(request'), caps, attempts', total', context')
    BY <1>13, <2>1, <2>2 DEF contextVars
  <2> QED BY <1>13, <2>1, <2>2, <2>3
<1>14. ASSUME Fetching
       PROVE  /\ Fetches(ChangedPaths(request), caps, attempts, total, context)
              /\ Len(ChangedPaths(request)) \in Nat
              /\ attempts < Len(ChangedPaths(request))
              /\ attempts < caps.files /\ caps.total # 0
              /\ Candidate \in Paths \cup {Rest}
              /\ \A x, y \in 1..Len(ChangedPaths(request)) :
                   ChangedPaths(request)[x] = ChangedPaths(request)[y] => x = y
  <2>1. /\ Divided(files, a, budget, Len(files), kept, omitted)
        /\ request = DiffOf(Preamble, Picked(files, kept))
        /\ Fetches(ChangedPaths(request), caps, attempts, total, context)
        /\ attempts < Len(ChangedPaths(request))
        /\ attempts < caps.files /\ caps.total # 0
    BY <1>5, <1>14 DEF Fetching
  <2>2. kept \in Seq(1..Len(files))
    BY <2>1 DEF Divided
  <2> PICK paths : paths = ChangedPaths(request)
    OBVIOUS
  <2>3. /\ Len(paths) \in Nat
        /\ \A x \in 1..Len(paths) : paths[x] \in Paths \cup {Rest}
        /\ \A x, y \in 1..Len(paths) : paths[x] = paths[y] => x = y
    <3>1. LET list == ChangedPaths(DiffOf(Preamble, Picked(files, kept)))
          IN  /\ Len(list) \in Nat
              /\ \A x \in 1..Len(list) : list[x] \in Paths \cup {Rest}
              /\ \A x, y \in 1..Len(list) : list[x] = list[y] => x = y
      BY ONLY <1>3, <1>4, <2>2, PickedPaths
    <3> QED BY ONLY <2>1, <3>1, paths = ChangedPaths(request)
  <2>4. attempts \in Nat
    BY <2>1 DEF Fetches
  <2>5. attempts + 1 \in 1..Len(paths)
    BY ONLY <2>1, <2>3, <2>4, paths = ChangedPaths(request)
  <2> QED BY <2>1, <2>3, <2>5 DEF Candidate
<1>15. CASE SkipContext
  BY <1>13, <1>15 DEF SkipContext
<1>16. CASE FetchFile
  <2>1. Fetching /\ attempts' = attempts + 1
        /\ UNCHANGED <<pc, inputVars, trimVars, request>>
    BY <1>16 DEF FetchFile
  <2>2. PICK n \in 0..MaxContent :
          /\ total + n <= caps.total
          /\ total' = total + n
          /\ context' = Append(context, [path |-> Candidate, size |-> n])
    BY <1>16 DEF FetchFile
  <2>3. n \in Nat
    BY BoundsAssumption
  <2>4. Fetches(ChangedPaths(request), caps, attempts + 1, total + n,
                Append(context, [path |-> Candidate, size |-> n]))
    BY <1>2, <1>14, <2>1, <2>2, <2>3, FetchesFile DEF Candidate
  <2> QED BY <1>13, <2>1, <2>2, <2>4 DEF Fetching
<1>17. CASE FetchNothing \/ FetchStops
  <2>1. /\ Fetching /\ attempts' = attempts + 1 /\ pc' \in {"context", "done"}
        /\ UNCHANGED <<trimVars, request, total, context>>
    BY <1>17 DEF FetchNothing, FetchStops, Fetching
  <2>2. Fetches(ChangedPaths(request), caps, attempts + 1, total, context)
    BY <1>2, <1>14, <2>1, FetchesNothing
  <2> QED BY <1>13, <2>1, <2>2 DEF Fetching
<1>18. CASE ContextEnds
  BY <1>13, <1>18 DEF ContextEnds
<1>19. CASE UNCHANGED reviewInputVars
  BY <1>5, <1>19 DEF reviewInputVars, trimVars, contextVars
<1> QED BY <1>8, <1>9, <1>10, <1>11, <1>12, <1>15, <1>16, <1>17, <1>18, <1>19
        DEF InputNext

(* A trimmed diff holds every file that fits behind those kept before it,  *)
(* and no byte more than the budget, for every pull request and budget.    *)
THEOREM TrimTheorem == InputSpec => []TrimIsGreedy
<1>1. InputInv => TrimIsGreedy
  <2> SUFFICES ASSUME InputInv, pc \in {"context", "done"}
               PROVE  /\ Len(request) <= budget
                      /\ ToSet(kept) \cup ToSet(omitted) = 1..Len(files)
                      /\ Len(kept) + Len(omitted) = Len(files)
                      /\ \A i \in ToSet(omitted) :
                           \E n \in 0..Len(kept) :
                             /\ \A k \in 1..Len(kept) : kept[k] < i <=> k <= n
                             /\ Len(Preamble)
                                  + Len(FlattenSeq(TextsOf(SubSeq(kept, 1, n))))
                                  + Len(Section(files[i])) > budget
    BY DEF TrimIsGreedy
  <2>1. /\ DiffInv
        /\ Divided(files, Len(Preamble), budget, Len(files), kept, omitted)
        /\ request = DiffOf(Preamble, Picked(files, kept))
    BY DEF InputInv
  <2>2. /\ kept \in Seq(1..Len(files))
        /\ ToSet(kept) \cup ToSet(omitted) = 1..Len(files)
        /\ Len(kept) + Len(omitted) = Len(files)
        /\ Len(Preamble) + Filled(files, kept) <= budget
        /\ \A i \in ToSet(omitted) :
             LeftOut(files, Len(Preamble), budget, kept, i)
    BY <2>1 DEF Divided
  <2>3. \A k : Filled(files, k) = Len(FlattenSeq(TextsOf(k)))
    BY DEF Filled, TextsOf
  <2>4. \A i \in ToSet(omitted) :
          \E n \in 0..Len(kept) :
            /\ \A k \in 1..Len(kept) : kept[k] < i <=> k <= n
            /\ Len(Preamble) + Len(FlattenSeq(TextsOf(SubSeq(kept, 1, n))))
                 + Len(Section(files[i])) > budget
    BY <2>2, <2>3 DEF LeftOut
  <2>5. Len(request) = Len(Preamble) + Filled(files, kept)
    <3> PICK n \in Nat : n = Len(kept)
      BY <2>2
    <3> PICK secs : secs = [j \in 1..n |-> Section(files[kept[j]])]
      OBVIOUS
    <3>1. files \in Seq(Files) /\ Preamble \in {<<>>, <<Text>>}
      BY <2>1, SectionsOf DEF DiffInv
    <3>2. \A j \in 1..n : Section(files[kept[j]]) \in Seq(Lines)
      <4>1. \A j \in 1..n : files[kept[j]] \in Files
        BY <2>2, <3>1
      <4> QED BY <4>1, SectionIs
    <3>3. secs \in Seq(Seq(Lines))
      BY <3>2
    <3>4. FlattenSeq(secs) \in Seq(Lines)
      BY <3>3, FlattenIsLaid
    <3>5. Preamble \in Seq(Lines)
      <4>1. Text \in Lines
        BY DEF Lines, LineKinds, Text, Line
      <4>2. <<Text>> \in Seq(Lines) /\ <<>> \in Seq(Lines)
        BY <4>1
      <4> QED BY <3>1, <4>2
    <3>6. Filled(files, kept) = Len(FlattenSeq(secs))
      BY DEF Filled
    <3>7. request = Preamble \o FlattenSeq(secs)
      <4> PICK some : some = Picked(files, kept)
        OBVIOUS
      <4>1. some = [j \in 1..n |-> files[kept[j]]]
        BY DEF Picked
      <4>2. Len(some) = n /\ \A j \in 1..n : some[j] = files[kept[j]]
        BY ONLY <4>1, n \in Nat
      <4> QED BY <2>1, <4>2 DEF DiffOf
    <3> QED BY <3>4, <3>5, <3>6, <3>7, Joined
  <2> QED BY <2>2, <2>4, <2>5
<1> QED BY <1>1, InputBegins, InputStep, PTL DEF InputSpec

(* The context is of files the reviewer sees in the diff, each once, and   *)
(* within both caps, and empty where either is 0, for every pull request   *)
(* and all caps.                                                           *)
THEOREM ContextTheorem == InputSpec => []ContextIsShown
<1>1. InputInv => ContextIsShown
  <2> SUFFICES ASSUME InputInv PROVE ContextIsShown
    OBVIOUS
  <2>1. CASE pc \in {"context", "done"}
    <3>1. /\ DiffInv
          /\ Divided(files, Len(Preamble), budget, Len(files), kept, omitted)
          /\ request = DiffOf(Preamble, Picked(files, kept))
          /\ Fetches(ChangedPaths(request), caps, attempts, total, context)
      BY <2>1 DEF InputInv
    <3>2. kept \in Seq(1..Len(files)) /\ files \in Seq(Files)
      BY <3>1 DEF Divided, DiffInv
    <3>3. Preamble \in {<<>>, <<Text>>}
      BY <3>1, SectionsOf
    <3> PICK paths : paths = ChangedPaths(request)
      OBVIOUS
    <3>4. \A x \in 1..Len(paths) :
            \E i \in ToSet(kept) : paths[x] \in Names(files[i]) /\ files[i].kind # "delete"
      <4>1. LET list == ChangedPaths(DiffOf(Preamble, Picked(files, kept)))
            IN  \A x \in 1..Len(list) :
                  \E i \in ToSet(kept) : /\ list[x] \in Names(files[i])
                                         /\ files[i].kind # "delete"
        BY ONLY <3>2, <3>3, PickedPaths, SMTT(30)
      <4> QED BY ONLY <3>1, <4>1, paths = ChangedPaths(request)
    <3>5. /\ context \in Seq([path : Paths \cup {Rest}, size : Nat])
          /\ \A i \in 1..Len(context) :
               \E k \in 1..attempts : k <= Len(paths) /\ context[i].path = paths[k]
          /\ \A i, j \in 1..Len(context) : context[i].path = context[j].path => i = j
          /\ total = SizeOf(context) /\ total <= caps.total
          /\ attempts \in Nat /\ Len(context) <= attempts /\ attempts <= caps.files
          /\ attempts <= Len(paths) /\ (caps.total = 0 => attempts = 0)
      BY <3>1 DEF Fetches
    <3>6. ASSUME NEW i \in 1..Len(context)
          PROVE  \E k \in ToSet(kept) : /\ context[i].path \in Names(files[k])
                                        /\ files[k].kind # "delete"
      <4>1. PICK k \in 1..attempts : k <= Len(paths) /\ context[i].path = paths[k]
        BY <3>5
      <4>2. k \in 1..Len(paths)
        <5>1. Len(paths) \in Nat
          BY <3>2, <3>3, <3>1, PickedPaths
        <5> QED BY ONLY <3>5, <4>1, <5>1
      <4> QED BY <3>4, <4>1, <4>2
    <3>7. IsInjective([i \in 1..Len(context) |-> context[i].path])
      BY <3>5 DEF IsInjective
    <3> QED BY <3>5, <3>6, <3>7 DEF ContextIsShown
  <2>2. CASE pc \notin {"context", "done"}
    <3>1. attempts = 0 /\ total = 0 /\ context = <<>>
      BY <2>2 DEF InputInv
    <3>2. Fetches(<<>>, caps, 0, 0, <<>>)
      BY FetchesStart DEF InputInv, DiffInv
    <3>3. 0 = SizeOf(<<>>) /\ 0 <= caps.total /\ Len(<<>>) <= 0 /\ 0 <= caps.files
      BY <3>2 DEF Fetches
    <3>4. 1..Len(<<>>) = {}
      OBVIOUS
    <3>5. IsInjective([i \in 1..Len(<<>>) |-> <<>>[i].path])
      BY <3>4 DEF IsInjective
    <3> QED BY <3>1, <3>3, <3>4, <3>5 DEF ContextIsShown
  <2> QED BY <2>1, <2>2
<1> QED BY <1>1, InputBegins, InputStep, PTL DEF InputSpec

-----------------------------------------------------------------------------
LEMMA Halves ==
  ASSUME NEW n \in Nat, NEW k \in 1..(2 * n)
  PROVE  \E i \in 1..n :
           \/ k = 2 * i - 1 /\ k % 2 = 1 /\ (k - 1) \div 2 = i - 1
           \/ k = 2 * i /\ k % 2 = 0 /\ k \div 2 = i
<1>1. CASE k % 2 = 1
  <2>1. k = 2 * ((k - 1) \div 2) + 1
    BY <1>1
  <2> QED BY <1>1, <2>1
<1>2. CASE k % 2 = 0
  <2>1. k = 2 * (k \div 2)
    BY <1>2
  <2> QED BY <1>2, <2>1
<1>3. k % 2 \in {0, 1}
  OBVIOUS
<1> QED BY <1>1, <1>2, <1>3

LEMMA Doubles ==
  ASSUME NEW n \in Nat, NEW i \in 1..n
  PROVE  /\ 2 * i - 1 \in 1..(2 * n) /\ (2 * i - 1) % 2 = 1
         /\ ((2 * i - 1) - 1) \div 2 = i - 1
         /\ 2 * i \in 1..(2 * n) /\ (2 * i) % 2 = 0 /\ (2 * i) \div 2 = i
OBVIOUS

LEMMA JoinedTwice ==
  ASSUME NEW S, NEW a \in Seq(S), NEW b \in Seq(S), NEW c \in Seq(S)
  PROVE  a \o b \in Seq(S) /\ (a \o b) \o c = a \o (b \o c)
OBVIOUS

(* The parts of two lists, laid one behind the other.                      *)
LEMMA FlattenJoins ==
  ASSUME NEW S, NEW ps \in Seq(Seq(S)), NEW qs \in Seq(Seq(S))
  PROVE  FlattenSeq(ps \o qs) = FlattenSeq(ps) \o FlattenSeq(qs)
<1> PICK n \in Nat : n = Len(qs)
  OBVIOUS
<1> DEFINE T == {m \in Nat : m <= n =>
                   FlattenSeq(ps \o SubSeq(qs, 1, m))
                     = FlattenSeq(ps) \o FlattenSeq(SubSeq(qs, 1, m))}
<1>1. FlattenSeq(ps) \in Seq(S)
  BY FlattenIsLaid
<1>2. 0 \in T
  <2>1. SubSeq(qs, 1, 0) = <<>> /\ ps \o <<>> = ps /\ FlattenSeq(ps) \o <<>> = FlattenSeq(ps)
    BY <1>1
  <2> QED BY <2>1, FlattenEmpty
<1>3. ASSUME NEW m \in 0..(n - 1), m \in T PROVE m + 1 \in T
  <2>1. m \in Nat /\ m + 1 \in Nat /\ m <= n /\ m + 1 <= n /\ m + 1 \in 1..n
    OBVIOUS
  <2> PICK front : front = SubSeq(qs, 1, m)
    OBVIOUS
  <2> PICK q \in Seq(S) : q = qs[m + 1]
    BY <2>1
  <2>2. front \in Seq(Seq(S)) /\ SubSeq(qs, 1, m + 1) = Append(front, q)
    BY <2>1, SMTT(30)
  <2>3. FlattenSeq(ps \o front) = FlattenSeq(ps) \o FlattenSeq(front)
    BY <1>3, <2>1
  <2>4. ps \o Append(front, q) = Append(ps \o front, q) /\ ps \o front \in Seq(Seq(S))
    BY <2>2, SMTT(30)
  <2>5. FlattenSeq(Append(ps \o front, q)) = FlattenSeq(ps \o front) \o q
    <3> PICK both : both = ps \o front
      OBVIOUS
    <3>1. both \in Seq(Seq(S))
      BY <2>4
    <3>2. FlattenSeq(Append(both, q)) = FlattenSeq(both) \o q
      BY ONLY <3>1, q \in Seq(S), FlattenAppends
    <3> QED BY <3>2
  <2>6. FlattenSeq(Append(front, q)) = FlattenSeq(front) \o q /\ FlattenSeq(front) \in Seq(S)
    BY <2>2, FlattenAppends
  <2>7. (FlattenSeq(ps) \o FlattenSeq(front)) \o q = FlattenSeq(ps) \o (FlattenSeq(front) \o q)
    BY ONLY <1>1, <2>6, q \in Seq(S), JoinedTwice
  <2>8. FlattenSeq(ps \o SubSeq(qs, 1, m + 1))
          = FlattenSeq(ps) \o FlattenSeq(SubSeq(qs, 1, m + 1))
    BY ONLY <2>2, <2>3, <2>4, <2>5, <2>6, <2>7
  <2> QED BY <2>1, <2>8
<1>4. n \in T
  <2>1. T \in SUBSET Nat /\ n \in 0..n
    OBVIOUS
  <2> HIDE DEF T
  <2> QED BY <1>2, <1>3, <2>1, NumbersUpTo
<1>5. SubSeq(qs, 1, n) = qs
  OBVIOUS
<1>6. FlattenSeq(ps \o SubSeq(qs, 1, n)) = FlattenSeq(ps) \o FlattenSeq(SubSeq(qs, 1, n))
  BY <1>4
<1> HIDE DEF T
<1> QED BY ONLY <1>5, <1>6

LEMMA FlattenOne ==
  ASSUME NEW S, NEW s \in Seq(S)
  PROVE  FlattenSeq(<<s>>) = s
<1>1. Append(<<>>, s) = <<s>> /\ <<>> \o s = s /\ <<>> \in Seq(Seq(S))
  OBVIOUS
<1>2. FlattenSeq(Append(<<>>, s)) = FlattenSeq(<<>>) \o s
  BY <1>1, FlattenAppends
<1> QED BY <1>1, <1>2, FlattenEmpty

-----------------------------------------------------------------------------
Pairs == {Metadata, TheDiff, AFile}
FenceNames == {"BEGIN_PR_METADATA", "END_PR_METADATA", "BEGIN_DIFF", "END_DIFF",
               "BEGIN_FILE", "END_FILE"}

(* What a payload is made of, its fences apart.                            *)
Words ==
  {"prompt", Newline, "between", "untrusted", "PR title: ", "PR description:",
   "Files omitted", "- ", "?", "word"} \cup UNION {ToSet(t) : t \in Foreign}
Signs == Words \cup Fences

LEMMA FencesAre ==
  /\ Fences = FenceNames
  /\ \A pair \in Pairs : /\ pair = <<pair[1], pair[2]>>
                         /\ ToSet(pair) = {pair[1], pair[2]}
                         /\ pair[1] \in Fences /\ pair[2] \in Fences
<1>1. \A x, y : ToSet(<<x, y>>) = {x, y}
  <2> TAKE x, y
  <2>1. DOMAIN <<x, y>> = {1, 2}
    OBVIOUS
  <2> QED BY <2>1 DEF ToSet
<1>2. /\ ToSet(Metadata) = {"BEGIN_PR_METADATA", "END_PR_METADATA"}
      /\ ToSet(TheDiff) = {"BEGIN_DIFF", "END_DIFF"}
      /\ ToSet(AFile) = {"BEGIN_FILE", "END_FILE"}
  BY <1>1 DEF Metadata, TheDiff, AFile
<1>3. Fences = UNION {ToSet(Metadata), ToSet(TheDiff), ToSet(AFile)}
  BY DEF Fences
<1>4. Fences = FenceNames
  BY <1>2, <1>3 DEF FenceNames
<1>5. ASSUME NEW pair \in Pairs
      PROVE  /\ pair = <<pair[1], pair[2]>>
             /\ ToSet(pair) = {pair[1], pair[2]}
             /\ pair[1] \in Fences /\ pair[2] \in Fences
  BY <1>2, <1>4 DEF Pairs, FenceNames, Metadata, TheDiff, AFile
<1> QED BY <1>4, <1>5

LEMMA WordsAre ==
  /\ Words \cap Fences = {}
  /\ \A t \in Foreign : t \in Seq(Words)
<1>1. \A t \in Foreign : t \in Seq(ToSet(t)) /\ ToSet(t) \cap Fences = {}
  BY NonceAssumption
<1>2. \A t \in Foreign : ToSet(t) \subseteq Words
  BY DEF Words
<1>3. {"prompt", Newline, "between", "untrusted", "PR title: ", "PR description:",
       "Files omitted", "- ", "?", "word"} \cap Fences = {}
  BY FencesAre DEF FenceNames, Newline
<1>4. Words \cap Fences = {}
  BY <1>1, <1>3 DEF Words
<1>5. ASSUME NEW t \in Foreign PROVE t \in Seq(Words)
  BY <1>1, <1>2
<1> QED BY <1>4, <1>5

(* A fenced section, and a payload that is some of them behind a head.     *)
Wrap(pair, mid) == <<pair[1]>> \o mid \o <<pair[2], Newline>>
Wrapped(pairs, mids) == [k \in 1..Len(mids) |-> Wrap(pairs[k], mids[k])]

(* Where its lines are: the i-th section is behind base[i - 1].            *)
StandsAt(head, pairs, mids, pay, base) ==
  /\ base \in [0..Len(mids) -> Nat]
  /\ base[0] = Len(head) /\ base[Len(mids)] = Len(pay)
  /\ \A j \in 1..Len(head) : pay[j] = head[j]
  /\ \A i \in 1..Len(mids) :
       /\ base[i] = base[i - 1] + Len(mids[i]) + 3
       /\ pay[base[i - 1] + 1] = pairs[i][1]
       /\ \A j \in 1..Len(mids[i]) : pay[base[i - 1] + 1 + j] = mids[i][j]
       /\ pay[base[i] - 1] = pairs[i][2]
       /\ pay[base[i]] = Newline
  /\ \A i, k \in 0..Len(mids) : i <= k => base[i] <= base[k]
  /\ \A p \in 1..Len(pay) :
       p <= Len(head) \/ \E i \in 1..Len(mids) : base[i - 1] < p /\ p <= base[i]

LEMMA WrapIs ==
  ASSUME NEW pair \in Pairs, NEW mid \in Seq(Words)
  PROVE  LET w == Wrap(pair, mid)
             l == Len(mid)
         IN  /\ w \in Seq(Signs) /\ l \in Nat /\ Len(w) = l + 3
             /\ w[1] = pair[1] /\ w[l + 2] = pair[2] /\ w[l + 3] = Newline
             /\ \A j \in 1..l : w[1 + j] = mid[j]
<1>1. pair[1] \in Signs /\ pair[2] \in Signs /\ Newline \in Signs /\ mid \in Seq(Signs)
  <2>1. Words \subseteq Signs /\ Newline \in Words
    BY DEF Signs, Words
  <2> QED BY <2>1, FencesAre DEF Signs
<1> PICK a \in Signs, b \in Signs : a = pair[1] /\ b = pair[2]
  BY <1>1
<1> PICK w : w = <<a>> \o mid \o <<b, Newline>>
  OBVIOUS
<1>2. /\ w \in Seq(Signs) /\ Len(mid) \in Nat /\ Len(w) = Len(mid) + 3
      /\ w[1] = a /\ w[Len(mid) + 2] = b /\ w[Len(mid) + 3] = Newline
      /\ \A j \in 1..Len(mid) : w[1 + j] = mid[j]
  BY <1>1
<1> QED BY <1>2 DEF Wrap

LEMMA SectionsStand ==
  ASSUME NEW head \in Seq(Signs), NEW mids \in Seq(Seq(Words)),
         NEW pairs \in Seq(Pairs), Len(pairs) = Len(mids)
  PROVE  LET pay == head \o FlattenSeq(Wrapped(pairs, mids))
         IN  /\ Wrapped(pairs, mids) \in Seq(Seq(Signs)) /\ pay \in Seq(Signs)
             /\ \E base : StandsAt(head, pairs, mids, pay, base)
<1> PICK n \in Nat : n = Len(mids)
  OBVIOUS
<1> PICK a \in Nat : a = Len(head)
  OBVIOUS
<1> PICK ps : ps = Wrapped(pairs, mids)
  OBVIOUS
<1>1. \A i \in 1..n : pairs[i] \in Pairs /\ mids[i] \in Seq(Words)
  OBVIOUS
<1>2. Len(ps) = n /\ ps = [i \in 1..n |-> ps[i]] /\ \A i \in 1..n : ps[i] = Wrap(pairs[i], mids[i])
  <2>1. ps = [i \in 1..n |-> Wrap(pairs[i], mids[i])]
    BY DEF Wrapped
  <2> QED BY ONLY <2>1, n \in Nat
<1>3. \A i \in 1..n :
        /\ ps[i] \in Seq(Signs) /\ Len(mids[i]) \in Nat /\ Len(ps[i]) = Len(mids[i]) + 3
        /\ ps[i][1] = pairs[i][1] /\ ps[i][Len(mids[i]) + 2] = pairs[i][2]
        /\ ps[i][Len(mids[i]) + 3] = Newline
        /\ \A j \in 1..Len(mids[i]) : ps[i][1 + j] = mids[i][j]
  BY <1>1, <1>2, WrapIs, SMTT(60)
<1>4. ps \in Seq(Seq(Signs))
  <2> PICK T : T = Seq(Signs)
    OBVIOUS
  <2>1. \A i \in 1..n : ps[i] \in T
    BY <1>3
  <2>2. ps = [i \in 1..n |-> ps[i]]
    BY <1>2
  <2>3. [i \in 1..n |-> ps[i]] \in Seq(T)
    BY ONLY <2>1, n \in Nat
  <2> QED BY <2>2, <2>3
<1> PICK flat : flat = FlattenSeq(ps)
  OBVIOUS
<1>5. PICK off : flat \in Seq(Signs) /\ Laid(ps, flat, off)
  BY <1>4, FlattenIsLaid
<1> PICK pay : pay = head \o flat
  OBVIOUS
<1>6. /\ pay \in Seq(Signs) /\ Len(pay) = a + Len(flat)
      /\ \A j \in 1..a : pay[j] = head[j]
      /\ \A j \in 1..Len(flat) : pay[a + j] = flat[j]
  BY <1>5, Joined
<1>7. /\ off \in [0..n -> Nat] /\ off[0] = 0 /\ off[n] = Len(flat)
      /\ \A i \in 1..n : off[i] = off[i - 1] + Len(ps[i])
      /\ \A i \in 1..n : \A j \in 1..Len(ps[i]) : flat[off[i - 1] + j] = ps[i][j]
  BY <1>2, <1>5 DEF Laid
<1>8. \A i \in 0..n, k \in 0..n : i <= k => off[i] <= off[k]
  <2> SUFFICES ASSUME NEW i \in 0..n, NEW k \in 0..n, i <= k PROVE off[i] <= off[k]
    OBVIOUS
  <2>1. i \in 0..Len(ps) /\ k \in i..Len(ps)
    BY <1>2
  <2> QED BY <1>4, <1>5, <2>1, LaidMonotone
<1>9. \A p \in 1..off[n] : \E i \in 1..n : off[i - 1] < p /\ p <= off[i]
  <2> SUFFICES ASSUME NEW p \in 1..off[n]
               PROVE  \E i \in 1..n : off[i - 1] < p /\ p <= off[i]
    OBVIOUS
  <2>1. p \in 1..Len(flat)
    BY <1>7
  <2>2. \E i \in 1..Len(ps) : off[i - 1] < p /\ p <= off[i]
    BY ONLY <1>4, <1>5, <2>1, LaidCovers
  <2> QED BY <1>2, <2>2
<1> PICK base : base = [i \in 0..n |-> a + off[i]]
  OBVIOUS
<1>10. base \in [0..n -> Nat] /\ \A i \in 0..n : base[i] = a + off[i] /\ off[i] \in Nat
  <2>1. \A i \in 0..n : off[i] \in Nat /\ a + off[i] \in Nat
    BY ONLY <1>7, a \in Nat
  <2> QED BY <2>1
<1>11. base[0] = a /\ base[n] = Len(pay)
  <2>1. 0 \in 0..n /\ n \in 0..n
    OBVIOUS
  <2>2. base[0] = a + off[0] /\ base[n] = a + off[n]
    BY <1>10, <2>1
  <2>3. off[0] = 0 /\ off[n] = Len(flat) /\ Len(pay) = a + Len(flat)
    BY <1>6, <1>7
  <2> QED BY ONLY <2>2, <2>3, a \in Nat
<1>12. ASSUME NEW i \in 0..n, NEW k \in 0..n, i <= k PROVE base[i] <= base[k]
  <2>1. off[i] <= off[k] /\ off[i] \in Nat /\ off[k] \in Nat
    BY <1>8, <1>10, <1>12
  <2> QED BY <1>10, <2>1
<1>13. ASSUME NEW i \in 1..n
       PROVE  /\ base[i] = base[i - 1] + Len(mids[i]) + 3
              /\ pay[base[i - 1] + 1] = pairs[i][1]
              /\ \A j \in 1..Len(mids[i]) : pay[base[i - 1] + 1 + j] = mids[i][j]
              /\ pay[base[i] - 1] = pairs[i][2]
              /\ pay[base[i]] = Newline
  <2>0. Len(mids[i]) \in Nat
    BY <1>3
  <2> PICK l \in Nat : l = Len(mids[i])
    BY ONLY <2>0
  <2>1. i \in 0..n /\ i - 1 \in 0..n /\ n \in 0..n /\ i <= n
    OBVIOUS
  <2> PICK o \in Nat : o = off[i - 1]
    BY <1>10, <2>1
  <2>2. off[i] = o + (l + 3) /\ base[i - 1] = a + o /\ base[i] = a + (o + (l + 3))
    BY <1>3, <1>7, <1>10, <2>1, SMTT(30)
  <2>3. o + (l + 3) <= Len(flat) /\ Len(flat) \in Nat
    BY <1>7, <1>8, <1>10, <2>1, <2>2
  <2>4. ASSUME NEW j \in 1..(l + 3) PROVE pay[a + (o + j)] = ps[i][j]
    <3>1. o + j \in 1..Len(flat)
      BY ONLY <2>3, o \in Nat, l \in Nat, j \in 1..(l + 3)
    <3>2. Len(ps[i]) = l + 3
      BY <1>3
    <3>3. \A h \in 1..Len(ps[i]) : flat[o + h] = ps[i][h]
      BY <1>7
    <3>4. flat[o + j] = ps[i][j]
      BY ONLY <3>2, <3>3, j \in 1..(l + 3)
    <3> QED BY <1>6, <3>1, <3>4
  <2>5. /\ base[i] = base[i - 1] + l + 3 /\ base[i - 1] + 1 = a + (o + 1)
        /\ base[i] - 1 = a + (o + (l + 2)) /\ base[i] = a + (o + (l + 3))
        /\ 1 \in 1..(l + 3) /\ l + 2 \in 1..(l + 3) /\ l + 3 \in 1..(l + 3)
    BY ONLY <2>2, a \in Nat, o \in Nat, l \in Nat
  <2>6. ASSUME NEW j \in 1..l PROVE pay[base[i - 1] + 1 + j] = mids[i][j]
    <3>1. base[i - 1] + 1 + j = a + (o + (1 + j)) /\ 1 + j \in 1..(l + 3)
      BY ONLY <2>2, a \in Nat, o \in Nat, l \in Nat, j \in 1..l
    <3>2. pay[a + (o + (1 + j))] = ps[i][1 + j]
      BY ONLY <2>4, <3>1
    <3>3. ps[i][1 + j] = mids[i][j]
      BY <1>3
    <3> QED BY ONLY <3>1, <3>2, <3>3
  <2>10. ps[i][1] = pairs[i][1] /\ ps[i][l + 2] = pairs[i][2] /\ ps[i][l + 3] = Newline
    BY <1>3
  <2>11. /\ pay[a + (o + 1)] = ps[i][1] /\ pay[a + (o + (l + 2))] = ps[i][l + 2]
         /\ pay[a + (o + (l + 3))] = ps[i][l + 3]
    BY ONLY <2>4, <2>5
  <2>7. pay[base[i - 1] + 1] = pairs[i][1]
    BY ONLY <2>5, <2>10, <2>11
  <2>8. pay[base[i] - 1] = pairs[i][2]
    BY ONLY <2>5, <2>10, <2>11
  <2>9. pay[base[i]] = Newline
    BY ONLY <2>5, <2>10, <2>11
  <2> QED BY <2>5, <2>6, <2>7, <2>8, <2>9
<1>14. ASSUME NEW p \in 1..Len(pay)
       PROVE  p <= a \/ \E i \in 1..n : base[i - 1] < p /\ p <= base[i]
  <2> SUFFICES ASSUME ~(p <= a) PROVE \E i \in 1..n : base[i - 1] < p /\ p <= base[i]
    OBVIOUS
  <2>1. n \in 0..n
    OBVIOUS
  <2>2. Len(pay) = a + off[n] /\ off[n] \in Nat
    BY <1>6, <1>7, <1>10, <2>1
  <2>3. p - a \in 1..off[n]
    BY ONLY <2>2, ~(p <= a), p \in 1..Len(pay), a \in Nat
  <2>4. PICK i \in 1..n : off[i - 1] < p - a /\ p - a <= off[i]
    BY <1>9, <2>3
  <2>5. i - 1 \in 0..n /\ i \in 0..n
    OBVIOUS
  <2>6. /\ base[i - 1] = a + off[i - 1] /\ base[i] = a + off[i]
        /\ off[i - 1] \in Nat /\ off[i] \in Nat
    BY <1>10, <2>5
  <2>7. base[i - 1] < p /\ p <= base[i]
    BY ONLY <2>4, <2>6, p \in 1..Len(pay), a \in Nat
  <2> QED BY <2>7
<1>15. StandsAt(head, pairs, mids, pay, base)
  BY <1>6, <1>10, <1>11, <1>12, <1>13, <1>14 DEF StandsAt
<1> QED BY <1>4, <1>6, <1>15

(* Its fence lines are the first and the last of every section.            *)
HeadIs(head) ==
  /\ head \in Seq(Signs) /\ Len(head) \in Nat \ {0}
  /\ head[1] \notin Fences /\ head[Len(head)] = Newline
  /\ \A i \in 2..Len(head) : head[i] \in Fences => head[i - 1] # Newline

FenceAt(mids, base) ==
  [k \in 1..(2 * Len(mids)) |-> IF k % 2 = 1 THEN base[(k - 1) \div 2] + 1
                                             ELSE base[k \div 2] - 1]

MidsEnd(mids) ==
  \A k \in 1..Len(mids) : /\ Len(mids[k]) \in Nat \ {0}
                          /\ mids[k][Len(mids[k])] = Newline

LEMMA FenceAtIs ==
  ASSUME NEW mids, Len(mids) \in Nat, NEW base \in [0..Len(mids) -> Nat],
         \A i \in 1..Len(mids) : base[i] > base[i - 1] + 3
  PROVE  /\ FenceAt(mids, base) \in [1..(2 * Len(mids)) -> Nat]
         /\ Len(FenceAt(mids, base)) = 2 * Len(mids)
         /\ \A i \in 1..Len(mids) :
              /\ FenceAt(mids, base)[2 * i - 1] = base[i - 1] + 1
              /\ FenceAt(mids, base)[2 * i] = base[i] - 1
<1> PICK n \in Nat : n = Len(mids)
  OBVIOUS
<1> PICK at : at = FenceAt(mids, base)
  OBVIOUS
<1> DEFINE spot(k) == IF k % 2 = 1 THEN base[(k - 1) \div 2] + 1
                                    ELSE base[k \div 2] - 1
<1>1. at = [k \in 1..(2 * n) |-> spot(k)]
  BY DEF FenceAt
<1>2. ASSUME NEW i \in 1..n
      PROVE  /\ i \in 0..n /\ i - 1 \in 0..n
             /\ base[i] \in Nat /\ base[i - 1] \in Nat /\ base[i] - 1 \in Nat
  <2>1. i \in 0..n /\ i - 1 \in 0..n
    OBVIOUS
  <2>2. base[i] \in Nat /\ base[i - 1] \in Nat
    BY <2>1
  <2>3. base[i] > base[i - 1] + 3
    OBVIOUS
  <2> QED BY ONLY <2>1, <2>2, <2>3
<1>3. ASSUME NEW k \in 1..(2 * n) PROVE spot(k) \in Nat
  <2>1. PICK i \in 1..n : \/ k % 2 = 1 /\ (k - 1) \div 2 = i - 1
                          \/ k % 2 = 0 /\ k \div 2 = i
    BY Halves
  <2>2. base[i - 1] \in Nat /\ base[i] - 1 \in Nat
    BY <1>2
  <2>3. spot(k) = base[i - 1] + 1 \/ spot(k) = base[i] - 1
    BY ONLY <2>1 DEF spot
  <2> HIDE DEF spot
  <2> QED BY <2>2, <2>3
<1>4. \A i \in 1..n : spot(2 * i - 1) = base[i - 1] + 1 /\ spot(2 * i) = base[i] - 1
  <2> SUFFICES ASSUME NEW i \in 1..n
               PROVE  spot(2 * i - 1) = base[i - 1] + 1 /\ spot(2 * i) = base[i] - 1
    OBVIOUS
  <2>1. /\ (2 * i - 1) % 2 = 1 /\ ((2 * i - 1) - 1) \div 2 = i - 1
        /\ (2 * i) % 2 = 0 /\ (2 * i) \div 2 = i
    BY Doubles
  <2> QED BY ONLY <2>1 DEF spot
<1>5. \A i \in 1..n : 2 * i - 1 \in 1..(2 * n) /\ 2 * i \in 1..(2 * n)
  BY ONLY n \in Nat
<1> HIDE DEF spot
<1>6. at \in [1..(2 * n) -> Nat]
  BY <1>1, <1>3
<1>7. Len(at) = 2 * n
  <2>1. 2 * n \in Nat
    OBVIOUS
  <2> QED BY ONLY <1>6, <2>1
<1>8. \A i \in 1..n : at[2 * i - 1] = base[i - 1] + 1 /\ at[2 * i] = base[i] - 1
  BY ONLY <1>1, <1>4, <1>5
<1> QED BY <1>6, <1>7, <1>8

LEMMA FencesLie ==
  ASSUME NEW head, NEW mids \in Seq(Seq(Words)), NEW pairs \in Seq(Pairs),
         Len(pairs) = Len(mids), NEW pay \in Seq(Signs), NEW base,
         StandsAt(head, pairs, mids, pay, base), HeadIs(head), MidsEnd(mids)
  PROVE  Ascending({i \in 1..Len(pay) : pay[i] \in Fences /\ pay[i - 1] = Newline})
           = FenceAt(mids, base)
<1> PICK n \in Nat : n = Len(mids)
  OBVIOUS
<1> PICK a \in Nat \ {0} : a = Len(head)
  BY DEF HeadIs
<1>1. /\ base \in [0..n -> Nat] /\ base[0] = a /\ base[n] = Len(pay)
      /\ \A j \in 1..a : pay[j] = head[j]
      /\ \A i, k \in 0..n : i <= k => base[i] <= base[k]
      /\ \A p \in 1..Len(pay) :
           p <= a \/ \E i \in 1..n : base[i - 1] < p /\ p <= base[i]
  BY DEF StandsAt
<1>2. \A i \in 1..n :
        /\ base[i] = base[i - 1] + Len(mids[i]) + 3
        /\ pay[base[i - 1] + 1] = pairs[i][1]
        /\ \A j \in 1..Len(mids[i]) : pay[base[i - 1] + 1 + j] = mids[i][j]
        /\ pay[base[i] - 1] = pairs[i][2]
        /\ pay[base[i]] = Newline
  BY DEF StandsAt
<1>3. \A i \in 1..n :
        /\ i \in 0..n /\ i - 1 \in 0..n
        /\ base[i] \in Nat /\ base[i - 1] \in Nat /\ Len(mids[i]) \in Nat \ {0}
        /\ mids[i][Len(mids[i])] = Newline
        /\ \A j \in 1..Len(mids[i]) : mids[i][j] \in Words
        /\ pairs[i] \in Pairs /\ pairs[i][1] \in Fences /\ pairs[i][2] \in Fences
  <2> SUFFICES ASSUME NEW i \in 1..n
               PROVE  /\ i \in 0..n /\ i - 1 \in 0..n
                      /\ base[i] \in Nat /\ base[i - 1] \in Nat
                      /\ Len(mids[i]) \in Nat \ {0}
                      /\ mids[i][Len(mids[i])] = Newline
                      /\ \A j \in 1..Len(mids[i]) : mids[i][j] \in Words
                      /\ pairs[i] \in Pairs
                      /\ pairs[i][1] \in Fences /\ pairs[i][2] \in Fences
    OBVIOUS
  <2>1. i \in 0..n /\ i - 1 \in 0..n
    OBVIOUS
  <2>2. base[i] \in Nat /\ base[i - 1] \in Nat
    BY <1>1, <2>1
  <2>3. Len(mids[i]) \in Nat \ {0} /\ mids[i][Len(mids[i])] = Newline
    BY DEF MidsEnd
  <2>4. mids[i] \in Seq(Words) /\ pairs[i] \in Pairs
    OBVIOUS
  <2>5. \A j \in 1..Len(mids[i]) : mids[i][j] \in Words
    BY <2>4
  <2> QED BY <2>1, <2>2, <2>3, <2>4, <2>5, FencesAre
<1> PICK at : at = FenceAt(mids, base)
  OBVIOUS
<1>4. /\ at \in [1..(2 * n) -> Nat]
      /\ \A i \in 1..n : at[2 * i - 1] = base[i - 1] + 1 /\ at[2 * i] = base[i] - 1
  <2>1. \A i \in 1..n : base[i] > base[i - 1] + 3
    <3> SUFFICES ASSUME NEW i \in 1..n PROVE base[i] > base[i - 1] + 3
      OBVIOUS
    <3>1. /\ base[i] = base[i - 1] + Len(mids[i]) + 3
          /\ base[i - 1] \in Nat /\ Len(mids[i]) \in Nat \ {0}
      BY <1>2, <1>3
    <3> QED BY ONLY <3>1
  <2>2. /\ FenceAt(mids, base) \in [1..(2 * Len(mids)) -> Nat]
        /\ \A i \in 1..Len(mids) :
             /\ FenceAt(mids, base)[2 * i - 1] = base[i - 1] + 1
             /\ FenceAt(mids, base)[2 * i] = base[i] - 1
    <3>1. /\ Len(mids) \in Nat /\ base \in [0..Len(mids) -> Nat]
          /\ \A i \in 1..Len(mids) : base[i] > base[i - 1] + 3
      BY <1>1, <2>1
    <3> QED BY ONLY <3>1, FenceAtIs
  <2> QED BY <1>1, <2>2
<1>5. ASSUME NEW k \in 1..(2 * n), NEW m \in 1..(2 * n), k < m PROVE at[k] < at[m]
  <2>1. PICK i \in 1..n : k = 2 * i - 1 \/ k = 2 * i
    BY Halves
  <2>2. PICK l \in 1..n : m = 2 * l - 1 \/ m = 2 * l
    BY Halves
  <2>3. \/ i = l /\ k = 2 * i - 1 /\ m = 2 * l
        \/ i <= l - 1
    BY ONLY <1>5, <2>1, <2>2, n \in Nat
  <2>4. /\ base[i] = base[i - 1] + Len(mids[i]) + 3
        /\ base[l] = base[l - 1] + Len(mids[l]) + 3
        /\ base[i] \in Nat /\ base[i - 1] \in Nat /\ Len(mids[i]) \in Nat \ {0}
        /\ base[l] \in Nat /\ base[l - 1] \in Nat /\ Len(mids[l]) \in Nat \ {0}
    BY <1>2, <1>3
  <2>5. at[k] \in {base[i - 1] + 1, base[i] - 1} /\ at[m] \in {base[l - 1] + 1, base[l] - 1}
    BY <1>4, <2>1, <2>2
  <2>6. CASE i = l /\ k = 2 * i - 1 /\ m = 2 * l
    <3>1. at[k] = base[i - 1] + 1 /\ at[m] = base[i] - 1
      BY <1>4, <2>6
    <3>2. base[i - 1] + 1 < base[i] - 1
      <4> PICK x \in Nat, y \in Nat, c \in Nat \ {0} :
            x = base[i - 1] /\ y = base[i] /\ c = Len(mids[i])
        BY <2>4
      <4>1. y = x + c + 3
        BY <2>4
      <4>2. x + 1 < y - 1
        BY ONLY <4>1, x \in Nat, c \in Nat \ {0}
      <4> QED BY <4>2
    <3> QED BY <3>1, <3>2
  <2>7. CASE i <= l - 1
    <3> PICK u \in Nat, v \in Nat, x \in Nat, y \in Nat,
             c \in Nat \ {0}, d \in Nat \ {0} :
          /\ u = base[i - 1] /\ v = base[i] /\ x = base[l - 1] /\ y = base[l]
          /\ c = Len(mids[i]) /\ d = Len(mids[l])
      BY <2>4
    <3>1. v <= x
      BY <1>1, <1>3, <2>7
    <3>2. v = u + c + 3 /\ y = x + d + 3
      BY <2>4
    <3>3. u + 1 < x + 1 /\ u + 1 < y - 1 /\ v - 1 < x + 1 /\ v - 1 < y - 1
      BY ONLY <3>1, <3>2, u \in Nat, v \in Nat, x \in Nat, y \in Nat,
              c \in Nat \ {0}, d \in Nat \ {0}
    <3> QED BY <2>5, <3>3
  <2> QED BY <2>3, <2>6, <2>7
<1> DEFINE F == {i \in 1..Len(pay) : pay[i] \in Fences /\ pay[i - 1] = Newline}
<1>6. Len(pay) \in Nat /\ a <= Len(pay) /\ \A i \in 0..n : base[i] <= Len(pay)
  <2>1. Len(pay) \in Nat /\ 0 \in 0..n /\ n \in 0..n /\ \A i \in 0..n : i <= n
    OBVIOUS
  <2> QED BY <1>1, <2>1
<1>7. ASSUME NEW i \in 1..n PROVE base[i - 1] + 1 \in F /\ base[i] - 1 \in F
  <2> PICK l \in Nat \ {0} : l = Len(mids[i])
    BY <1>3
  <2>1. /\ base[i] = base[i - 1] + l + 3 /\ base[i - 1] \in Nat /\ base[i] \in Nat
        /\ base[i] <= Len(pay) /\ Len(pay) \in Nat
    BY <1>2, <1>3, <1>6
  <2>2. /\ base[i - 1] + 1 \in 1..Len(pay) /\ (base[i - 1] + 1) - 1 = base[i - 1]
        /\ base[i] - 1 \in 1..Len(pay) /\ (base[i] - 1) - 1 = base[i - 1] + 1 + l
        /\ l \in 1..l
    <3> PICK x \in Nat, y \in Nat, t \in Nat :
          x = base[i - 1] /\ y = base[i] /\ t = Len(pay)
      BY <2>1
    <3>1. y = x + l + 3 /\ y <= t
      BY <2>1
    <3>2. /\ x + 1 \in 1..t /\ (x + 1) - 1 = x
          /\ y - 1 \in 1..t /\ (y - 1) - 1 = x + 1 + l /\ l \in 1..l
      BY ONLY <3>1, x \in Nat, y \in Nat, t \in Nat, l \in Nat \ {0}
    <3> QED BY <3>2
  <2>3. pay[base[i - 1] + 1 + l] = Newline
    BY <1>2, <1>3, <2>2
  <2>4. pay[base[i - 1]] = Newline
    <3>1. CASE i = 1
      <4>1. base[i - 1] = a /\ a \in 1..a
        BY <1>1, <3>1
      <4>2. head[a] = Newline
        BY DEF HeadIs
      <4> QED BY <1>1, <4>1, <4>2
    <3>2. CASE i # 1
      <4>1. i - 1 \in 1..n
        BY <3>2
      <4> QED BY <1>2, <4>1
    <3> QED BY <3>1, <3>2
  <2>5. pay[base[i - 1] + 1] \in Fences /\ pay[base[i] - 1] \in Fences
    BY <1>2, <1>3
  <2> QED BY ONLY <2>2, <2>3, <2>4, <2>5
<1>8. ASSUME NEW p \in F
      PROVE  \E i \in 1..n : p = base[i - 1] + 1 \/ p = base[i] - 1
  <2>1. p \in 1..Len(pay) /\ pay[p] \in Fences /\ pay[p - 1] = Newline
    OBVIOUS
  <2>2. ~(p <= a)
    <3> SUFFICES ASSUME p <= a PROVE FALSE
      OBVIOUS
    <3>1. p \in 1..a /\ (p # 1 => p \in 2..a /\ p - 1 \in 1..a)
      BY <2>1
    <3>2. p = 1 => head[p] \notin Fences
      BY DEF HeadIs
    <3>3. p \in 2..a /\ head[p] \in Fences => head[p - 1] # Newline
      BY DEF HeadIs
    <3>4. head[p] \in Fences /\ (p # 1 => head[p - 1] = Newline)
      BY <1>1, <2>1, <3>1
    <3> QED BY <3>1, <3>2, <3>3, <3>4
  <2>3. PICK i \in 1..n : base[i - 1] < p /\ p <= base[i]
    BY <1>1, <2>1, <2>2
  <2> PICK l \in Nat \ {0} : l = Len(mids[i])
    BY <1>3
  <2>4. base[i] = base[i - 1] + l + 3 /\ base[i - 1] \in Nat /\ base[i] \in Nat
    BY <1>2, <1>3
  <2>5. \/ p = base[i - 1] + 1 \/ p = base[i] - 1 \/ p = base[i]
        \/ /\ p - (base[i - 1] + 1) \in 1..l
           /\ p = base[i - 1] + 1 + (p - (base[i - 1] + 1))
    <3> PICK x \in Nat, y \in Nat : x = base[i - 1] /\ y = base[i]
      BY <2>4
    <3>1. y = x + l + 3 /\ x < p /\ p <= y /\ p \in Nat
      BY <1>6, <2>1, <2>3, <2>4
    <3>2. \/ p = x + 1 \/ p = y - 1 \/ p = y
          \/ p - (x + 1) \in 1..l /\ p = x + 1 + (p - (x + 1))
      BY ONLY <3>1, x \in Nat, y \in Nat, l \in Nat \ {0}
    <3> QED BY <3>2
  <2>6. p # base[i]
    <3>1. Newline \notin Fences
      BY FencesAre DEF FenceNames, Newline
    <3> QED BY <1>2, <2>1, <3>1
  <2>7. ASSUME NEW j \in 1..l, p = base[i - 1] + 1 + j PROVE FALSE
    <3>1. pay[p] = mids[i][j] /\ mids[i][j] \in Words
      BY <1>2, <1>3, <2>7
    <3> QED BY <2>1, <3>1, WordsAre
  <2> QED BY <2>5, <2>6, <2>7
<1>9. F = {at[k] : k \in 1..(2 * n)}
  <2>1. ASSUME NEW p \in F PROVE \E k \in 1..(2 * n) : p = at[k]
    <3>1. PICK i \in 1..n : p = base[i - 1] + 1 \/ p = base[i] - 1
      BY <1>8
    <3>2. 2 * i - 1 \in 1..(2 * n) /\ 2 * i \in 1..(2 * n)
      BY ONLY i \in 1..n, n \in Nat
    <3> QED BY <1>4, <3>1, <3>2
  <2>2. ASSUME NEW k \in 1..(2 * n) PROVE at[k] \in F
    <3>1. PICK i \in 1..n : k = 2 * i - 1 \/ k = 2 * i
      BY Halves
    <3> HIDE DEF F
    <3> QED BY <1>4, <1>7, <3>1
  <2> HIDE DEF F
  <2> QED BY <2>1, <2>2
<1>10. Ascending({at[k] : k \in 1..(2 * n)}) = at
  <2>1. 2 * n \in Nat
    OBVIOUS
  <2> QED BY <1>4, <1>5, <2>1, AscendingOf
<1> QED BY <1>9, <1>10

(* A payload and the places of its fence lines.                            *)
Placed(head, pairs, mids, pay, places) ==
  /\ pay = head \o FlattenSeq(Wrapped(pairs, mids))
  /\ places = Ascending({i \in 1..Len(pay) : /\ pay[i] \in Fences
                                              /\ pay[i - 1] = Newline})

(* What a reader finds between, behind and before them.                    *)
Parted(head, pairs, mids, pay, places) ==
  /\ Len(places) = 2 * Len(mids)
  /\ \A k \in 1..Len(mids) :
       /\ <<pay[places[2 * k - 1]], pay[places[2 * k]]>> = pairs[k]
       /\ SubSeq(pay, places[2 * k - 1] + 1, places[2 * k] - 1) = mids[k]
       /\ SubSeq(pay, places[2 * k] + 1,
                 IF k < Len(mids) THEN places[2 * (k + 1) - 1] - 1 ELSE Len(pay))
            = <<Newline>>
  /\ SubSeq(pay, 1, places[2 * 1 - 1] - 1) = head

LEMMA FencesShow ==
  ASSUME NEW head, NEW mids \in Seq(Seq(Words)), NEW pairs \in Seq(Pairs),
         Len(pairs) = Len(mids), HeadIs(head), MidsEnd(mids), Len(mids) # 0,
         NEW pay, NEW places, Placed(head, pairs, mids, pay, places)
  PROVE  Parted(head, pairs, mids, pay, places)
<1>9. /\ pay = head \o FlattenSeq(Wrapped(pairs, mids))
       /\ places = Ascending({i \in 1..Len(pay) : /\ pay[i] \in Fences
                                                   /\ pay[i - 1] = Newline})
  BY DEF Placed
<1> PICK n \in Nat \ {0} : n = Len(mids)
  OBVIOUS
<1> PICK a \in Nat \ {0} : a = Len(head)
  BY DEF HeadIs
<1>0. head \in Seq(Signs)
  BY DEF HeadIs
<1>1. PICK base : pay \in Seq(Signs) /\ StandsAt(head, pairs, mids, pay, base)
  BY <1>0, <1>9, SectionsStand
<1>2. places = FenceAt(mids, base)
  BY <1>1, <1>9, FencesLie
<1>3. /\ base \in [0..n -> Nat] /\ base[0] = a /\ base[n] = Len(pay)
      /\ \A j \in 1..a : pay[j] = head[j]
      /\ \A i, k \in 0..n : i <= k => base[i] <= base[k]
      /\ \A i \in 1..n :
           /\ base[i] = base[i - 1] + Len(mids[i]) + 3
           /\ pay[base[i - 1] + 1] = pairs[i][1]
           /\ \A j \in 1..Len(mids[i]) : pay[base[i - 1] + 1 + j] = mids[i][j]
           /\ pay[base[i] - 1] = pairs[i][2]
           /\ pay[base[i]] = Newline
  BY <1>1 DEF StandsAt
<1>4. \A i \in 1..n :
        /\ i \in 0..n /\ i - 1 \in 0..n /\ n \in 0..n /\ i <= n
        /\ base[i] \in Nat /\ base[i - 1] \in Nat /\ Len(mids[i]) \in Nat \ {0}
        /\ mids[i] \in Seq(Words) /\ pairs[i] = <<pairs[i][1], pairs[i][2]>>
  <2> SUFFICES ASSUME NEW i \in 1..n
               PROVE  /\ i \in 0..n /\ i - 1 \in 0..n /\ n \in 0..n /\ i <= n
                      /\ base[i] \in Nat /\ base[i - 1] \in Nat
                      /\ Len(mids[i]) \in Nat \ {0} /\ mids[i] \in Seq(Words)
                      /\ pairs[i] = <<pairs[i][1], pairs[i][2]>>
    OBVIOUS
  <2>1. i \in 0..n /\ i - 1 \in 0..n /\ n \in 0..n /\ i <= n
    OBVIOUS
  <2>2. base[i] \in Nat /\ base[i - 1] \in Nat
    BY <1>3, <2>1
  <2>3. Len(mids[i]) \in Nat \ {0}
    BY DEF MidsEnd
  <2>4. mids[i] \in Seq(Words) /\ pairs[i] \in Pairs
    OBVIOUS
  <2> QED BY <2>1, <2>2, <2>3, <2>4, FencesAre
<1>5. /\ Len(places) = 2 * n
      /\ \A i \in 1..n : places[2 * i - 1] = base[i - 1] + 1 /\ places[2 * i] = base[i] - 1
  <2>1. \A i \in 1..n : base[i] > base[i - 1] + 3
    <3> SUFFICES ASSUME NEW i \in 1..n PROVE base[i] > base[i - 1] + 3
      OBVIOUS
    <3> PICK x \in Nat, l \in Nat \ {0} : x = base[i - 1] /\ l = Len(mids[i])
      BY <1>4
    <3>1. base[i] = x + l + 3
      BY <1>3
    <3>2. x + l + 3 > x + 3
      BY ONLY x \in Nat, l \in Nat \ {0}
    <3> QED BY <3>1, <3>2
  <2>2. Len(mids) \in Nat /\ base \in [0..Len(mids) -> Nat]
    BY <1>3
  <2>3. \A i \in 1..Len(mids) : base[i] > base[i - 1] + 3
    BY <2>1
  <2>4. /\ Len(places) = 2 * Len(mids)
        /\ \A i \in 1..Len(mids) : /\ places[2 * i - 1] = base[i - 1] + 1
                                   /\ places[2 * i] = base[i] - 1
    BY ONLY <1>2, <2>2, <2>3, FenceAtIs, ZenonT(60)
  <2> QED BY ONLY <2>4, n = Len(mids)
<1>6. Len(pay) \in Nat /\ a <= Len(pay)
  <2>1. 0 \in 0..n /\ n \in 0..n /\ 0 <= n
    OBVIOUS
  <2> QED BY <1>1, <1>3, <2>1
<1>7. ASSUME NEW k \in 1..n
      PROVE  /\ <<pay[places[2 * k - 1]], pay[places[2 * k]]>> = pairs[k]
             /\ SubSeq(pay, places[2 * k - 1] + 1, places[2 * k] - 1) = mids[k]
             /\ SubSeq(pay, places[2 * k] + 1,
                       IF k < n THEN places[2 * (k + 1) - 1] - 1 ELSE Len(pay))
                  = <<Newline>>
  <2> PICK x \in Nat, y \in Nat, l \in Nat \ {0}, t \in Nat :
        x = base[k - 1] /\ y = base[k] /\ l = Len(mids[k]) /\ t = Len(pay)
    BY <1>4, <1>6
  <2>1. places[2 * k - 1] = x + 1 /\ places[2 * k] = y - 1 /\ y = x + l + 3 /\ y <= t
    <3>1. places[2 * k - 1] = x + 1 /\ places[2 * k] = y - 1
      BY <1>5
    <3>2. y = x + l + 3
      BY <1>3
    <3>3. base[k] <= base[n]
      BY <1>3, <1>4
    <3> QED BY <1>3, <3>1, <3>2, <3>3
  <2>2. <<pay[x + 1], pay[y - 1]>> = pairs[k]
    BY <1>3, <1>4
  <2>3. SubSeq(pay, (x + 1) + 1, x + 1 + l) = mids[k]
    <3> PICK part : part = SubSeq(pay, (x + 1) + 1, x + 1 + l)
      OBVIOUS
    <3>1. /\ x + 1 \in Nat /\ x + 1 + l \in Nat /\ x + 1 <= x + 1 + l
          /\ x + 1 + l <= t /\ (x + 1 + l) - (x + 1) = l
      BY ONLY <2>1, x \in Nat, y \in Nat, l \in Nat \ {0}, t \in Nat
    <3>2. /\ part \in Seq(Signs) /\ Len(part) = (x + 1 + l) - (x + 1)
          /\ \A j \in 1..((x + 1 + l) - (x + 1)) : part[j] = pay[(x + 1) + j]
      <4> PICK m \in Nat, h \in Nat : m = x + 1 /\ h = x + 1 + l
        BY <3>1
      <4>1. m <= h /\ h <= Len(pay) /\ pay \in Seq(Signs)
        BY <1>1, <3>1
      <4>2. /\ SubSeq(pay, m + 1, h) \in Seq(Signs)
            /\ Len(SubSeq(pay, m + 1, h)) = h - m
            /\ \A j \in 1..(h - m) : SubSeq(pay, m + 1, h)[j] = pay[m + j]
        BY ONLY <4>1, m \in Nat, h \in Nat
      <4> QED BY <4>2
    <3>3. \A j \in 1..l : part[j] = mids[k][j]
      <4>1. \A j \in 1..l : pay[x + 1 + j] = mids[k][j]
        BY <1>3
      <4> QED BY ONLY <3>1, <3>2, <4>1
    <3>4. mids[k] \in Seq(Signs)
      <4>1. Words \subseteq Signs /\ mids[k] \in Seq(Words)
        BY <1>4 DEF Signs
      <4> QED BY <4>1
    <3>5. Len(part) = l
      BY <3>1, <3>2
    <3>6. part = mids[k]
      BY ONLY <3>2, <3>3, <3>4, <3>5, l = Len(mids[k]), SameParts
    <3> QED BY <3>6
  <2>4. (y - 1) - 1 = x + 1 + l /\ (y - 1) + 1 = y /\ y \in 1..t
    BY ONLY <2>1, x \in Nat, y \in Nat, l \in Nat \ {0}, t \in Nat
  <2>5. (IF k < n THEN places[2 * (k + 1) - 1] - 1 ELSE Len(pay)) = y
    <3>1. CASE k < n
      <4>1. k + 1 \in 1..n /\ (k + 1) - 1 = k
        BY ONLY <3>1, k \in 1..n, n \in Nat \ {0}
      <4>2. places[2 * (k + 1) - 1] = base[(k + 1) - 1] + 1
        BY <1>5, <4>1
      <4>3. places[2 * (k + 1) - 1] = y + 1
        BY <4>1, <4>2
      <4>4. (y + 1) - 1 = y
        BY ONLY y \in Nat
      <4> QED BY ONLY <3>1, <4>3, <4>4
    <3>2. CASE ~(k < n)
      <4>1. k = n
        BY ONLY <3>2, k \in 1..n, n \in Nat \ {0}
      <4> QED BY <1>3, <3>2, <4>1
    <3> QED BY <3>1, <3>2
  <2>6. SubSeq(pay, y, y) = <<Newline>>
    <3>1. pay[y] = Newline
      BY <1>3
    <3>2. y \in 1..Len(pay) /\ pay \in Seq(Signs)
      BY <1>1, <2>4
    <3>3. SubSeq(pay, y, y) = <<pay[y]>>
      <4> PICK m : m = y - 1
        OBVIOUS
      <4>1. /\ m \in Nat /\ m + 1 = y /\ m <= y /\ y <= Len(pay) /\ y - m = 1
            /\ 1 \in 1..(y - m)
        BY ONLY <2>4, m = y - 1, y \in Nat, t \in Nat, t = Len(pay)
      <4>2. /\ SubSeq(pay, m + 1, y) \in Seq(Signs)
            /\ Len(SubSeq(pay, m + 1, y)) = y - m
            /\ \A j \in 1..(y - m) : SubSeq(pay, m + 1, y)[j] = pay[m + j]
        BY ONLY <3>2, <4>1, y \in Nat, SubSeqIs
      <4> PICK part : part = SubSeq(pay, y, y)
        OBVIOUS
      <4>3. part \in Seq(Signs) /\ Len(part) = 1 /\ part[1] = pay[y]
        BY ONLY <4>1, <4>2, part = SubSeq(pay, y, y)
      <4>4. part = <<part[1]>>
        BY ONLY <4>3
      <4> QED BY ONLY <4>3, <4>4, part = SubSeq(pay, y, y)
    <3> QED BY <3>1, <3>3
  <2> QED BY <2>1, <2>2, <2>3, <2>4, <2>5, <2>6
<1>8. SubSeq(pay, 1, places[2 * 1 - 1] - 1) = head
  <2>1. places[2 * 1 - 1] - 1 = a
    <3>1. 1 \in 1..n /\ 1 - 1 = 0
      OBVIOUS
    <3>2. places[2 * 1 - 1] = base[1 - 1] + 1
      BY <1>5, <3>1
    <3>3. places[2 * 1 - 1] = a + 1
      BY <1>3, <3>1, <3>2
    <3>4. (a + 1) - 1 = a
      BY ONLY a \in Nat \ {0}
    <3> QED BY ONLY <3>3, <3>4
  <2> PICK part : part = SubSeq(pay, 0 + 1, a)
    OBVIOUS
  <2>2. 0 \in Nat /\ 0 <= a /\ a <= Len(pay) /\ a - 0 = a /\ 0 + 1 = 1
    BY <1>6
  <2>3. /\ part \in Seq(Signs) /\ Len(part) = a - 0
        /\ \A j \in 1..(a - 0) : part[j] = pay[0 + j]
    BY <1>1, <2>2, SubSeqIs
  <2>4. Len(part) = a /\ \A j \in 1..a : part[j] = head[j]
    <3>1. \A j \in 1..a : 0 + j = j
      OBVIOUS
    <3> QED BY <1>3, <2>2, <2>3, <3>1
  <2>5. part = head
    BY <1>0, <2>3, <2>4, SameParts
  <2> QED BY <2>1, <2>2, <2>5
<1> QED BY <1>5, <1>7, <1>8 DEF Parted

-----------------------------------------------------------------------------
(* The texts of a payload: each ends a line.                               *)
Ends(t) == Len(t) # 0 => t[Len(t)] = Newline

LEMMA EndsJoin ==
  ASSUME NEW a \in Seq(Words), NEW b \in Seq(Words), Ends(a), Ends(b)
  PROVE  a \o b \in Seq(Words) /\ Ends(a \o b)
<1> PICK n \in Nat, m \in Nat : n = Len(a) /\ m = Len(b)
  OBVIOUS
<1> PICK c : c = a \o b
  OBVIOUS
<1>1. /\ c \in Seq(Words) /\ Len(c) = n + m
      /\ \A j \in 1..n : c[j] = a[j]
      /\ \A j \in 1..m : c[n + j] = b[j]
  BY Joined
<1>2. CASE m = 0
  <2>1. Len(c) = n /\ (n # 0 => n \in 1..n)
    BY <1>1, <1>2
  <2> QED BY <1>1, <2>1 DEF Ends
<1>3. CASE m # 0
  <2>1. Len(c) = n + m /\ m \in 1..m
    BY <1>1, <1>3
  <2>2. c[n + m] = Newline
    BY <1>1, <1>3, <2>1 DEF Ends
  <2> QED BY <1>1, <2>1, <2>2 DEF Ends
<1> QED BY <1>2, <1>3

LEMMA BlockIs ==
  ASSUME NEW t \in Seq(Words)
  PROVE  /\ AppendBlock(t) \in Seq(Words) /\ Ends(AppendBlock(t))
         /\ AppendBlock(t) \in {t, Append(t, Newline)}
<1>0. Newline \in Words
  BY DEF Words
<1>1. CASE t = <<>> \/ Last(t) = Newline
  <2>1. AppendBlock(t) = t
    BY <1>1 DEF AppendBlock
  <2>2. Ends(t)
    BY <1>1 DEF Ends, Last
  <2> QED BY <2>1, <2>2
<1>2. CASE ~(t = <<>> \/ Last(t) = Newline)
  <2>1. AppendBlock(t) = Append(t, Newline)
    BY <1>2 DEF AppendBlock
  <2>2. /\ Append(t, Newline) \in Seq(Words) /\ Len(Append(t, Newline)) = Len(t) + 1
        /\ Append(t, Newline)[Len(t) + 1] = Newline
    BY <1>0, AppendIs
  <2> QED BY <2>1, <2>2 DEF Ends
<1> QED BY <1>1, <1>2

LEMMA SanitizeIs ==
  ASSUME NEW p \in Seq(Words)
  PROVE  /\ SanitizePath(p) \in Seq(Words) /\ Len(SanitizePath(p)) = Len(p)
         /\ \A i \in 1..Len(p) : SanitizePath(p)[i] # Newline
<1>1. "?" \in Words /\ "?" # Newline
  BY DEF Words, Newline
<1> PICK n \in Nat : n = Len(p)
  OBVIOUS
<1> PICK s : s = SanitizePath(p)
  OBVIOUS
<1> DEFINE clean(i) == IF p[i] = Newline THEN "?" ELSE p[i]
<1>2. s = [i \in 1..n |-> clean(i)]
  BY DEF SanitizePath
<1>3. \A i \in 1..n : clean(i) \in Words /\ clean(i) # Newline
  BY <1>1
<1> HIDE DEF clean
<1>4. s \in Seq(Words) /\ Len(s) = n /\ \A i \in 1..n : s[i] # Newline
  BY <1>2, <1>3
<1> QED BY <1>4

FileText(f) == SanitizePath(f.path) \o <<Newline>> \o AppendBlock(f.content)

LEMMA FileIs ==
  ASSUME NEW f, f.path \in Seq(Words), f.content \in Seq(Words)
  PROVE  LET mid == FileText(f)
         IN  /\ mid \in Seq(Words) /\ Len(mid) # 0 /\ Ends(mid)
             /\ FileSection(f) = Wrap(AFile, mid)
             /\ Newline \notin ToSet(SubSeq(mid, 1, Len(f.path)))
             /\ Holds(SubSeq(mid, Len(f.path) + 1, Len(mid)), <<Newline>> \o f.content)
<1> PICK p : p = SanitizePath(f.path)
  OBVIOUS
<1> PICK l \in Nat : l = Len(f.path)
  OBVIOUS
<1> PICK b : b = AppendBlock(f.content)
  OBVIOUS
<1>1. /\ p \in Seq(Words) /\ Len(p) = l /\ \A i \in 1..l : p[i] # Newline
      /\ b \in Seq(Words) /\ Ends(b) /\ b \in {f.content, Append(f.content, Newline)}
  BY SanitizeIs, BlockIs
<1> PICK e : e = <<Newline>>
  OBVIOUS
<1>2. e \in Seq(Words) /\ Ends(e) /\ Len(e) = 1
  <2>1. Newline \in Words
    BY DEF Words
  <2> QED BY <2>1 DEF Ends
<1> PICK mid : mid = p \o (e \o b)
  OBVIOUS
<1>3. e \o b \in Seq(Words) /\ Ends(e \o b) /\ Len(e \o b) = 1 + Len(b) /\ Len(b) \in Nat
  <2>1. b \in Seq(Words) /\ e \in Seq(Words) /\ Ends(b) /\ Ends(e) /\ Len(e) = 1
    BY <1>1, <1>2
  <2>2. e \o b \in Seq(Words) /\ Ends(e \o b)
    BY ONLY <2>1, EndsJoin
  <2>3. Len(e \o b) = Len(e) + Len(b)
    BY ONLY <2>1, Joined
  <2>4. Len(b) \in Nat
    BY ONLY <2>1
  <2> QED BY <2>1, <2>2, <2>3, <2>4
<1>4. FileText(f) = mid
  <2>1. (p \o e) \o b = p \o (e \o b)
    BY <1>1, <1>2, JoinedTwice
  <2> QED BY <2>1 DEF FileText
<1> PICK rest \in Seq(Words) : rest = e \o b
  BY <1>3
<1> PICK m \in Nat : m = Len(rest)
  OBVIOUS
<1>5. /\ mid \in Seq(Words) /\ Len(mid) = l + m /\ m # 0
      /\ \A j \in 1..l : mid[j] = p[j]
      /\ \A j \in 1..m : mid[l + j] = rest[j]
  <2>1. p \in Seq(Words) /\ rest \in Seq(Words) /\ mid = p \o rest
    BY <1>1
  <2>2. /\ mid \in Seq(Words) /\ Len(mid) = Len(p) + Len(rest)
        /\ \A j \in 1..Len(p) : mid[j] = p[j]
        /\ \A j \in 1..Len(rest) : mid[Len(p) + j] = rest[j]
    BY ONLY <2>1, Joined
  <2>3. m = 1 + Len(b) /\ Len(b) \in Nat /\ Len(p) = l
    BY <1>1, <1>3
  <2>4. m # 0
    BY ONLY <2>3
  <2> QED BY ONLY <2>2, <2>3, <2>4, m = Len(rest)
<1>6. Ends(mid)
  <2>1. Len(rest) # 0 /\ rest[m] = Newline /\ m \in 1..m
    BY <1>3, <1>5 DEF Ends
  <2> QED BY <1>5, <2>1 DEF Ends
<1>7. FileSection(f) = Wrap(AFile, mid)
  <2>1. Words \subseteq Signs /\ AFile[1] \in Signs /\ AFile[2] \in Signs /\ Newline \in Signs
    BY FencesAre DEF Signs, Pairs, Words
  <2> PICK x, y : x = <<AFile[1]>> /\ y = <<AFile[2], Newline>>
    OBVIOUS
  <2>2. /\ x \in Seq(Signs) /\ y \in Seq(Signs) /\ p \in Seq(Signs)
        /\ e \in Seq(Signs) /\ b \in Seq(Signs)
    BY <1>1, <1>2, <2>1
  <2>3. /\ (x \o p) \o e = x \o (p \o e) /\ p \o e \in Seq(Signs)
        /\ (x \o (p \o e)) \o b = x \o ((p \o e) \o b)
        /\ (p \o e) \o b = p \o (e \o b)
    <3>1. (x \o p) \o e = x \o (p \o e) /\ p \o e \in Seq(Signs)
      BY <2>2, JoinedTwice
    <3>2. (p \o e) \o b = p \o (e \o b)
      BY <2>2, JoinedTwice
    <3> PICK pe \in Seq(Signs) : pe = p \o e
      BY <3>1
    <3>3. (x \o pe) \o b = x \o (pe \o b)
      <4>1. x \in Seq(Signs) /\ pe \in Seq(Signs) /\ b \in Seq(Signs)
        BY <2>2
      <4> QED BY ONLY <4>1, SMTT(30)
    <3> QED BY <3>1, <3>2, <3>3
  <2>4. FileSection(f) = (((x \o p) \o e) \o b) \o y
    BY DEF FileSection
  <2>5. Wrap(AFile, mid) = (x \o (p \o (e \o b))) \o y
    BY DEF Wrap
  <2> QED BY ONLY <2>3, <2>4, <2>5
<1>8. Newline \notin ToSet(SubSeq(mid, 1, l))
  <2> PICK part : part = SubSeq(mid, 0 + 1, l)
    OBVIOUS
  <2>1. 0 \in Nat /\ 0 <= l /\ l <= Len(mid) /\ l - 0 = l /\ 0 + 1 = 1
        /\ \A j \in 1..l : 0 + j = j
    <3>1. Len(mid) = l + m
      BY <1>5
    <3> QED BY ONLY <3>1, l \in Nat, m \in Nat
  <2>2. /\ part \in Seq(Words) /\ Len(part) = l - 0
        /\ \A j \in 1..(l - 0) : part[j] = mid[0 + j]
    BY <1>5, <2>1, SubSeqIs
  <2>3. Len(part) = l /\ \A j \in 1..l : part[j] # Newline
    BY <1>1, <1>5, <2>1, <2>2
  <2>4. DOMAIN part = 1..l
    BY <2>2, <2>3
  <2> QED BY <2>1, <2>3, <2>4 DEF ToSet
<1>9. SubSeq(mid, l + 1, Len(mid)) = rest
  <2>1. l + m \in Nat /\ l <= l + m /\ l + m <= Len(mid) /\ (l + m) - l = m
    <3>1. Len(mid) = l + m
      BY <1>5
    <3> QED BY ONLY <3>1, l \in Nat, m \in Nat
  <2> PICK part : part = SubSeq(mid, l + 1, l + m)
    OBVIOUS
  <2>2. /\ part \in Seq(Words) /\ Len(part) = (l + m) - l
        /\ \A j \in 1..((l + m) - l) : part[j] = mid[l + j]
    <3> PICK h \in Nat : h = l + m
      BY <2>1
    <3>1. mid \in Seq(Words) /\ l <= h /\ h <= Len(mid)
      BY <1>5, <2>1
    <3>2. /\ SubSeq(mid, l + 1, h) \in Seq(Words) /\ Len(SubSeq(mid, l + 1, h)) = h - l
          /\ \A j \in 1..(h - l) : SubSeq(mid, l + 1, h)[j] = mid[l + j]
      BY ONLY <3>1, l \in Nat, h \in Nat, SubSeqIs
    <3> QED BY <3>2
  <2>3. Len(part) = m /\ \A j \in 1..m : part[j] = mid[l + j]
    BY ONLY <2>1, <2>2
  <2>4. part = rest
    <3>1. \A j \in 1..m : part[j] = rest[j]
      <4>1. \A j \in 1..m : mid[l + j] = rest[j]
        BY <1>5
      <4> QED BY ONLY <2>3, <4>1
    <3> QED BY ONLY <2>2, <2>3, <3>1, m = Len(rest), rest \in Seq(Words), SameParts
  <2> QED BY <1>5, <2>4
<1>10. rest \in {e \o f.content, Append(e \o f.content, Newline)}
  <2> PICK c \in Seq(Words) : c = f.content
    BY <1>1
  <2>1. e \o Append(c, Newline) = Append(e \o c, Newline)
    <3>1. e \in Seq(Words) /\ c \in Seq(Words) /\ Newline \in Words
      BY <1>2 DEF Words
    <3> QED BY ONLY <3>1
  <2> QED BY <1>1, <2>1
<1>11. Holds(SubSeq(mid, l + 1, Len(mid)), <<Newline>> \o f.content)
  BY <1>9, <1>10 DEF Holds
<1> QED BY <1>4, <1>5, <1>6, <1>7, <1>8, <1>11

DiffText(d) == <<Newline>> \o AppendBlock(d)

LEMMA DiffIs ==
  ASSUME NEW d \in Seq(Words)
  PROVE  LET mid == DiffText(d)
         IN  /\ mid \in Seq(Words) /\ Len(mid) # 0 /\ Ends(mid)
             /\ <<TheDiff[1], Newline>> \o AppendBlock(d) \o <<TheDiff[2], Newline>>
                  = Wrap(TheDiff, mid)
             /\ Holds(mid, <<Newline>> \o d)
<1> PICK b : b = AppendBlock(d)
  OBVIOUS
<1>1. b \in Seq(Words) /\ Ends(b) /\ b \in {d, Append(d, Newline)}
  BY BlockIs
<1> PICK e : e = <<Newline>>
  OBVIOUS
<1>2. e \in Seq(Words) /\ Ends(e) /\ Len(e) = 1
  <2>1. Newline \in Words
    BY DEF Words
  <2> QED BY <2>1 DEF Ends
<1>3. e \o b \in Seq(Words) /\ Ends(e \o b) /\ Len(e \o b) = 1 + Len(b) /\ Len(b) \in Nat
  <2>1. b \in Seq(Words) /\ e \in Seq(Words) /\ Ends(b) /\ Ends(e) /\ Len(e) = 1
    BY <1>1, <1>2
  <2>2. e \o b \in Seq(Words) /\ Ends(e \o b)
    BY ONLY <2>1, EndsJoin
  <2>3. Len(e \o b) = Len(e) + Len(b)
    BY ONLY <2>1, Joined
  <2>4. Len(b) \in Nat
    BY ONLY <2>1
  <2> QED BY <2>1, <2>2, <2>3, <2>4
<1>4. <<TheDiff[1], Newline>> \o b \o <<TheDiff[2], Newline>> = Wrap(TheDiff, e \o b)
  <2>1. Words \subseteq Signs /\ TheDiff[1] \in Signs /\ Newline \in Signs
    BY FencesAre DEF Signs, Pairs, Words
  <2> PICK x : x = <<TheDiff[1]>>
    OBVIOUS
  <2>2. x \in Seq(Signs) /\ e \in Seq(Signs) /\ b \in Seq(Signs)
    BY <1>1, <1>2, <2>1
  <2>3. <<TheDiff[1], Newline>> = x \o e
    OBVIOUS
  <2>4. (x \o e) \o b = x \o (e \o b)
    BY <2>2, JoinedTwice
  <2> QED BY <2>3, <2>4 DEF Wrap
<1>5. Holds(e \o b, e \o d)
  <2>1. \A c \in Seq(Words) : e \o Append(c, Newline) = Append(e \o c, Newline)
    BY <1>2
  <2> QED BY <1>1, <2>1 DEF Holds
<1>6. DiffText(d) = e \o b
  BY DEF DiffText
<1>7. Len(e \o b) # 0
  BY ONLY <1>3
<1> QED BY <1>3, <1>4, <1>5, <1>6, <1>7

LEMMA FewWords ==
  ASSUME NEW x \in Words, NEW y \in Words, NEW z \in Words
  PROVE  /\ <<x>> \in Seq(Words) /\ Len(<<x>>) = 1 /\ <<x>>[1] = x
         /\ <<x, y>> \in Seq(Words) /\ Len(<<x, y>>) = 2 /\ <<x, y>>[2] = y
         /\ <<x, y, z>> \in Seq(Words) /\ Len(<<x, y, z>>) = 3 /\ <<x, y, z>>[3] = z
OBVIOUS

(* The omitted files, each on its line.                                    *)
Bullet(e) == <<"- ">> \o e \o <<Newline>>
Bulleted(o) == FlattenSeq([i \in 1..Len(o) |-> Bullet(o[i])])

LEMMA BulletIs ==
  ASSUME NEW e \in Seq(Words)
  PROVE  /\ Bullet(e) \in Seq(Words) /\ Len(e) \in Nat /\ Len(Bullet(e)) = Len(e) + 2
         /\ Bullet(e)[1] = "- " /\ Bullet(e)[Len(e) + 2] = Newline
         /\ \A j \in 1..Len(e) : Bullet(e)[1 + j] = e[j]
<1>1. "- " \in Words /\ Newline \in Words
  BY DEF Words
<1> PICK x \in Words, y \in Words : x = "- " /\ y = Newline
  BY <1>1
<1> PICK w : w = <<x>> \o e \o <<y>>
  OBVIOUS
<1>2. /\ w \in Seq(Words) /\ Len(e) \in Nat /\ Len(w) = Len(e) + 2
      /\ w[1] = x /\ w[Len(e) + 2] = y
      /\ \A j \in 1..Len(e) : w[1 + j] = e[j]
  BY ONLY x \in Words, y \in Words, e \in Seq(Words), w = <<x>> \o e \o <<y>>
<1>3. Bullet(e) = w
  BY DEF Bullet
<1> QED BY <1>2, <1>3

LEMMA BulletedIs ==
  ASSUME NEW o \in Seq(Seq(Words))
  PROVE  /\ Bulleted(o) \in Seq(Words) /\ Ends(Bulleted(o))
         /\ \A k \in 1..Len(o) : \E p \in Nat :
              /\ p + Len(o[k]) + 2 <= Len(Bulleted(o))
              /\ Bulleted(o)[p + 1] = "- "
              /\ \A j \in 1..Len(o[k]) : Bulleted(o)[p + 1 + j] = o[k][j]
<1> PICK n \in Nat : n = Len(o)
  OBVIOUS
<1> PICK ps : ps = [i \in 1..n |-> Bullet(o[i])]
  OBVIOUS
<1>1. \A i \in 1..n : /\ o[i] \in Seq(Words) /\ ps[i] = Bullet(o[i])
                      /\ ps[i] \in Seq(Words) /\ Len(o[i]) \in Nat
                      /\ Len(ps[i]) = Len(o[i]) + 2
                      /\ ps[i][1] = "- " /\ ps[i][Len(o[i]) + 2] = Newline
                      /\ \A j \in 1..Len(o[i]) : ps[i][1 + j] = o[i][j]
  <2> SUFFICES ASSUME NEW i \in 1..n
               PROVE  /\ o[i] \in Seq(Words) /\ ps[i] = Bullet(o[i])
                      /\ ps[i] \in Seq(Words) /\ Len(o[i]) \in Nat
                      /\ Len(ps[i]) = Len(o[i]) + 2
                      /\ ps[i][1] = "- " /\ ps[i][Len(o[i]) + 2] = Newline
                      /\ \A j \in 1..Len(o[i]) : ps[i][1 + j] = o[i][j]
    OBVIOUS
  <2>1. o[i] \in Seq(Words) /\ ps[i] = Bullet(o[i])
    OBVIOUS
  <2> QED BY <2>1, BulletIs
<1>2. ps \in Seq(Seq(Words)) /\ Len(ps) = n
  <2> PICK T : T = Seq(Words)
    OBVIOUS
  <2>1. \A i \in 1..n : Bullet(o[i]) \in T
    BY <1>1
  <2>2. ps \in Seq(T) /\ Len(ps) = n
    BY ONLY <2>1, n \in Nat, ps = [i \in 1..n |-> Bullet(o[i])]
  <2> QED BY <2>2
<1> PICK flat : flat = Bulleted(o)
  OBVIOUS
<1>3. flat = FlattenSeq(ps)
  BY DEF Bulleted
<1>4. PICK off : flat \in Seq(Words) /\ Laid(ps, flat, off)
  BY <1>2, <1>3, FlattenIsLaid
<1>5. /\ off \in [0..n -> Nat] /\ off[0] = 0 /\ off[n] = Len(flat)
      /\ \A i \in 1..n : off[i] = off[i - 1] + Len(ps[i])
      /\ \A i \in 1..n : \A j \in 1..Len(ps[i]) : flat[off[i - 1] + j] = ps[i][j]
  BY <1>2, <1>4 DEF Laid
<1>6. Ends(flat)
  <2>1. CASE n = 0
    BY <1>5, <2>1 DEF Ends
  <2>2. CASE n # 0
    <3>1. n \in 1..n /\ n - 1 \in 0..n
      BY ONLY <2>2, n \in Nat
    <3> PICK l \in Nat, x \in Nat : l = Len(o[n]) /\ x = off[n - 1]
      BY <1>1, <1>5, <3>1
    <3>2. Len(flat) = x + (l + 2) /\ l + 2 \in 1..(l + 2) /\ Len(ps[n]) = l + 2
      <4>1. Len(ps[n]) = l + 2
        BY <1>1, <3>1
      <4>2. off[n] = x + Len(ps[n]) /\ off[n] = Len(flat)
        BY <1>5, <3>1
      <4> QED BY <4>1, <4>2
    <3>3. flat[x + (l + 2)] = ps[n][l + 2] /\ ps[n][l + 2] = Newline
      <4>1. ps[n][l + 2] = Newline
        BY <1>1, <3>1
      <4>2. \A j \in 1..Len(ps[n]) : flat[off[n - 1] + j] = ps[n][j]
        BY <1>5, <3>1
      <4>3. flat[x + (l + 2)] = ps[n][l + 2]
        BY <3>2, <4>2
      <4> QED BY <4>1, <4>3
    <3> QED BY <3>2, <3>3 DEF Ends
  <2> QED BY <2>1, <2>2
<1>7. ASSUME NEW k \in 1..n
      PROVE  \E p \in Nat : /\ p + Len(o[k]) + 2 <= Len(flat)
                            /\ flat[p + 1] = "- "
                            /\ \A j \in 1..Len(o[k]) : flat[p + 1 + j] = o[k][j]
  <2>1. k \in 0..n /\ k - 1 \in 0..n /\ k \in 0..Len(ps) /\ n \in k..Len(ps)
    BY <1>2
  <2> PICK l \in Nat, x \in Nat : l = Len(o[k]) /\ x = off[k - 1]
    BY <1>1, <1>5, <2>1
  <2>2. off[k] <= off[n]
    BY <1>2, <1>4, <2>1, LaidMonotone
  <2>3. off[k] = x + (l + 2) /\ Len(ps[k]) = l + 2
    BY <1>1, <1>5
  <2>4. off[n] = Len(flat)
    BY <1>5
  <2>5. x + l + 2 <= Len(flat)
    <3>1. x + (l + 2) <= Len(flat)
      BY <2>2, <2>3, <2>4
    <3>2. x + (l + 2) = x + l + 2
      BY ONLY x \in Nat, l \in Nat
    <3> QED BY <3>1, <3>2
  <2>6. \A j \in 1..(l + 2) : flat[x + j] = ps[k][j]
    BY <1>5, <2>3
  <2>7. flat[x + 1] = "- "
    <3>1. 1 \in 1..(l + 2)
      OBVIOUS
    <3> QED BY <1>1, <2>6, <3>1
  <2>8. ASSUME NEW j \in 1..l PROVE flat[x + 1 + j] = o[k][j]
    <3>1. 1 + j \in 1..(l + 2) /\ x + 1 + j = x + (1 + j)
      BY ONLY x \in Nat, l \in Nat, j \in 1..l
    <3>2. flat[x + (1 + j)] = ps[k][1 + j]
      BY ONLY <2>6, <3>1
    <3>3. ps[k][1 + j] = o[k][j]
      BY <1>1
    <3> QED BY ONLY <3>1, <3>2, <3>3
  <2> QED BY <2>5, <2>7, <2>8
<1> QED BY <1>4, <1>6, <1>7

(* The section on the pull request itself.                                 *)
OmittedText(o) ==
  IF o = <<>> THEN <<>> ELSE <<"Files omitted", Newline>> \o Bulleted(o)
MetaFront(r) ==
  <<Newline, "PR title: ">> \o r.title \o <<Newline, "PR description:", Newline>>
    \o AppendBlock(r.body)
MetaText(r) == MetaFront(r) \o OmittedText(r.omitted)

LEMMA FrontIs ==
  ASSUME NEW r, r.title \in Seq(Words), r.body \in Seq(Words)
  PROVE  /\ MetaFront(r) \in Seq(Words) /\ Len(MetaFront(r)) \in Nat \ {0}
         /\ Ends(MetaFront(r))
<1> PICK u, x, y, b : /\ u = <<Newline, "PR title: ">> /\ x = u \o r.title
                      /\ y = <<Newline, "PR description:", Newline>>
                      /\ b = AppendBlock(r.body)
  OBVIOUS
<1>1. Newline \in Words /\ "PR title: " \in Words /\ "PR description:" \in Words
  BY DEF Words
<1>2. /\ y \in Seq(Words) /\ Len(y) = 3 /\ y[3] = Newline
      /\ b \in Seq(Words) /\ Ends(b) /\ u \in Seq(Words)
  BY <1>1, BlockIs, FewWords
<1>3. x \in Seq(Words)
  BY ONLY <1>2, r.title \in Seq(Words), x = u \o r.title, Joined
<1>4. x \o y \in Seq(Words) /\ Len(x \o y) = Len(x) + 3 /\ Len(x) \in Nat
      /\ (x \o y)[Len(x) + 3] = Newline
  <2>1. x \in Seq(Words) /\ y \in Seq(Words) /\ Len(y) = 3 /\ y[3] = Newline
    BY <1>2, <1>3
  <2>2. /\ x \o y \in Seq(Words) /\ Len(x \o y) = Len(x) + Len(y)
        /\ \A j \in 1..Len(y) : (x \o y)[Len(x) + j] = y[j]
    <3>1. x \in Seq(Words) /\ y \in Seq(Words)
      BY <2>1
    <3> QED BY ONLY <3>1, Joined
  <2>3. Len(x) \in Nat /\ 3 \in 1..Len(y)
    BY ONLY <2>1
  <2> QED BY ONLY <2>1, <2>2, <2>3
<1> PICK xy \in Seq(Words) : xy = x \o y
  BY <1>4
<1>5. Ends(xy) /\ Len(xy) \in Nat \ {0}
  <2> PICK n \in Nat : n = Len(x)
    BY <1>4
  <2>1. Len(xy) = n + 3 /\ xy[n + 3] = Newline
    BY <1>4
  <2>2. n + 3 \in Nat \ {0}
    BY ONLY n \in Nat
  <2> QED BY <2>1, <2>2 DEF Ends
<1>6. xy \o b \in Seq(Words) /\ Ends(xy \o b)
  BY ONLY <1>2, <1>5, xy \in Seq(Words), EndsJoin
<1>7. Len(xy \o b) \in Nat \ {0}
  <2>1. Len(xy \o b) = Len(xy) + Len(b) /\ Len(b) \in Nat
    BY ONLY <1>2, xy \in Seq(Words)
  <2> QED BY ONLY <1>5, <2>1
<1>8. MetaFront(r) = xy \o b
  BY DEF MetaFront
<1> QED BY <1>6, <1>7, <1>8

LEMMA MetaIs ==
  ASSUME NEW r, r.title \in Seq(Words), r.body \in Seq(Words),
         r.omitted \in Seq(Seq(Words))
  PROVE  LET mid == MetaText(r)
         IN  /\ mid \in Seq(Words) /\ Len(mid) # 0 /\ Ends(mid)
             /\ \A k \in 1..Len(r.omitted) :
                  \E i \in 1..(Len(mid) - Len(r.omitted[k])) :
                    SubSeq(mid, i, i + Len(r.omitted[k])) = <<"- ">> \o r.omitted[k]
<1> PICK f, o, t : f = MetaFront(r) /\ o = r.omitted /\ t = OmittedText(r.omitted)
  OBVIOUS
<1> PICK mid : mid = MetaText(r)
  OBVIOUS
<1>0. mid = f \o t
  BY DEF MetaText
<1>1. f \in Seq(Words) /\ Len(f) \in Nat \ {0} /\ Ends(f)
  BY FrontIs
<1>2. CASE o = <<>>
  <2>1. t = <<>> /\ mid = f
    BY <1>0, <1>1, <1>2 DEF OmittedText
  <2>2. 1..Len(o) = {}
    BY <1>2
  <2> QED BY <1>1, <2>1, <2>2
<1>3. CASE o # <<>>
  <2> PICK h : h = <<"Files omitted", Newline>>
    OBVIOUS
  <2> PICK b : b = Bulleted(o)
    OBVIOUS
  <2>1. h \in Seq(Words) /\ Ends(h) /\ Len(h) = 2
    <3>1. "Files omitted" \in Words /\ Newline \in Words
      BY DEF Words
    <3>2. h \in Seq(Words) /\ Len(h) = 2 /\ h[2] = Newline
      BY <3>1, FewWords
    <3> QED BY <3>2 DEF Ends
  <2>2. /\ b \in Seq(Words) /\ Ends(b)
        /\ \A k \in 1..Len(o) : \E p \in Nat :
             /\ p + Len(o[k]) + 2 <= Len(b)
             /\ b[p + 1] = "- "
             /\ \A j \in 1..Len(o[k]) : b[p + 1 + j] = o[k][j]
    BY BulletedIs
  <2>3. t = h \o b
    BY <1>3 DEF OmittedText
  <2> PICK fh : fh = f \o h
    OBVIOUS
  <2>4. fh \in Seq(Words) /\ Ends(fh)
    BY <1>1, <2>1, EndsJoin
  <2>5. mid = fh \o b
    <3>1. (f \o h) \o b = f \o (h \o b)
      <4>1. f \in Seq(Words) /\ h \in Seq(Words) /\ b \in Seq(Words)
        BY <1>1, <2>1, <2>2
      <4> QED BY ONLY <4>1, JoinedTwice
    <3> QED BY ONLY <1>0, <2>3, <3>1, fh = f \o h
  <2>6. mid \in Seq(Words) /\ Ends(mid)
    BY ONLY <2>2, <2>4, <2>5, EndsJoin
  <2> PICK a \in Nat : a = Len(fh)
    <3>1. Len(fh) \in Nat
      BY ONLY <2>4
    <3> QED BY ONLY <3>1
  <2>7. a # 0
    <3>1. f \in Seq(Words) /\ h \in Seq(Words) /\ Len(h) = 2
      BY ONLY <1>1, <2>1
    <3>2. Len(f) \in Nat
      BY ONLY <3>1
    <3>3. Len(fh) = Len(f) + Len(h)
      BY ONLY <3>1, fh = f \o h, Joined
    <3> QED BY ONLY <3>1, <3>2, <3>3, a = Len(fh)
  <2>8. /\ Len(mid) = a + Len(b) /\ Len(b) \in Nat
        /\ \A j \in 1..Len(b) : mid[a + j] = b[j]
    <3>0. fh \in Seq(Words) /\ b \in Seq(Words) /\ mid = fh \o b
      BY <2>2, <2>4, <2>5
    <3>1. /\ Len(mid) = Len(fh) + Len(b)
          /\ \A j \in 1..Len(b) : mid[Len(fh) + j] = b[j]
      BY ONLY <3>0, Joined
    <3>2. Len(b) \in Nat
      BY ONLY <3>0
    <3> QED BY ONLY <3>1, <3>2, a = Len(fh)
  <2>9. ASSUME NEW k \in 1..Len(o)
        PROVE  \E i \in 1..(Len(mid) - Len(o[k])) :
                 SubSeq(mid, i, i + Len(o[k])) = <<"- ">> \o o[k]
    <3> PICK e \in Seq(Words) : e = o[k]
      <4>1. o \in Seq(Seq(Words))
        OBVIOUS
      <4>2. o[k] \in Seq(Words)
        BY ONLY <4>1, k \in 1..Len(o)
      <4> QED BY <4>2
    <3> PICK l \in Nat : l = Len(e)
      <4>1. Len(e) \in Nat
        BY ONLY e \in Seq(Words)
      <4> QED BY <4>1
    <3>1. PICK p \in Nat : /\ p + l + 2 <= Len(b)
                           /\ b[p + 1] = "- "
                           /\ \A j \in 1..l : b[p + 1 + j] = e[j]
      <4>1. \E p \in Nat : /\ p + Len(o[k]) + 2 <= Len(b)
                           /\ b[p + 1] = "- "
                           /\ \A j \in 1..Len(o[k]) : b[p + 1 + j] = o[k][j]
        BY <2>2
      <4> QED BY ONLY <4>1, e = o[k], l = Len(e)
    <3> PICK m \in Nat : m = a + p
      <4>1. a + p \in Nat
        BY ONLY a \in Nat, p \in Nat
      <4> QED BY <4>1
    <3>2. /\ m + 1 \in 1..(Len(mid) - l) /\ m + 1 + l \in Nat /\ m <= m + 1 + l
          /\ m + 1 + l <= Len(mid) /\ (m + 1 + l) - m = l + 1
      <4>1. Len(mid) = a + Len(b) /\ Len(b) \in Nat /\ p + l + 2 <= Len(b)
        BY <2>8, <3>1
      <4> QED BY ONLY <4>1, m = a + p, a \in Nat, p \in Nat, l \in Nat, m \in Nat
    <3>3. ASSUME NEW j \in 1..(l + 1) PROVE mid[m + j] = b[p + j]
      <4>1. p + j \in 1..Len(b) /\ m + j = a + (p + j)
        <5>1. p + l + 2 <= Len(b) /\ Len(b) \in Nat
          BY <2>8, <3>1
        <5> QED BY ONLY <5>1, m = a + p, a \in Nat, p \in Nat, l \in Nat, j \in 1..(l + 1)
      <4> QED BY ONLY <2>8, <4>1
    <3> PICK line : line = <<"- ">> \o e
      OBVIOUS
    <3>4. /\ line \in Seq(Words) /\ Len(line) = l + 1 /\ line[1] = "- "
          /\ \A j \in 1..l : line[1 + j] = e[j]
      <4>1. "- " \in Words
        BY DEF Words
      <4> PICK x \in Words : x = "- "
        BY <4>1
      <4>2. line = <<x>> \o e
        OBVIOUS
      <4>3. /\ line \in Seq(Words) /\ Len(line) = l + 1 /\ line[1] = x
            /\ \A j \in 1..l : line[1 + j] = e[j]
        BY ONLY <4>2, x \in Words, e \in Seq(Words), l = Len(e)
      <4> QED BY <4>3
    <3>5. ASSUME NEW j \in 1..(l + 1) PROVE b[p + j] = line[j]
      <4>1. CASE j = 1
        BY <3>1, <3>4, <4>1
      <4>2. CASE j # 1
        <5>1. j - 1 \in 1..l /\ 1 + (j - 1) = j /\ p + 1 + (j - 1) = p + j
          BY ONLY <4>2, j \in 1..(l + 1), l \in Nat, p \in Nat
        <5>2. b[p + 1 + (j - 1)] = e[j - 1] /\ line[1 + (j - 1)] = e[j - 1]
          BY <3>1, <3>4, <5>1
        <5> QED BY ONLY <5>1, <5>2
      <4> QED BY <4>1, <4>2
    <3> PICK h2 \in Nat : h2 = m + 1 + l
      BY <3>2
    <3>6. /\ SubSeq(mid, m + 1, h2) \in Seq(Words) /\ Len(SubSeq(mid, m + 1, h2)) = h2 - m
          /\ \A j \in 1..(h2 - m) : SubSeq(mid, m + 1, h2)[j] = mid[m + j]
      <4>1. mid \in Seq(Words) /\ m <= h2 /\ h2 <= Len(mid)
        BY <2>6, <3>2
      <4> QED BY ONLY <4>1, m \in Nat, h2 \in Nat, SubSeqIs
    <3> PICK part : part = SubSeq(mid, m + 1, h2)
      OBVIOUS
    <3>7. part \in Seq(Words) /\ Len(part) = l + 1 /\ \A j \in 1..(l + 1) : part[j] = mid[m + j]
      <4>1. h2 - m = l + 1
        BY <3>2
      <4> QED BY ONLY <3>6, <4>1, part = SubSeq(mid, m + 1, h2)
    <3>8. \A j \in 1..(l + 1) : part[j] = line[j]
      BY ONLY <3>3, <3>5, <3>7
    <3>9. part = line
      BY ONLY <3>4, <3>7, <3>8, SameParts
    <3> QED BY <3>2, <3>9
  <2>10. Len(mid) # 0
    BY ONLY <2>7, <2>8, a \in Nat
  <2> QED BY <2>6, <2>9, <2>10
<1> QED BY <1>2, <1>3

LEMMA ThreeParts ==
  ASSUME NEW S, NEW x \in Seq(S), NEW y \in S, NEW z \in Seq(S)
  PROVE  LET s == x \o <<y>> \o z
         IN  /\ s \in Seq(S) /\ Len(s) = Len(x) + 1 + Len(z)
             /\ Len(x) \in Nat /\ Len(z) \in Nat
             /\ \A j \in 1..Len(x) : s[j] = x[j]
             /\ s[Len(x) + 1] = y
             /\ \A j \in 1..Len(z) : s[Len(x) + 1 + j] = z[j]
OBVIOUS

LEMMA ToSetJoins ==
  ASSUME NEW S, NEW a \in Seq(S), NEW b \in Seq(S)
  PROVE  ToSet(a \o b) = ToSet(a) \cup ToSet(b)
<1> PICK n \in Nat, m \in Nat : n = Len(a) /\ m = Len(b)
  OBVIOUS
<1> PICK c : c = a \o b
  OBVIOUS
<1>1. /\ c \in Seq(S) /\ Len(c) = n + m
      /\ \A j \in 1..n : c[j] = a[j]
      /\ \A j \in 1..m : c[n + j] = b[j]
  BY Joined
<1>2. DOMAIN a = 1..n /\ DOMAIN b = 1..m /\ DOMAIN c = 1..(n + m)
  BY <1>1
<1>3. ASSUME NEW j \in 1..(n + m) PROVE c[j] \in ToSet(a) \cup ToSet(b)
  <2>1. CASE j \in 1..n
    BY <1>1, <1>2, <2>1 DEF ToSet
  <2>2. CASE j \notin 1..n
    <3>1. j - n \in 1..m /\ n + (j - n) = j
      BY ONLY <2>2, j \in 1..(n + m), n \in Nat, m \in Nat
    <3>2. c[j] = b[j - n]
      BY <1>1, <3>1
    <3> QED BY <1>2, <3>1, <3>2 DEF ToSet
  <2> QED BY <2>1, <2>2
<1>4. ASSUME NEW j \in 1..n PROVE a[j] \in ToSet(c)
  <2>1. j \in 1..(n + m)
    BY ONLY j \in 1..n, n \in Nat, m \in Nat
  <2> QED BY <1>1, <1>2, <2>1 DEF ToSet
<1>5. ASSUME NEW j \in 1..m PROVE b[j] \in ToSet(c)
  <2>1. n + j \in 1..(n + m)
    BY ONLY j \in 1..m, n \in Nat, m \in Nat
  <2> QED BY <1>1, <1>2, <2>1 DEF ToSet
<1>6. \A y \in ToSet(c) : y \in ToSet(a) \cup ToSet(b)
  BY ONLY <1>2, <1>3 DEF ToSet
<1>7. \A y \in ToSet(a) : y \in ToSet(c)
  BY ONLY <1>2, <1>4 DEF ToSet
<1>8. \A y \in ToSet(b) : y \in ToSet(c)
  BY ONLY <1>2, <1>5 DEF ToSet
<1>9. ToSet(c) = ToSet(a) \cup ToSet(b)
  BY ONLY <1>6, <1>7, <1>8
<1> QED BY <1>9

(* The prompt and the paragraph that names the fences of q.                *)
HeadOf(q) ==
  <<"prompt", Newline, Newline>> \o (<<"between">> \o q \o <<"untrusted", Newline>>)

LEMMA HeadOfIs ==
  ASSUME NEW q \in Seq(Fences)
  PROVE  HeadIs(HeadOf(q)) /\ ToSet(HeadOf(q)) \cap Fences = ToSet(q)
<1> PICK l \in Nat : l = Len(q)
  OBVIOUS
<1>0. {"prompt", Newline, "between", "untrusted"} \subseteq Words
  BY DEF Words
<1> PICK p \in Words, e \in Words, b \in Words, u \in Words :
      p = "prompt" /\ e = Newline /\ b = "between" /\ u = "untrusted"
  BY <1>0
<1>1. b # e /\ u # e
  BY DEF Newline
<1>2. Words \cap Fences = {} /\ Words \subseteq Signs /\ q \in Seq(Signs)
  BY WordsAre DEF Signs
<1>3. \A i \in 1..l : q[i] \in Fences
  OBVIOUS
<1> PICK x : x = <<b>> \o q \o <<u, e>>
  OBVIOUS
<1>4. /\ x \in Seq(Signs) /\ Len(x) = l + 3 /\ x[1] = b
      /\ x[l + 2] = u /\ x[l + 3] = e
      /\ \A i \in 1..l : x[1 + i] = q[i]
  <2>1. b \in Signs /\ u \in Signs /\ e \in Signs
    BY <1>2
  <2> QED BY ONLY <2>1, <1>2, x = <<b>> \o q \o <<u, e>>, l = Len(q)
<1> PICK h : h = <<p, e, e>> \o x
  OBVIOUS
<1>5. /\ h \in Seq(Signs) /\ Len(h) = l + 6
      /\ h[1] = p /\ h[2] = e /\ h[3] = e
      /\ \A i \in 1..(l + 3) : h[3 + i] = x[i]
  <2>1. p \in Signs /\ e \in Signs
    BY <1>2
  <2>2. x \in Seq(Signs) /\ Len(x) = l + 3
    BY <1>4
  <2> QED BY ONLY <2>1, <2>2, h = <<p, e, e>> \o x, l \in Nat
<1>6. h[4] = b /\ h[l + 5] = u /\ h[l + 6] = e /\ \A i \in 1..l : h[4 + i] = q[i]
  <2>1. /\ 1 \in 1..(l + 3) /\ l + 2 \in 1..(l + 3) /\ l + 3 \in 1..(l + 3)
        /\ 3 + 1 = 4 /\ 3 + (l + 2) = l + 5 /\ 3 + (l + 3) = l + 6
        /\ \A i \in 1..l : 1 + i \in 1..(l + 3) /\ 3 + (1 + i) = 4 + i
    BY ONLY l \in Nat
  <2>2. h[4] = b /\ h[l + 5] = u /\ h[l + 6] = e
    BY <1>4, <1>5, <2>1
  <2>3. \A i \in 1..l : h[4 + i] = x[1 + i]
    BY <1>5, <2>1
  <2>4. \A i \in 1..l : h[4 + i] = q[i]
    BY <1>4, <2>3
  <2> QED BY <2>2, <2>4
<1>7. \A i \in 1..(l + 6) : \/ i \in {1, 2, 3, 4} \/ i = l + 5 \/ i = l + 6
                            \/ i - 4 \in 1..l /\ 4 + (i - 4) = i
  BY ONLY l \in Nat
<1>8. \A i \in 1..(l + 6) : h[i] \in Fences => i - 4 \in 1..l /\ 4 + (i - 4) = i
  <2> SUFFICES ASSUME NEW i \in 1..(l + 6), h[i] \in Fences, ~(i - 4 \in 1..l)
               PROVE  FALSE
    BY <1>7
  <2>1. i \in {1, 2, 3, 4} \/ i = l + 5 \/ i = l + 6
    BY <1>7
  <2>2. h[i] \in {p, e, b, u}
    BY <1>5, <1>6, <2>1
  <2> QED BY <1>2, <2>2
<1>9. HeadIs(h)
  <2>1. ASSUME NEW i \in 2..(l + 6), h[i] \in Fences PROVE h[i - 1] # Newline
    <3>1. i \in 1..(l + 6)
      BY ONLY i \in 2..(l + 6), l \in Nat
    <3>2. i - 4 \in 1..l
      BY <1>8, <2>1, <3>1
    <3>3. CASE i - 4 = 1
      <4>1. i - 1 = 4
        BY ONLY <3>3, i \in 2..(l + 6), l \in Nat
      <4> QED BY <1>1, <1>6, <4>1
    <3>4. CASE i - 4 # 1
      <4>1. (i - 1) - 4 \in 1..l /\ 4 + ((i - 1) - 4) = i - 1
        BY ONLY <3>2, <3>4, i \in 2..(l + 6), l \in Nat
      <4>2. h[i - 1] = q[(i - 1) - 4]
        BY <1>6, <4>1
      <4>3. h[i - 1] \in Fences
        BY <1>3, <4>1, <4>2
      <4> QED BY <1>2, <4>3
    <3> QED BY <3>3, <3>4
  <2>2. l + 6 \in Nat \ {0}
    OBVIOUS
  <2>3. h[1] \notin Fences /\ h[l + 6] = Newline
    BY <1>2, <1>5, <1>6
  <2>4. h \in Seq(Signs) /\ Len(h) = l + 6
    BY <1>5
  <2> QED BY <2>1, <2>2, <2>3, <2>4 DEF HeadIs
<1>10. ToSet(h) \cap Fences = ToSet(q)
  <2>1. DOMAIN h = 1..(l + 6) /\ DOMAIN q = 1..l
    BY <1>5
  <2>2. ASSUME NEW i \in 1..(l + 6), h[i] \in Fences PROVE h[i] \in ToSet(q)
    <3>1. i - 4 \in 1..l /\ 4 + (i - 4) = i
      BY <1>8, <2>2
    <3>2. h[i] = q[i - 4]
      BY <1>6, <3>1
    <3> QED BY <2>1, <3>1, <3>2 DEF ToSet
  <2>3. ASSUME NEW i \in 1..l PROVE q[i] \in ToSet(h) /\ q[i] \in Fences
    <3>1. 4 + i \in 1..(l + 6)
      BY ONLY i \in 1..l, l \in Nat
    <3>2. h[4 + i] = q[i]
      BY <1>6
    <3> QED BY <1>3, <2>1, <3>1, <3>2 DEF ToSet
  <2>4. \A y \in ToSet(h) : y \in Fences => y \in ToSet(q)
    <3> SUFFICES ASSUME NEW y \in ToSet(h), y \in Fences PROVE y \in ToSet(q)
      OBVIOUS
    <3>1. PICK i \in 1..(l + 6) : y = h[i]
      BY <2>1 DEF ToSet
    <3> QED BY <2>2, <3>1
  <2>5. \A y \in ToSet(q) : y \in ToSet(h) /\ y \in Fences
    <3> SUFFICES ASSUME NEW y \in ToSet(q) PROVE y \in ToSet(h) /\ y \in Fences
      OBVIOUS
    <3>1. PICK i \in 1..l : y = q[i]
      BY <2>1 DEF ToSet
    <3> QED BY <2>3, <3>1
  <2> QED BY ONLY <2>4, <2>5
<1>11. HeadOf(q) = h
  BY DEF HeadOf
<1> QED BY <1>9, <1>10, <1>11

LEMMA FlattenIsEmpty ==
  ASSUME NEW S, NEW ss \in Seq(Seq(S)), \A i \in 1..Len(ss) : ss[i] # <<>>
  PROVE  FlattenSeq(ss) \in Seq(S) /\ (FlattenSeq(ss) = <<>> <=> ss = <<>>)
<1> PICK flat : flat = FlattenSeq(ss)
  OBVIOUS
<1>1. PICK off : flat \in Seq(S) /\ Laid(ss, flat, off)
  BY FlattenIsLaid
<1>2. ss = <<>> => flat = <<>>
  BY FlattenEmpty
<1>3. ASSUME ss # <<>> PROVE flat # <<>>
  <2> PICK n \in Nat : n = Len(ss)
    OBVIOUS
  <2>1. n # 0
    BY <1>3
  <2>2. 0 \in 0..n /\ 1 \in 0..n /\ 1 \in 1..n /\ n \in 1..n /\ 1 - 1 = 0
    BY ONLY <2>1, n \in Nat
  <2>3. /\ off \in [0..n -> Nat] /\ off[0] = 0 /\ off[n] = Len(flat)
        /\ \A i \in 1..n : off[i] = off[i - 1] + Len(ss[i])
    BY <1>1 DEF Laid
  <2>4. ss[1] # <<>> /\ ss[1] \in Seq(S)
    BY <2>2
  <2>5. Len(ss[1]) \in Nat \ {0}
    BY ONLY <2>4
  <2>6. off[1] = Len(ss[1])
    BY <2>2, <2>3, <2>5
  <2>7. off[1] <= off[n]
    <3>1. 1 \in 0..Len(ss) /\ n \in 1..Len(ss)
      BY <2>2
    <3> QED BY <1>1, <3>1, LaidMonotone
  <2>8. Len(flat) # 0
    <3>1. off[n] \in Nat
      BY <2>2, <2>3
    <3> QED BY <2>3, <2>5, <2>6, <2>7, <3>1
  <2> QED BY <2>8
<1> QED BY <1>1, <1>2, <1>3

LEMMA WrappedIs ==
  ASSUME NEW mids \in Seq(Seq(Words)), NEW pairs \in Seq(Pairs), Len(pairs) = Len(mids)
  PROVE  /\ Wrapped(pairs, mids) \in Seq(Seq(Signs))
         /\ Len(Wrapped(pairs, mids)) = Len(mids)
         /\ \A k \in 1..Len(mids) : Wrapped(pairs, mids)[k] = Wrap(pairs[k], mids[k])
<1> PICK n \in Nat : n = Len(mids)
  OBVIOUS
<1> PICK T, ps : T = Seq(Signs) /\ ps = Wrapped(pairs, mids)
  OBVIOUS
<1>1. \A k \in 1..n : pairs[k] \in Pairs /\ mids[k] \in Seq(Words)
  OBVIOUS
<1>2. \A k \in 1..n : Wrap(pairs[k], mids[k]) \in T
  BY <1>1, WrapIs
<1>3. ps = [k \in 1..n |-> Wrap(pairs[k], mids[k])]
  BY DEF Wrapped
<1>4. ps \in Seq(T) /\ Len(ps) = n /\ \A k \in 1..n : ps[k] = Wrap(pairs[k], mids[k])
  BY ONLY <1>2, <1>3, n \in Nat
<1> QED BY <1>4

(* Some sections and then some others.                                     *)
LEMMA WrappedJoins ==
  ASSUME NEW ma, NEW pa, NEW mb, NEW pb,
         ma \in Seq(Seq(Words)), pa \in Seq(Pairs), Len(pa) = Len(ma),
         mb \in Seq(Seq(Words)), pb \in Seq(Pairs), Len(pb) = Len(mb)
  PROVE  /\ FlattenSeq(Wrapped(pa \o pb, ma \o mb))
              = FlattenSeq(Wrapped(pa, ma)) \o FlattenSeq(Wrapped(pb, mb))
         /\ ma \o mb \in Seq(Seq(Words)) /\ pa \o pb \in Seq(Pairs)
         /\ Len(pa \o pb) = Len(ma \o mb)
<1> PICK W : W = Seq(Words)
  OBVIOUS
<1> PICK n \in Nat, m \in Nat : n = Len(ma) /\ m = Len(mb)
  OBVIOUS
<1> PICK ms, ps : ms = ma \o mb /\ ps = pa \o pb
  OBVIOUS
<1>1. /\ ms \in Seq(W) /\ Len(ms) = n + m
      /\ \A j \in 1..n : ms[j] = ma[j]
      /\ \A j \in 1..m : ms[n + j] = mb[j]
  <2>1. ma \in Seq(W) /\ mb \in Seq(W)
    OBVIOUS
  <2> QED BY ONLY <2>1, ms = ma \o mb, n = Len(ma), m = Len(mb), Joined
<1>2. /\ ps \in Seq(Pairs) /\ Len(ps) = n + m
      /\ \A j \in 1..n : ps[j] = pa[j]
      /\ \A j \in 1..m : ps[n + j] = pb[j]
  <2>1. pa \in Seq(Pairs) /\ pb \in Seq(Pairs) /\ n = Len(pa) /\ m = Len(pb)
    OBVIOUS
  <2> QED BY ONLY <2>1, ps = pa \o pb, Joined
<1> PICK T : T = Seq(Signs)
  OBVIOUS
<1> PICK a, b, c : /\ a = Wrapped(pa, ma) /\ b = Wrapped(pb, mb)
                   /\ c = Wrapped(ps, ms)
  OBVIOUS
<1>3. /\ a \in Seq(T) /\ Len(a) = n /\ \A k \in 1..n : a[k] = Wrap(pa[k], ma[k])
      /\ b \in Seq(T) /\ Len(b) = m /\ \A k \in 1..m : b[k] = Wrap(pb[k], mb[k])
  BY WrappedIs
<1>4. /\ c \in Seq(T) /\ Len(c) = n + m
      /\ \A k \in 1..(n + m) : c[k] = Wrap(ps[k], ms[k])
  <2>1. ms \in Seq(Seq(Words)) /\ Len(ps) = Len(ms)
    BY <1>1, <1>2
  <2>2. /\ c \in Seq(T) /\ Len(c) = Len(ms)
        /\ \A k \in 1..Len(ms) : c[k] = Wrap(ps[k], ms[k])
    BY <1>2, <2>1, WrappedIs
  <2> QED BY <1>1, <2>2
<1>5. /\ a \o b \in Seq(T) /\ Len(a \o b) = n + m
      /\ \A k \in 1..n : (a \o b)[k] = a[k]
      /\ \A k \in 1..m : (a \o b)[n + k] = b[k]
  <2>1. a \in Seq(T) /\ b \in Seq(T) /\ Len(a) = n /\ Len(b) = m
    BY <1>3
  <2>2. a \o b \in Seq(T) /\ Len(a \o b) = Len(a) + Len(b)
    BY ONLY <2>1
  <2>3. \A k \in 1..Len(a) : (a \o b)[k] = a[k]
    BY ONLY <2>1
  <2>4. \A k \in 1..Len(b) : (a \o b)[Len(a) + k] = b[k]
    BY ONLY <2>1
  <2> PICK ab : ab = a \o b
    OBVIOUS
  <2>5. /\ ab \in Seq(T) /\ Len(ab) = n + m
        /\ \A k \in 1..n : ab[k] = a[k]
        /\ \A k \in 1..m : ab[n + k] = b[k]
    BY ONLY <2>1, <2>2, <2>3, <2>4, ab = a \o b, Zenon
  <2> QED BY ONLY <2>5, ab = a \o b, Zenon
<1> PICK ab : ab = a \o b
  OBVIOUS
<1>6. ASSUME NEW k \in 1..(n + m) PROVE c[k] = ab[k]
  <2>1. CASE k \in 1..n
    <3>1. ps[k] = pa[k] /\ ms[k] = ma[k] /\ ab[k] = a[k]
      BY <1>1, <1>2, <1>5, <2>1
    <3>2. a[k] = Wrap(pa[k], ma[k]) /\ c[k] = Wrap(ps[k], ms[k])
      BY <1>3, <1>4, <2>1
    <3> QED BY ONLY <3>1, <3>2
  <2>2. CASE k \notin 1..n
    <3>1. k - n \in 1..m /\ n + (k - n) = k
      BY ONLY <2>2, k \in 1..(n + m), n \in Nat, m \in Nat
    <3> PICK j \in 1..m : j = k - n
      BY <3>1
    <3>2. n + j = k
      BY <3>1
    <3>3. ps[k] = pb[j] /\ ms[k] = mb[j] /\ ab[k] = b[j]
      BY <1>1, <1>2, <1>5, <3>2
    <3>4. b[j] = Wrap(pb[j], mb[j]) /\ c[k] = Wrap(ps[k], ms[k])
      BY <1>3, <1>4
    <3> QED BY ONLY <3>3, <3>4
  <2> QED BY <2>1, <2>2
<1>7. c = ab
  <2>1. c \in Seq(T) /\ ab \in Seq(T) /\ Len(c) = n + m /\ Len(ab) = n + m
    BY <1>4, <1>5
  <2>2. \A k \in 1..(n + m) : c[k] = ab[k]
    BY <1>6
  <2> QED BY ONLY <2>1, <2>2, SameParts
<1>8. FlattenSeq(a \o b) = FlattenSeq(a) \o FlattenSeq(b)
  <2>1. a \in Seq(Seq(Signs)) /\ b \in Seq(Seq(Signs))
    BY <1>3
  <2> QED BY ONLY <2>1, FlattenJoins
<1>9. Len(ps) = Len(ms)
  BY <1>1, <1>2
<1> QED BY <1>1, <1>2, <1>7, <1>8, <1>9

LEMMA WrappedOne ==
  ASSUME NEW pair \in Pairs, NEW mid \in Seq(Words)
  PROVE  /\ FlattenSeq(Wrapped(<<pair>>, <<mid>>)) = Wrap(pair, mid)
         /\ <<pair>> \in Seq(Pairs) /\ <<mid>> \in Seq(Seq(Words))
         /\ Len(<<pair>>) = 1 /\ Len(<<mid>>) = 1
<1>1. Wrapped(<<pair>>, <<mid>>) = <<Wrap(pair, mid)>>
  BY DEF Wrapped
<1>2. Wrap(pair, mid) \in Seq(Signs)
  BY WrapIs
<1>3. FlattenSeq(<<Wrap(pair, mid)>>) = Wrap(pair, mid)
  BY <1>2, FlattenOne
<1> QED BY <1>1, <1>3

(* What a review is made of.                                               *)
ReviewTyped ==
  /\ review.title \in Seq(Words) /\ review.body \in Seq(Words)
  /\ review.diff \in Seq(Words)
  /\ review.omitted \in Seq(Seq(Words))
  /\ \A k \in 1..Len(review.omitted) : review.omitted[k] # <<>>
  /\ Len(review.files) \in Nat
  /\ \A i \in 1..Len(review.files) : /\ review.files[i].path \in Seq(Words)
                                     /\ review.files[i].content \in Seq(Words)

(* Its sections in their order: their fences, and what is between.         *)
Fenced ==
  (IF HasMetadata THEN <<Metadata>> ELSE <<>>)
    \o (<<TheDiff>> \o [i \in 1..Len(review.files) |-> AFile])
Between ==
  (IF HasMetadata THEN <<MetaText(review)>> ELSE <<>>)
    \o (<<DiffText(review.diff)>>
          \o [i \in 1..Len(review.files) |-> FileText(review.files[i])])
Announced ==
  ((IF HasMetadata THEN Metadata ELSE <<>>) \o TheDiff)
    \o (IF HasFiles THEN AFile ELSE <<>>)

LEMMA NoWords == <<>> \in Seq(Words)
OBVIOUS

LEMMA MetadataIs ==
  ASSUME ReviewTyped
  PROVE  MetadataSection = IF HasMetadata THEN Wrap(Metadata, MetaText(review)) ELSE <<>>
<1> SUFFICES ASSUME HasMetadata PROVE MetadataSection = Wrap(Metadata, MetaText(review))
  BY DEF MetadataSection
<1> PICK x, u, t, d, b, o, y :
      /\ x = <<Metadata[1]>> /\ u = <<Newline, "PR title: ">> /\ t = review.title
      /\ d = <<Newline, "PR description:", Newline>> /\ b = AppendBlock(review.body)
      /\ o = OmittedText(review.omitted) /\ y = <<Metadata[2], Newline>>
  OBVIOUS
<1> PICK a : a = <<Metadata[1], Newline, "PR title: ">>
  OBVIOUS
<1>1. Concat(LAMBDA e : <<"- ">> \o e \o <<Newline>>, review.omitted)
        = Bulleted(review.omitted)
  BY DEF Concat, Bulleted, Bullet
<1>2. MetadataSection = ((((a \o t) \o d) \o b) \o o) \o y
  BY <1>1 DEF MetadataSection, OmittedText
<1>3. a = x \o u
  <2>1. Metadata[1] \in Signs /\ Newline \in Signs /\ "PR title: " \in Signs
    BY FencesAre DEF Signs, Pairs, Words
  <2> PICK i \in Signs, j \in Signs, k \in Signs :
        i = Metadata[1] /\ j = Newline /\ k = "PR title: "
    BY <2>1
  <2>2. <<i, j, k>> = <<i>> \o <<j, k>>
    BY ONLY i \in Signs, j \in Signs, k \in Signs
  <2> QED BY <2>2
<1>4. Wrap(Metadata, MetaText(review)) = (x \o ((((u \o t) \o d) \o b) \o o)) \o y
  BY DEF Wrap, MetaText, MetaFront
<1>5. Words \subseteq Signs /\ Metadata[1] \in Signs
  BY FencesAre DEF Signs, Pairs
<1>6. u \in Seq(Words) /\ d \in Seq(Words)
  <2>1. Newline \in Words /\ "PR title: " \in Words /\ "PR description:" \in Words
    BY DEF Words
  <2> QED BY ONLY <2>1, u = <<Newline, "PR title: ">>,
                  d = <<Newline, "PR description:", Newline>>, FewWords
<1>7. b \in Seq(Words) /\ t \in Seq(Words)
  <2>1. review.body \in Seq(Words) /\ review.title \in Seq(Words)
    BY DEF ReviewTyped
  <2> QED BY <2>1, BlockIs
<1>8. o \in Seq(Words)
  <2>1. Bulleted(review.omitted) \in Seq(Words)
    BY BulletedIs DEF ReviewTyped
  <2>2. "Files omitted" \in Words /\ Newline \in Words
    BY DEF Words
  <2>3. <<"Files omitted", Newline>> \in Seq(Words)
    BY <2>2, FewWords
  <2> PICK p, q : p = <<"Files omitted", Newline>> /\ q = Bulleted(review.omitted)
    OBVIOUS
  <2>6. p \in Seq(Words) /\ q \in Seq(Words)
    BY <2>1, <2>3
  <2>4. p \o q \in Seq(Words)
    BY ONLY <2>6
  <2>5. o = <<>> \/ o = p \o q
    BY DEF OmittedText
  <2>7. <<>> \in Seq(Words)
    BY NoWords
  <2>8. CASE o = <<>>
    BY ONLY <2>7, <2>8
  <2>9. CASE o = p \o q
    BY ONLY <2>4, <2>9
  <2> QED BY ONLY <2>5, <2>8, <2>9
<1>9. /\ x \in Seq(Signs) /\ u \in Seq(Signs) /\ t \in Seq(Signs)
      /\ d \in Seq(Signs) /\ b \in Seq(Signs) /\ o \in Seq(Signs)
  <2>1. \A s \in Seq(Words) : s \in Seq(Signs)
    BY ONLY <1>5
  <2>2. x \in Seq(Signs)
    BY ONLY <1>5, x = <<Metadata[1]>>
  <2> QED BY ONLY <1>6, <1>7, <1>8, <2>1, <2>2
<1>10. x \o ((((u \o t) \o d) \o b) \o o) = ((((x \o u) \o t) \o d) \o b) \o o
  <2> PICK m2 : m2 = u \o t
    OBVIOUS
  <2> PICK m3 : m3 = m2 \o d
    OBVIOUS
  <2> PICK m4 : m4 = m3 \o b
    OBVIOUS
  <2>1. m2 \in Seq(Signs)
    BY ONLY m2 = u \o t, <1>9
  <2>2. m3 \in Seq(Signs)
    BY ONLY m3 = m2 \o d, <2>1, <1>9
  <2>3. m4 \in Seq(Signs)
    BY ONLY m4 = m3 \o b, <2>2, <1>9
  <2>4. x \o (m4 \o o) = (x \o m4) \o o
    BY ONLY <1>9, <2>3, SMTT(30)
  <2>5. x \o (m3 \o b) = (x \o m3) \o b
    BY ONLY <1>9, <2>2, SMTT(30)
  <2>6. x \o (m2 \o d) = (x \o m2) \o d
    BY ONLY <1>9, <2>1, SMTT(30)
  <2>7. x \o (u \o t) = (x \o u) \o t
    BY ONLY <1>9, SMTT(30)
  <2> QED BY ONLY <2>4, <2>5, <2>6, <2>7, m2 = u \o t, m3 = m2 \o d, m4 = m3 \o b
<1> QED BY ONLY <1>2, <1>3, <1>4, <1>10

LEMMA ExpectedIs ==
  ASSUME ReviewTyped
  PROVE  Expected = Fenced
<1> PICK t, b, f, o : /\ t = review.title /\ b = review.body /\ o = review.omitted
                      /\ f = FlattenSeq(review.omitted)
  OBVIOUS
<1>1. f \in Seq(Words) /\ (f = <<>> <=> o = <<>>)
  BY FlattenIsEmpty DEF ReviewTyped
<1>2. t \in Seq(Words) /\ b \in Seq(Words)
  BY DEF ReviewTyped
<1>3. (t \o b) \o f = <<>> <=> t = <<>> /\ b = <<>> /\ f = <<>>
  BY ONLY <1>1, <1>2
<1>4. HasMetadata <=> t \o b \o f # <<>>
  BY <1>1, <1>3 DEF HasMetadata
<1> PICK m, s : /\ m = (IF HasMetadata THEN <<Metadata>> ELSE <<>>)
                /\ s = [i \in 1..Len(review.files) |-> AFile]
  OBVIOUS
<1>5. Expected = (m \o <<TheDiff>>) \o s
  BY <1>4 DEF Expected
<1>6. m \in Seq(Pairs) /\ <<TheDiff>> \in Seq(Pairs) /\ s \in Seq(Pairs)
  <2>1. Metadata \in Pairs /\ TheDiff \in Pairs /\ AFile \in Pairs
    BY DEF Pairs
  <2>2. Len(review.files) \in Nat
    BY DEF ReviewTyped
  <2>3. \A x : x \in Pairs => <<x>> \in Seq(Pairs)
    OBVIOUS
  <2>4. s \in Seq(Pairs)
    BY <2>1, <2>2
  <2> QED BY ONLY <2>1, <2>3, <2>4, m = (IF HasMetadata THEN <<Metadata>> ELSE <<>>)
<1> PICK e : e = <<TheDiff>>
  OBVIOUS
<1>7. (m \o e) \o s = m \o (e \o s)
  <2>1. m \in Seq(Pairs) /\ e \in Seq(Pairs) /\ s \in Seq(Pairs)
    BY <1>6
  <2> QED BY ONLY <2>1
<1> QED BY <1>5, <1>7 DEF Fenced

(* The sections on the files.                                              *)
LEMMA FileSectionsAre ==
  ASSUME ReviewTyped
  PROVE  LET pairs == [i \in 1..Len(review.files) |-> AFile]
             mids  == [i \in 1..Len(review.files) |-> FileText(review.files[i])]
         IN  /\ pairs \in Seq(Pairs) /\ mids \in Seq(Seq(Words))
             /\ Len(pairs) = Len(review.files) /\ Len(mids) = Len(review.files)
             /\ \A i \in 1..Len(review.files) : /\ pairs[i] = AFile
                                                /\ mids[i] = FileText(review.files[i])
             /\ FlattenSeq(Wrapped(pairs, mids)) = Concat(FileSection, review.files)
<1> PICK n \in Nat : n = Len(review.files)
  BY DEF ReviewTyped
<1> PICK T : T = Seq(Words)
  OBVIOUS
<1> PICK pairs, mids : /\ pairs = [i \in 1..n |-> AFile]
                       /\ mids = [i \in 1..n |-> FileText(review.files[i])]
  OBVIOUS
<1>1. \A i \in 1..n : /\ FileText(review.files[i]) \in T
                      /\ FileSection(review.files[i]) = Wrap(AFile, FileText(review.files[i]))
  <2> SUFFICES ASSUME NEW i \in 1..n
               PROVE  /\ FileText(review.files[i]) \in T
                      /\ FileSection(review.files[i]) = Wrap(AFile, FileText(review.files[i]))
    OBVIOUS
  <2> PICK f : f = review.files[i]
    OBVIOUS
  <2>1. f.path \in Seq(Words) /\ f.content \in Seq(Words)
    BY DEF ReviewTyped
  <2> QED BY <2>1, FileIs
<1>2. AFile \in Pairs
  BY DEF Pairs
<1>3. pairs \in Seq(Pairs) /\ Len(pairs) = n /\ \A i \in 1..n : pairs[i] = AFile
  BY ONLY <1>2, n \in Nat, pairs = [i \in 1..n |-> AFile]
<1>4. /\ mids \in Seq(T) /\ Len(mids) = n
      /\ \A i \in 1..n : mids[i] = FileText(review.files[i])
  BY ONLY <1>1, n \in Nat, mids = [i \in 1..n |-> FileText(review.files[i])]
<1>5. Wrapped(pairs, mids) = [i \in 1..n |-> FileSection(review.files[i])]
  BY <1>1, <1>3, <1>4 DEF Wrapped
<1>6. FlattenSeq(Wrapped(pairs, mids)) = Concat(FileSection, review.files)
  BY <1>5 DEF Concat
<1> QED BY <1>3, <1>4, <1>6

(* The sections one after the other.                                       *)
LEMMA BetweenIs ==
  ASSUME ReviewTyped
  PROVE  LET n == Len(review.files)
             d == IF HasMetadata THEN 2 ELSE 1
         IN  /\ Between \in Seq(Seq(Words)) /\ Fenced \in Seq(Pairs)
             /\ Len(Between) = d + n /\ Len(Fenced) = d + n
             /\ HasMetadata => Between[1] = MetaText(review) /\ Fenced[1] = Metadata
             /\ Between[d] = DiffText(review.diff) /\ Fenced[d] = TheDiff
             /\ \A i \in 1..n : /\ Between[d + i] = FileText(review.files[i])
                                /\ Fenced[d + i] = AFile
             /\ FlattenSeq(Wrapped(Fenced, Between))
                  = MetadataSection \o (Wrap(TheDiff, DiffText(review.diff))
                                          \o Concat(FileSection, review.files))
<1> PICK n \in Nat : n = Len(review.files)
  BY DEF ReviewTyped
<1> PICK k \in {0, 1} : k = IF HasMetadata THEN 1 ELSE 0
  OBVIOUS
<1> PICK T : T = Seq(Words)
  OBVIOUS
<1> PICK mt, dt, md, dd, fd, ff :
      /\ mt = MetaText(review) /\ dt = DiffText(review.diff)
      /\ md = (IF HasMetadata THEN <<mt>> ELSE <<>>)
      /\ dd = (IF HasMetadata THEN <<Metadata>> ELSE <<>>)
      /\ fd = [i \in 1..n |-> FileText(review.files[i])]
      /\ ff = [i \in 1..n |-> AFile]
  OBVIOUS
<1>1. mt \in T /\ dt \in T
  BY MetaIs, DiffIs DEF ReviewTyped
<1>2. Metadata \in Pairs /\ TheDiff \in Pairs
  BY DEF Pairs
<1>3. /\ md \in Seq(T) /\ dd \in Seq(Pairs) /\ Len(md) = k /\ Len(dd) = k
      /\ FlattenSeq(Wrapped(dd, md)) = MetadataSection
      /\ HasMetadata => md[1] = mt /\ dd[1] = Metadata
  <2>1. CASE HasMetadata
    <3>1. md = <<mt>> /\ dd = <<Metadata>> /\ k = 1
      BY <2>1
    <3>2. MetadataSection = Wrap(Metadata, mt)
      BY <2>1, MetadataIs
    <3>3. /\ FlattenSeq(Wrapped(<<Metadata>>, <<mt>>)) = Wrap(Metadata, mt)
          /\ <<Metadata>> \in Seq(Pairs) /\ <<mt>> \in Seq(T)
          /\ Len(<<Metadata>>) = 1 /\ Len(<<mt>>) = 1
      BY <1>1, <1>2, WrappedOne
    <3>4. <<mt>>[1] = mt /\ <<Metadata>>[1] = Metadata
      OBVIOUS
    <3> QED BY ONLY <3>1, <3>2, <3>3, <3>4
  <2>2. CASE ~HasMetadata
    <3>1. md = <<>> /\ dd = <<>> /\ k = 0
      BY <2>2
    <3>2. MetadataSection = <<>>
      BY <2>2 DEF MetadataSection
    <3>3. Wrapped(<<>>, <<>>) = <<>>
      BY DEF Wrapped
    <3>4. <<>> \in Seq(T) /\ <<>> \in Seq(Pairs) /\ Len(<<>>) = 0
      BY ONLY <1>2
    <3> QED BY ONLY <2>2, <3>1, <3>2, <3>3, <3>4, FlattenEmpty
  <2> QED BY <2>1, <2>2
<1>4. /\ ff \in Seq(Pairs) /\ fd \in Seq(T) /\ Len(ff) = n /\ Len(fd) = n
      /\ \A i \in 1..n : ff[i] = AFile /\ fd[i] = FileText(review.files[i])
      /\ FlattenSeq(Wrapped(ff, fd)) = Concat(FileSection, review.files)
  BY FileSectionsAre
<1>5. /\ FlattenSeq(Wrapped(<<TheDiff>>, <<dt>>)) = Wrap(TheDiff, dt)
      /\ <<TheDiff>> \in Seq(Pairs) /\ <<dt>> \in Seq(T)
      /\ Len(<<TheDiff>>) = 1 /\ Len(<<dt>>) = 1
  BY <1>1, <1>2, WrappedOne
<1> PICK bp, bm : bp = <<TheDiff>> \o ff /\ bm = <<dt>> \o fd
  OBVIOUS
<1>6. /\ FlattenSeq(Wrapped(bp, bm)) = Wrap(TheDiff, dt) \o Concat(FileSection, review.files)
      /\ bm \in Seq(T) /\ bp \in Seq(Pairs) /\ Len(bp) = Len(bm)
  <2> PICK e, g : e = <<TheDiff>> /\ g = <<dt>>
    OBVIOUS
  <2>1. /\ g \in Seq(Seq(Words)) /\ e \in Seq(Pairs) /\ Len(e) = Len(g)
        /\ fd \in Seq(Seq(Words)) /\ ff \in Seq(Pairs) /\ Len(ff) = Len(fd)
    BY <1>4, <1>5
  <2>2. /\ FlattenSeq(Wrapped(e \o ff, g \o fd))
             = FlattenSeq(Wrapped(e, g)) \o FlattenSeq(Wrapped(ff, fd))
        /\ g \o fd \in Seq(Seq(Words)) /\ e \o ff \in Seq(Pairs)
        /\ Len(e \o ff) = Len(g \o fd)
    BY ONLY <2>1, WrappedJoins
  <2> QED BY <1>4, <1>5, <2>2
<1>7. /\ FlattenSeq(Wrapped(dd \o bp, md \o bm))
           = MetadataSection \o FlattenSeq(Wrapped(bp, bm))
      /\ md \o bm \in Seq(T) /\ dd \o bp \in Seq(Pairs) /\ Len(dd \o bp) = Len(md \o bm)
  <2>1. /\ md \in Seq(Seq(Words)) /\ dd \in Seq(Pairs) /\ Len(dd) = Len(md)
        /\ bm \in Seq(Seq(Words)) /\ bp \in Seq(Pairs) /\ Len(bp) = Len(bm)
    BY <1>3, <1>6
  <2>2. /\ FlattenSeq(Wrapped(dd \o bp, md \o bm))
             = FlattenSeq(Wrapped(dd, md)) \o FlattenSeq(Wrapped(bp, bm))
        /\ md \o bm \in Seq(Seq(Words)) /\ dd \o bp \in Seq(Pairs)
        /\ Len(dd \o bp) = Len(md \o bm)
    BY ONLY <2>1, WrappedJoins
  <2> QED BY <1>3, <2>2
<1>8. Fenced = dd \o bp /\ Between = md \o bm
  BY DEF Fenced, Between
<1>9. /\ Len(bm) = 1 + n /\ bm[1] = dt /\ \A i \in 1..n : bm[1 + i] = fd[i]
  BY ONLY <1>1, <1>4, bm = <<dt>> \o fd
<1>10. /\ Len(bp) = 1 + n /\ bp[1] = TheDiff /\ \A i \in 1..n : bp[1 + i] = ff[i]
  BY ONLY <1>2, <1>4, bp = <<TheDiff>> \o ff
<1> PICK b, f : b = md \o bm /\ f = dd \o bp
  OBVIOUS
<1>11. /\ Len(b) = k + (1 + n)
       /\ \A j \in 1..k : b[j] = md[j]
       /\ \A j \in 1..(1 + n) : b[k + j] = bm[j]
  <2>1. md \in Seq(T) /\ bm \in Seq(T) /\ Len(md) = k /\ Len(bm) = 1 + n
    BY <1>3, <1>6, <1>9
  <2> QED BY ONLY <2>1, b = md \o bm, SMTT(30)
<1>12. /\ Len(f) = k + (1 + n)
       /\ \A j \in 1..k : f[j] = dd[j]
       /\ \A j \in 1..(1 + n) : f[k + j] = bp[j]
  <2>1. dd \in Seq(Pairs) /\ bp \in Seq(Pairs) /\ Len(dd) = k /\ Len(bp) = 1 + n
    BY <1>3, <1>6, <1>10
  <2> QED BY ONLY <2>1, f = dd \o bp
<1> PICK d \in Nat : d = IF HasMetadata THEN 2 ELSE 1
  OBVIOUS
<1>13. d = k + 1 /\ k + (1 + n) = d + n /\ 1 \in 1..(1 + n)
       /\ \A i \in 1..n : k + (1 + i) = d + i /\ 1 + i \in 1..(1 + n)
  <2>1. d = k + 1
    OBVIOUS
  <2> QED BY ONLY <2>1, n \in Nat, k \in {0, 1}
<1>14. HasMetadata => b[1] = mt /\ f[1] = Metadata
  <2>1. HasMetadata => 1 \in 1..k
    OBVIOUS
  <2> QED BY <1>3, <1>11, <1>12, <2>1
<1>15. b[d] = dt /\ f[d] = TheDiff
  BY <1>9, <1>10, <1>11, <1>12, <1>13
<1>16. ASSUME NEW i \in 1..n
       PROVE  b[d + i] = FileText(review.files[i]) /\ f[d + i] = AFile
  <2>1. k + (1 + i) = d + i /\ 1 + i \in 1..(1 + n)
    BY <1>13
  <2>2. b[k + (1 + i)] = bm[1 + i] /\ f[k + (1 + i)] = bp[1 + i]
    BY <1>11, <1>12, <2>1
  <2>3. bm[1 + i] = fd[i] /\ bp[1 + i] = ff[i]
    BY <1>9, <1>10
  <2> QED BY <1>4, <2>1, <2>2, <2>3
<1>17. Len(b) = d + n /\ Len(f) = d + n
  BY <1>11, <1>12, <1>13
<1>18. b = Between /\ f = Fenced /\ b \in Seq(T) /\ f \in Seq(Pairs)
  BY <1>7, <1>8
<1>19. FlattenSeq(Wrapped(f, b))
         = MetadataSection \o (Wrap(TheDiff, dt) \o Concat(FileSection, review.files))
  BY <1>6, <1>7
<1> QED BY <1>14, <1>15, <1>16, <1>17, <1>18, <1>19

LEMMA BetweenEnds ==
  ASSUME ReviewTyped
  PROVE  MidsEnd(Between)
<1> PICK n \in Nat : n = Len(review.files)
  BY DEF ReviewTyped
<1> PICK d \in Nat : d = IF HasMetadata THEN 2 ELSE 1
  OBVIOUS
<1> PICK b : b = Between
  OBVIOUS
<1>1. /\ b \in Seq(Seq(Words)) /\ Len(b) = d + n
      /\ HasMetadata => b[1] = MetaText(review)
      /\ b[d] = DiffText(review.diff)
      /\ \A i \in 1..n : b[d + i] = FileText(review.files[i])
  BY BetweenIs
<1>2. \A t \in Seq(Words) : Len(t) # 0 /\ Ends(t) =>
        Len(t) \in Nat \ {0} /\ t[Len(t)] = Newline
  BY DEF Ends
<1>3. /\ MetaText(review) \in Seq(Words) /\ Len(MetaText(review)) # 0
      /\ Ends(MetaText(review))
  BY MetaIs DEF ReviewTyped
<1>4. /\ DiffText(review.diff) \in Seq(Words) /\ Len(DiffText(review.diff)) # 0
      /\ Ends(DiffText(review.diff))
  BY DiffIs DEF ReviewTyped
<1>5. ASSUME NEW i \in 1..n
      PROVE  /\ FileText(review.files[i]) \in Seq(Words)
             /\ Len(FileText(review.files[i])) # 0 /\ Ends(FileText(review.files[i]))
  <2> PICK f : f = review.files[i]
    OBVIOUS
  <2>1. f.path \in Seq(Words) /\ f.content \in Seq(Words)
    BY DEF ReviewTyped
  <2> QED BY <2>1, FileIs
<1>6. ASSUME NEW j \in 1..(d + n)
      PROVE  Len(b[j]) \in Nat \ {0} /\ b[j][Len(b[j])] = Newline
  <2>1. \/ j = d
        \/ HasMetadata /\ j = 1
        \/ j - d \in 1..n /\ d + (j - d) = j
    BY ONLY d = IF HasMetadata THEN 2 ELSE 1, j \in 1..(d + n), n \in Nat
  <2>2. b[j] \in Seq(Words) /\ Len(b[j]) # 0 /\ Ends(b[j])
    <3>1. CASE j = d
      BY <1>1, <1>4, <3>1
    <3>2. CASE HasMetadata /\ j = 1
      BY <1>1, <1>3, <3>2
    <3>3. CASE j - d \in 1..n /\ d + (j - d) = j
      <4>1. b[j] = FileText(review.files[j - d])
        BY <1>1, <3>3
      <4> QED BY <1>5, <3>3, <4>1
    <3> QED BY <2>1, <3>1, <3>2, <3>3
  <2> QED BY <1>2, <2>2
<1> QED BY <1>1, <1>6 DEF MidsEnd

(* The payload of a review, piece by piece as the code appends it.         *)
Assembled ==
  <<"prompt", Newline, Newline>> \o Instruction \o MetadataSection
    \o <<TheDiff[1], Newline>> \o AppendBlock(review.diff)
    \o <<TheDiff[2], Newline>>
    \o Concat(FileSection, review.files)

LEMMA AnnouncedIs ==
  /\ Announced \in Seq(Fences)
  /\ ToSet(Announced) = UNION {ToSet(pair) : pair \in
       (IF HasMetadata THEN {Metadata} ELSE {}) \cup {TheDiff}
         \cup (IF HasFiles THEN {AFile} ELSE {})}
<1> PICK a, b, c : /\ a = (IF HasMetadata THEN Metadata ELSE <<>>) /\ b = TheDiff
                   /\ c = (IF HasFiles THEN AFile ELSE <<>>)
  OBVIOUS
<1>1. \A pair \in Pairs : pair \in Seq(Fences)
  <2> SUFFICES ASSUME NEW pair \in Pairs PROVE pair \in Seq(Fences)
    OBVIOUS
  <2> PICK x \in Fences, y \in Fences : x = pair[1] /\ y = pair[2]
    BY FencesAre
  <2>1. <<x, y>> \in Seq(Fences)
    BY ONLY x \in Fences, y \in Fences
  <2>2. pair = <<x, y>>
    BY FencesAre
  <2> QED BY <2>1, <2>2
<1>2. Metadata \in Pairs /\ TheDiff \in Pairs /\ AFile \in Pairs
  BY DEF Pairs
<1>3. a \in Seq(Fences) /\ b \in Seq(Fences) /\ c \in Seq(Fences)
  <2>1. Metadata \in Seq(Fences) /\ TheDiff \in Seq(Fences) /\ AFile \in Seq(Fences)
    BY <1>1, <1>2
  <2>2. \A s \in Seq(Fences) : <<>> \in Seq(Fences)
    OBVIOUS
  <2>3. <<>> \in Seq(Fences)
    BY ONLY <2>1, <2>2
  <2> QED BY <2>1, <2>3
<1>4. a \o b \in Seq(Fences) /\ (a \o b) \o c \in Seq(Fences)
  BY ONLY <1>3
<1>5. ToSet((a \o b) \o c) = ToSet(a) \cup ToSet(b) \cup ToSet(c)
  <2> PICK ab : ab = a \o b
    OBVIOUS
  <2>1. ToSet(ab) = ToSet(a) \cup ToSet(b)
    BY ONLY <1>3, ab = a \o b, ToSetJoins
  <2>2. ab \in Seq(Fences) /\ c \in Seq(Fences)
    BY <1>3, <1>4
  <2>3. ToSet(ab \o c) = ToSet(ab) \cup ToSet(c)
    BY ONLY <2>2, ToSetJoins
  <2> QED BY <2>1, <2>3
<1>6. ToSet(<<>>) = {}
  BY DEF ToSet
<1>7. Announced = (a \o b) \o c
  BY DEF Announced
<1>8. /\ ToSet(a) = UNION {ToSet(pair) : pair \in IF HasMetadata THEN {Metadata} ELSE {}}
      /\ ToSet(b) = UNION {ToSet(pair) : pair \in {TheDiff}}
      /\ ToSet(c) = UNION {ToSet(pair) : pair \in IF HasFiles THEN {AFile} ELSE {}}
  BY <1>6
<1> QED BY <1>4, <1>5, <1>7, <1>8

LEMMA AssembledIs ==
  ASSUME ReviewTyped
  PROVE  Assembled = HeadOf(Announced) \o FlattenSeq(Wrapped(Fenced, Between))
<1> PICK p, w, u, qa, qb, qc :
      /\ p = <<"prompt", Newline, Newline>> /\ w = <<"between">>
      /\ u = <<"untrusted", Newline>>
      /\ qa = (IF HasMetadata THEN Metadata ELSE <<>>) /\ qb = TheDiff
      /\ qc = (IF HasFiles THEN AFile ELSE <<>>)
  OBVIOUS
<1> PICK h, m, a, b, c, f :
      /\ h = p \o Instruction /\ m = MetadataSection /\ a = <<TheDiff[1], Newline>>
      /\ b = AppendBlock(review.diff) /\ c = <<TheDiff[2], Newline>>
      /\ f = Concat(FileSection, review.files)
  OBVIOUS
<1>1. Words \subseteq Signs /\ Fences \subseteq Signs
  BY DEF Signs
<1>2. \A s : s \in Seq(Words) \/ s \in Seq(Fences) => s \in Seq(Signs)
  BY ONLY <1>1
<1>3. <<>> \in Seq(Signs)
  <2>1. <<>> \in Seq(Words)
    BY NoWords
  <2> QED BY <1>2, <2>1
<1>4. p \in Seq(Signs) /\ w \in Seq(Signs) /\ u \in Seq(Signs)
  <2>1. "prompt" \in Words /\ Newline \in Words /\ "between" \in Words /\ "untrusted" \in Words
    BY DEF Words
  <2>2. p \in Seq(Words) /\ w \in Seq(Words) /\ u \in Seq(Words)
    BY <2>1, FewWords
  <2> QED BY <1>2, <2>2
<1>5. Announced = (qa \o qb) \o qc /\ Announced \in Seq(Signs)
  <2>1. Announced \in Seq(Signs)
    BY <1>2, AnnouncedIs
  <2> QED BY <2>1 DEF Announced
<1>6. qa \in Seq(Signs) /\ qb \in Seq(Signs) /\ qc \in Seq(Signs)
  <2>1. \A pair \in Pairs : pair \in Seq(Signs)
    <3> SUFFICES ASSUME NEW pair \in Pairs PROVE pair \in Seq(Signs)
      OBVIOUS
    <3> PICK x \in Signs, y \in Signs : x = pair[1] /\ y = pair[2]
      BY <1>1, FencesAre
    <3>1. <<x, y>> \in Seq(Signs)
      BY ONLY x \in Signs, y \in Signs
    <3>2. pair = <<x, y>>
      BY FencesAre
    <3> QED BY <3>1, <3>2
  <2>2. Metadata \in Pairs /\ TheDiff \in Pairs /\ AFile \in Pairs
    BY DEF Pairs
  <2> QED BY <1>3, <2>1, <2>2
<1>7. Instruction = (((w \o qa) \o qb) \o qc) \o u
  BY DEF Instruction
<1>8. ((w \o qa) \o qb) \o qc = w \o ((qa \o qb) \o qc)
  <2> PICK qd : qd = qa \o qb
    OBVIOUS
  <2>1. qd \in Seq(Signs) /\ (w \o qa) \o qb = w \o qd
    BY ONLY <1>4, <1>6, qd = qa \o qb
  <2>2. w \in Seq(Signs) /\ qd \in Seq(Signs) /\ qc \in Seq(Signs)
    BY <1>4, <1>6, <2>1
  <2>3. (w \o qd) \o qc = w \o (qd \o qc)
    BY ONLY <2>2
  <2> QED BY ONLY <2>1, <2>3, qd = qa \o qb
<1>9. h = HeadOf(Announced)
  BY ONLY <1>5, <1>7, <1>8, h = p \o Instruction, p = <<"prompt", Newline, Newline>>,
          w = <<"between">>, u = <<"untrusted", Newline>> DEF HeadOf
<1>10. h \in Seq(Signs)
  <2>1. HeadOf(Announced) \in Seq(Signs)
    BY AnnouncedIs, HeadOfIs DEF HeadIs
  <2> QED BY <1>9, <2>1
<1>11. Assembled = ((((h \o m) \o a) \o b) \o c) \o f
  BY DEF Assembled
<1>12. FlattenSeq(Wrapped(Fenced, Between)) = m \o (((a \o b) \o c) \o f)
  <2>1. review.diff \in Seq(Words)
    BY DEF ReviewTyped
  <2>2. (a \o b) \o c = Wrap(TheDiff, DiffText(review.diff))
    BY <2>1, DiffIs
  <2>3. FlattenSeq(Wrapped(Fenced, Between))
          = m \o (Wrap(TheDiff, DiffText(review.diff)) \o f)
    BY BetweenIs
  <2> QED BY ONLY <2>2, <2>3
<1>13. m \in Seq(Signs) /\ a \in Seq(Signs) /\ b \in Seq(Signs) /\ c \in Seq(Signs)
  <2>1. TheDiff[1] \in Signs /\ TheDiff[2] \in Signs /\ Newline \in Signs
    BY FencesAre DEF Signs, Pairs, Words
  <2>2. a \in Seq(Signs) /\ c \in Seq(Signs)
    BY ONLY <2>1, a = <<TheDiff[1], Newline>>, c = <<TheDiff[2], Newline>>
  <2>3. b \in Seq(Signs)
    <3>1. review.diff \in Seq(Words)
      BY DEF ReviewTyped
    <3>2. b \in Seq(Words)
      BY <3>1, BlockIs
    <3> QED BY <1>2, <3>2
  <2>4. m \in Seq(Signs)
    <3>1. MetaText(review) \in Seq(Words)
      BY MetaIs DEF ReviewTyped
    <3>2. Metadata \in Pairs
      BY DEF Pairs
    <3>3. Wrap(Metadata, MetaText(review)) \in Seq(Signs)
      BY <3>1, <3>2, WrapIs
    <3>4. m = <<>> \/ m = Wrap(Metadata, MetaText(review))
      BY MetadataIs
    <3> QED BY <1>3, <3>3, <3>4
  <2> QED BY <2>2, <2>3, <2>4
<1>14. f \in Seq(Signs)
  <2>1. Len(review.files) \in Nat
    BY DEF ReviewTyped
  <2> PICK pairs, mids :
        /\ pairs = [i \in 1..Len(review.files) |-> AFile]
        /\ mids = [i \in 1..Len(review.files) |-> FileText(review.files[i])]
    OBVIOUS
  <2>2. /\ pairs \in Seq(Pairs) /\ mids \in Seq(Seq(Words)) /\ Len(pairs) = Len(mids)
        /\ FlattenSeq(Wrapped(pairs, mids)) = f
    BY FileSectionsAre
  <2>3. Wrapped(pairs, mids) \in Seq(Seq(Signs))
    BY <2>2, WrappedIs
  <2> PICK ws : ws = Wrapped(pairs, mids)
    OBVIOUS
  <2>4. ws \in Seq(Seq(Signs))
    BY <2>3
  <2>5. FlattenSeq(ws) \in Seq(Signs)
    BY <2>4, FlattenIsLaid
  <2> QED BY <2>2, <2>5
<1>15. ((((h \o m) \o a) \o b) \o c) \o f = h \o (m \o (((a \o b) \o c) \o f))
  <2> PICK hm, ab, s, sf : hm = h \o m /\ ab = a \o b /\ s = ab \o c /\ sf = s \o f
    OBVIOUS
  <2>1. hm \in Seq(Signs) /\ ab \in Seq(Signs)
    BY ONLY <1>10, <1>13, hm = h \o m, ab = a \o b
  <2>2. s \in Seq(Signs)
    BY ONLY <1>13, <2>1, s = ab \o c
  <2>3. sf \in Seq(Signs)
    BY ONLY <1>14, <2>2, sf = s \o f
  <2>4. (hm \o a) \o b = hm \o (a \o b)
    BY ONLY <1>13, <2>1
  <2>5. (hm \o ab) \o c = hm \o (ab \o c)
    BY ONLY <1>13, <2>1
  <2>6. (hm \o s) \o f = hm \o (s \o f)
    BY ONLY <1>14, <2>1, <2>2
  <2>7. (h \o m) \o sf = h \o (m \o sf)
    BY ONLY <1>10, <1>13, <2>3
  <2> QED BY ONLY <2>4, <2>5, <2>6, <2>7, hm = h \o m, ab = a \o b, s = ab \o c, sf = s \o f
<1> QED BY ONLY <1>9, <1>11, <1>12, <1>15

PayloadInv == ReviewTyped /\ payload \in {<<>>, Assembled}

LEMMA PayloadBegins == PayloadInit => PayloadInv
<1> SUFFICES ASSUME PayloadInit PROVE PayloadInv
  OBVIOUS
<1>1. /\ review.title \in {<<>>, <<"word">>} /\ review.body \in Contents
      /\ review.diff \in Contents
      /\ review.omitted \in BoundedSeq(Entries, MaxEntries)
      /\ review.files \in BoundedSeq(ContextFile, MaxContextFiles)
      /\ payload = <<>>
  BY DEF PayloadInit
<1>2. /\ Contents \subseteq Foreign /\ Entries \subseteq Foreign
      /\ \A f \in ContextFile : f.path \in Foreign /\ f.content \in Foreign
  BY DEF Foreign
<1>3. review.title \in Seq(Words)
  <2>1. "word" \in Words
    BY DEF Words
  <2>2. <<"word">> \in Seq(Words)
    BY ONLY <2>1
  <2> QED BY <1>1, <2>2, NoWords
<1>4. review.body \in Seq(Words) /\ review.diff \in Seq(Words)
  BY <1>1, <1>2, WordsAre
<1>5. PICK n \in 0..MaxEntries : review.omitted \in [1..n -> Entries]
  <2>1. review.omitted \in UNION {[1..n -> Entries] : n \in 0..MaxEntries}
    BY <1>1 DEF BoundedSeq, SeqOf
  <2> QED BY <2>1
<1>6. PICK m \in 0..MaxContextFiles : review.files \in [1..m -> ContextFile]
  <2>1. review.files \in UNION {[1..m -> ContextFile] : m \in 0..MaxContextFiles}
    BY <1>1 DEF BoundedSeq, SeqOf
  <2> QED BY <2>1
<1>7. n \in Nat /\ m \in Nat
  BY EntriesAssumption
<1>8. /\ review.omitted \in Seq(Seq(Words))
      /\ \A k \in 1..Len(review.omitted) : review.omitted[k] # <<>>
  <2> PICK o : o = review.omitted
    OBVIOUS
  <2> PICK T : T = Seq(Words)
    OBVIOUS
  <2>1. \A e \in Entries : e \in T /\ e # <<>>
    BY <1>2, WordsAre, EntriesAssumption
  <2>2. o \in [1..n -> Entries] /\ n \in Nat
    BY <1>5, <1>7
  <2>3. o \in Seq(T) /\ \A k \in 1..Len(o) : o[k] # <<>>
    BY ONLY <2>1, <2>2
  <2> QED BY <2>3
<1>9. /\ Len(review.files) \in Nat
      /\ \A i \in 1..Len(review.files) : /\ review.files[i].path \in Seq(Words)
                                         /\ review.files[i].content \in Seq(Words)
  <2> PICK fs : fs = review.files
    OBVIOUS
  <2>1. fs \in [1..m -> ContextFile] /\ m \in Nat
    BY <1>6, <1>7
  <2>2. Len(fs) = m
    BY ONLY <2>1
  <2>3. \A i \in 1..m : fs[i] \in ContextFile
    BY ONLY <2>1
  <2>4. \A f \in ContextFile : f.path \in Seq(Words) /\ f.content \in Seq(Words)
    BY <1>2, WordsAre
  <2> QED BY <1>7, <2>2, <2>3, <2>4
<1> QED BY <1>1, <1>3, <1>4, <1>8, <1>9 DEF PayloadInv, ReviewTyped

LEMMA PayloadStep == PayloadInv /\ [Assemble]_payloadVars => PayloadInv'
<1> SUFFICES ASSUME PayloadInv, [Assemble]_payloadVars PROVE PayloadInv'
  OBVIOUS
<1>1. review' = review
  BY DEF Assemble, payloadVars
<1>2. ReviewTyped'
  BY <1>1 DEF PayloadInv, ReviewTyped
<1>3. Assembled' = Assembled
  <2>1. HasMetadata' = HasMetadata /\ HasFiles' = HasFiles
    BY <1>1 DEF HasMetadata, HasFiles
  <2>2. Instruction' = Instruction
    BY <2>1 DEF Instruction
  <2>3. MetadataSection' = MetadataSection
    BY <1>1, <2>1 DEF MetadataSection, Concat
  <2> QED BY <1>1, <2>2, <2>3, Zenon DEF Assembled
<1>4. payload' \in {payload, Assembled}
  BY DEF Assemble, Assembled, payloadVars
<1> QED BY <1>2, <1>3, <1>4 DEF PayloadInv

LEMMA FencesAnnounced ==
  ASSUME ReviewTyped
  PROVE  UNION {ToSet(Fenced[k]) : k \in 1..Len(Fenced)} = ToSet(Announced)
<1> PICK n \in Nat : n = Len(review.files)
  BY DEF ReviewTyped
<1> PICK d \in Nat : d = IF HasMetadata THEN 2 ELSE 1
  OBVIOUS
<1>1. /\ Len(Fenced) = d + n /\ Fenced[d] = TheDiff
      /\ HasMetadata => Fenced[1] = Metadata
      /\ \A i \in 1..n : Fenced[d + i] = AFile
  BY BetweenIs
<1>2. HasFiles <=> n # 0
  BY DEF HasFiles, ReviewTyped
<1> DEFINE Sorts == (IF HasMetadata THEN {Metadata} ELSE {}) \cup {TheDiff}
                      \cup (IF HasFiles THEN {AFile} ELSE {})
<1>3. ASSUME NEW k \in 1..(d + n) PROVE Fenced[k] \in Sorts
  <2>1. \/ k = d
        \/ HasMetadata /\ k = 1
        \/ n # 0 /\ k - d \in 1..n /\ d + (k - d) = k
    BY ONLY d = IF HasMetadata THEN 2 ELSE 1, k \in 1..(d + n), n \in Nat
  <2>2. CASE k = d
    BY <1>1, <2>2
  <2>3. CASE HasMetadata /\ k = 1
    BY <1>1, <2>3
  <2>4. CASE n # 0 /\ k - d \in 1..n /\ d + (k - d) = k
    <3>1. Fenced[k] = AFile
      BY <1>1, <2>4
    <3> QED BY <1>2, <2>4, <3>1
  <2> QED BY <2>1, <2>2, <2>3, <2>4
<1>4. ASSUME NEW pair \in Sorts PROVE \E k \in 1..(d + n) : pair = Fenced[k]
  <2>1. CASE pair = TheDiff
    <3>1. d \in 1..(d + n)
      BY ONLY d = IF HasMetadata THEN 2 ELSE 1, n \in Nat
    <3> QED BY <1>1, <2>1, <3>1
  <2>2. CASE HasMetadata /\ pair = Metadata
    <3>1. 1 \in 1..(d + n)
      BY ONLY d = IF HasMetadata THEN 2 ELSE 1, n \in Nat
    <3> QED BY <1>1, <2>2, <3>1
  <2>3. CASE HasFiles /\ pair = AFile
    <3>1. n # 0
      BY <1>2, <2>3
    <3>2. 1 \in 1..n /\ d + 1 \in 1..(d + n)
      BY ONLY <3>1, d \in Nat, n \in Nat
    <3> QED BY <1>1, <2>3, <3>2
  <2> QED BY <2>1, <2>2, <2>3
<1>5. {ToSet(Fenced[k]) : k \in 1..(d + n)} = {ToSet(pair) : pair \in Sorts}
  <2> HIDE DEF Sorts
  <2> QED BY ONLY <1>3, <1>4
<1>6. ToSet(Announced) = UNION {ToSet(pair) : pair \in Sorts}
  BY AnnouncedIs
<1> QED BY <1>1, <1>5, <1>6

LEMMA PayloadShows ==
  ASSUME PayloadInv
  PROVE  SectionsAreFenced
<1> SUFFICES ASSUME payload # <<>> PROVE SectionsAreFenced
  BY DEF SectionsAreFenced
<1>1. ReviewTyped /\ payload = HeadOf(Announced) \o FlattenSeq(Wrapped(Fenced, Between))
  BY AssembledIs DEF PayloadInv
<1> PICK l \in Nat : l = Len(review.files)
  BY <1>1 DEF ReviewTyped
<1> PICK d \in {1, 2} : d = IF HasMetadata THEN 2 ELSE 1
  OBVIOUS
<1> PICK n : n = d + l
  OBVIOUS
<1>0. n \in Nat /\ n # 0
  BY ONLY n = d + l, d \in {1, 2}, l \in Nat
<1> PICK pairs, mids, head :
      pairs = Fenced /\ mids = Between /\ head = HeadOf(Announced)
  OBVIOUS
<1>2. /\ mids \in Seq(Seq(Words)) /\ pairs \in Seq(Pairs)
      /\ Len(mids) = n /\ Len(pairs) = n
      /\ HasMetadata => mids[1] = MetaText(review)
      /\ mids[d] = DiffText(review.diff)
      /\ \A i \in 1..l : mids[d + i] = FileText(review.files[i])
  BY <1>1, BetweenIs
<1>3. HeadIs(head) /\ ToSet(head) \cap Fences = ToSet(Announced)
  BY AnnouncedIs, HeadOfIs
<1>4. MidsEnd(mids)
  BY <1>1, BetweenEnds
<1> PICK places : places = FencePlaces
  OBVIOUS
<1>5. places = Ascending({i \in 1..Len(payload) : /\ payload[i] \in Fences
                                                  /\ payload[i - 1] = Newline})
  BY DEF FencePlaces
<1> DEFINE opens(k)  == places[2 * k - 1]
           closes(k) == places[2 * k]
           inside(k) == SubSeq(payload, opens(k) + 1, closes(k) - 1)
           behind(k) == SubSeq(payload, closes(k) + 1,
                               IF k < n THEN opens(k + 1) - 1 ELSE Len(payload))
<1>6. /\ Len(places) = 2 * n
      /\ \A k \in 1..n : /\ <<payload[opens(k)], payload[closes(k)]>> = pairs[k]
                         /\ inside(k) = mids[k]
                         /\ behind(k) = <<Newline>>
      /\ SubSeq(payload, 1, opens(1) - 1) = head
  <2>1. payload = head \o FlattenSeq(Wrapped(pairs, mids))
    BY <1>1
  <2>2. Len(pairs) = Len(mids) /\ Len(mids) # 0
    BY <1>0, <1>2
  <2> HIDE DEF opens, closes, inside, behind
  <2>3. /\ Len(places) = 2 * Len(mids)
        /\ \A k \in 1..Len(mids) :
             /\ <<payload[places[2 * k - 1]], payload[places[2 * k]]>> = pairs[k]
             /\ SubSeq(payload, places[2 * k - 1] + 1, places[2 * k] - 1) = mids[k]
             /\ SubSeq(payload, places[2 * k] + 1,
                       IF k < Len(mids) THEN places[2 * (k + 1) - 1] - 1 ELSE Len(payload))
                  = <<Newline>>
        /\ SubSeq(payload, 1, places[2 * 1 - 1] - 1) = head
    <3>1. /\ mids \in Seq(Seq(Words)) /\ pairs \in Seq(Pairs) /\ HeadIs(head)
          /\ MidsEnd(mids)
      BY <1>2, <1>3, <1>4
    <3>2. places = Ascending({i \in 1..Len(payload) : /\ payload[i] \in Fences
                                                      /\ payload[i - 1] = Newline})
      BY <1>5
    <3>3. Placed(head, pairs, mids, payload, places)
      BY ONLY <2>1, <3>2 DEF Placed
    <3>4. Parted(head, pairs, mids, payload, places)
      BY ONLY <2>2, <3>1, <3>3, FencesShow
    <3> QED BY ONLY <3>4 DEF Parted
  <2> QED BY ONLY <1>2, <2>3 DEF opens, closes, inside, behind
<1> HIDE DEF opens, closes, inside, behind
<1>7. Expected = pairs /\ Len(Expected) = n
  BY <1>1, <1>2, ExpectedIs
<1>8. ToSet(SubSeq(payload, 1, opens(1) - 1)) \cap Fences
        = UNION {ToSet(Expected[k]) : k \in 1..n}
  <2>1. ToSet(head) \cap Fences = UNION {ToSet(pairs[k]) : k \in 1..n}
    <3>1. UNION {ToSet(pairs[k]) : k \in 1..Len(pairs)} = ToSet(Announced)
      BY <1>1, FencesAnnounced
    <3>2. Len(pairs) = n /\ ToSet(head) \cap Fences = ToSet(Announced)
      BY <1>2, <1>3
    <3> QED BY ONLY <3>1, <3>2
  <2>2. SubSeq(payload, 1, opens(1) - 1) = head
    BY <1>6
  <2> QED BY ONLY <1>7, <2>1, <2>2
<1>9. n - l = d /\ d \in 1..n /\ \A i \in 1..l : d + i \in 1..n
  BY ONLY n = d + l, d \in {1, 2}, l \in Nat
<1>10. Holds(inside(d), <<Newline>> \o review.diff)
  <2>1. inside(d) = DiffText(review.diff)
    BY <1>2, <1>6, <1>9
  <2>2. review.diff \in Seq(Words)
    BY <1>1 DEF ReviewTyped
  <2> QED BY <2>1, <2>2, DiffIs
<1>11. ASSUME NEW i \in 1..l
       PROVE  LET f    == review.files[i]
                  found == inside(d + i)
              IN  /\ Newline \notin ToSet(SubSeq(found, 1, Len(f.path)))
                  /\ Holds(SubSeq(found, Len(f.path) + 1, Len(found)),
                           <<Newline>> \o f.content)
  <2> PICK f : f = review.files[i]
    OBVIOUS
  <2>1. inside(d + i) = FileText(f)
    BY <1>2, <1>6, <1>9
  <2>2. f.path \in Seq(Words) /\ f.content \in Seq(Words)
    BY <1>1 DEF ReviewTyped
  <2> QED BY <2>1, <2>2, FileIs
<1>12. ASSUME NEW e \in ToSet(review.omitted)
       PROVE  \E i \in 1..(Len(inside(1)) - Len(e)) :
                SubSeq(inside(1), i, i + Len(e)) = <<"- ">> \o e
  <2>1. review.omitted \in Seq(Seq(Words))
    BY <1>1 DEF ReviewTyped
  <2>2. PICK k \in 1..Len(review.omitted) : e = review.omitted[k]
    <3> PICK o, T : o = review.omitted /\ T = Seq(Words)
      OBVIOUS
    <3>1. DOMAIN o = 1..Len(o)
      <4>1. o \in Seq(T)
        BY <2>1
      <4> QED BY ONLY <4>1
    <3> QED BY <3>1 DEF ToSet
  <2>3. HasMetadata
    <3>1. review.omitted # <<>>
      BY <2>2
    <3> QED BY <3>1 DEF HasMetadata
  <2>4. inside(1) = MetaText(review)
    <3>1. 1 \in 1..n
      BY ONLY <1>0
    <3> QED BY <1>2, <1>6, <2>3, <3>1
  <2> QED BY <1>1, <2>2, <2>4, MetaIs DEF ReviewTyped
<1>13. \A k \in 1..n : /\ <<payload[opens(k)], payload[closes(k)]>> = Expected[k]
                       /\ behind(k) = <<Newline>>
  BY <1>6, <1>7
<1>14. FencePlaces = places
  OBVIOUS
<1> QED
  <2>1. Len(places) = 2 * n
    BY <1>6
  <2> USE DEF opens, closes, inside, behind
  <2> QED BY ZenonT(60), <1>7, <1>8, <1>9, <1>10, <1>11, <1>12, <1>13, <1>14, <2>1
      DEF SectionsAreFenced

(* Whatever a pull request holds, its texts stand between the fences of    *)
(* the run, each where it belongs, and no line of theirs looks like one.   *)
THEOREM FencedTheorem == PayloadSpec => []SectionsAreFenced
<1>1. PayloadInv => SectionsAreFenced
  BY PayloadShows
<1> QED BY <1>1, PayloadBegins, PayloadStep, PTL DEF PayloadSpec

-----------------------------------------------------------------------------
CacheEntries == [collab : BOOLEAN, expires : Nat]
Answers == [user : Users, collab : BOOLEAN, asked : Nat, at : Nat]

CacheType ==
  /\ clock \in Nat /\ begun \in Nat
  /\ member \in [Users -> BOOLEAN] /\ since \in [Users -> Nat]
  /\ cache \in [Users -> CacheEntries]
  /\ asking \in Users \cup {Nobody} /\ seen \in {"nothing", "204", "404", "403"}
  /\ answer \in Answers \cup {NoAnswer}

(* Whoever is misjudged by the cache, or by an answer on its way, changed  *)
(* after that question was asked.                                          *)
CacheInv ==
  /\ CacheType
  /\ begun <= clock /\ (seen # "nothing" => asking \in Users)
  /\ \A u \in Users : cache[u].expires <= clock + Ttl
  /\ \A u \in Users :
       cache[u].expires > 0 /\ member[u] # cache[u].collab =>
         since[u] + Ttl >= cache[u].expires
  /\ seen \in {"204", "404"} /\ member[asking] # (seen = "204") =>
       since[asking] >= begun
  /\ answer # NoAnswer => answer.asked <= clock
  /\ AnswersAreRecent

LEMMA NoAnswerIsNone == NoAnswer \notin Answers
BY NobodyAssumption DEF NoAnswer, Answers

LEMMA CacheStep == CacheInv /\ [CacheNext]_cacheVars => CacheInv'
<1> SUFFICES ASSUME CacheInv, [CacheNext]_cacheVars PROVE CacheInv'
  OBVIOUS
<1> USE NumbersAssumption, NobodyAssumption, NoAnswerIsNone
    DEF CacheInv, CacheType, AnswersAreRecent
<1>1. CASE Tick
  BY <1>1 DEF Tick, Answers, CacheEntries
<1>2. ASSUME NEW u \in Users, Change(u) PROVE CacheInv'
  <2>1. /\ member' = [member EXCEPT ![u] = ~@]
        /\ since' = [since EXCEPT ![u] = clock]
        /\ UNCHANGED <<clock, cache, asking, begun, seen, answer>>
    BY <1>2 DEF Change
  <2>2. member'[u] \in BOOLEAN /\ since'[u] = clock
        /\ \A v \in Users \ {u} : member'[v] = member[v] /\ since'[v] = since[v]
    BY <2>1
  <2>3. CacheType'
    BY <2>1
  <2>4. \A v \in Users :
          cache[v].expires > 0 /\ member'[v] # cache[v].collab =>
            since'[v] + Ttl >= cache[v].expires
    <3>1. cache[u].expires <= clock + Ttl
      BY DEF CacheInv
    <3> QED BY <2>2, <3>1 DEF CacheEntries
  <2>5. seen \in {"204", "404"} /\ member'[asking] # (seen = "204") =>
          since'[asking] >= begun
    BY <2>2
  <2>6. AnswersAreRecent'
    <3>1. CASE answer # NoAnswer
      <4>1. answer \in Answers /\ answer.user \in Users /\ answer.asked \in Nat
        BY <3>1 DEF Answers
      <4>2. CASE answer.user = u
        BY <2>1, <2>2, <3>1, <4>1, <4>2
      <4>3. CASE answer.user # u
        BY <2>1, <2>2, <3>1, <4>1, <4>3
      <4> QED BY <4>2, <4>3
    <3> QED BY <2>1, <3>1
  <2> QED BY <2>1, <2>3, <2>4, <2>5, <2>6
<1>3. ASSUME NEW u \in Users, AnswerCached(u) PROVE CacheInv'
  <2>1. /\ clock < cache[u].expires
        /\ answer' = [user |-> u, collab |-> cache[u].collab,
                      asked |-> clock, at |-> clock]
        /\ UNCHANGED <<clock, member, since, changes, cache, asking, begun, seen>>
    BY <1>3 DEF AnswerCached, Cached
  <2>2. cache[u].collab \in BOOLEAN /\ cache[u].expires \in Nat
    BY DEF CacheEntries
  <2>3. answer' \in Answers /\ answer'.asked = clock
    BY <2>1, <2>2 DEF Answers
  <2>4. AnswersAreRecent'
    BY <2>1, <2>2
  <2> QED BY <2>1, <2>3, <2>4
<1>4. ASSUME NEW u \in Users, Ask(u) PROVE CacheInv'
  BY <1>4 DEF Ask
<1>5. CASE Look
  BY <1>5 DEF Look
<1>6. CASE Receive
  <2> DEFINE collab == seen = "204"
             entry  == [collab |-> collab, expires |-> begun + Ttl]
  <2>1. /\ cache' = [cache EXCEPT ![asking] = entry]
        /\ answer' = [user |-> asking, collab |-> collab, asked |-> begun,
                      at |-> clock]
        /\ begun' = 0 /\ seen' = "nothing" /\ asking' = Nobody
        /\ seen \in {"204", "404"}
        /\ UNCHANGED <<clock, member, since>>
    BY <1>6 DEF Receive, Remember
  <2>2. asking \in Users /\ collab \in BOOLEAN
    BY <2>1
  <2>3. member[asking] # collab => since[asking] >= begun
    BY <2>1
  <2> HIDE DEF collab
  <2>4. entry \in CacheEntries /\ answer' \in Answers
    BY <2>1, <2>2 DEF CacheEntries, Answers
  <2>5. cache'[asking] = entry /\ \A v \in Users \ {asking} : cache'[v] = cache[v]
    BY <2>1, <2>2
  <2>6. CacheType' /\ answer'.asked <= clock'
    BY <2>1, <2>2, <2>4
  <2>7. AnswersAreRecent'
    BY <2>1, <2>2, <2>3
  <2>8. \A u \in Users :
          cache'[u].expires > 0 /\ member[u] # cache'[u].collab =>
            since[u] + Ttl >= cache'[u].expires
    BY <2>2, <2>3, <2>5
  <2>9. \A u \in Users : cache'[u].expires <= clock + Ttl
    BY <2>2, <2>5
  <2> QED BY <2>1, <2>6, <2>7, <2>8, <2>9
<1>7. CASE Refuse
  BY <1>7 DEF Refuse
<1>8. CASE UNCHANGED cacheVars
  BY <1>8 DEF cacheVars
<1> QED BY <1>1, <1>2, <1>3, <1>4, <1>5, <1>6, <1>7, <1>8 DEF CacheNext

(* Nobody is misjudged for longer than a request and the Ttl, whenever     *)
(* collaborators come and go (github_client.cpp:226-239, 766-786).         *)
THEOREM RecentTheorem == CacheSpec => []AnswersAreRecent
<1>1. CacheInit => CacheInv
  BY NumbersAssumption, NobodyAssumption
  DEF CacheInit, CacheInv, CacheType, AnswersAreRecent, CacheEntries
<1>2. CacheInv => AnswersAreRecent
  BY DEF CacheInv
<1> QED BY <1>1, <1>2, CacheStep, PTL DEF CacheSpec

-----------------------------------------------------------------------------
(* std::from_chars() takes all of a text exactly if it is all digits.      *)
LEMMA PrefixIsAll ==
  ASSUME NEW S, NEW t \in Seq(S)
  PROVE  Prefix(t) = t <=> \A i \in 1..Len(t) : t[i] \in Digits
<1> DEFINE T == {k \in 0..Len(t) : \A i \in 1..k : t[i] \in Digits}
<1>1. Len(t) \in Nat /\ 0 \in T /\ T \in SUBSET (0..Len(t))
  OBVIOUS
<1>2. Max(T) \in T /\ \A n \in T : n <= Max(T)
  BY <1>1, MaxOfNumbers
<1>3. Prefix(t) = SubSeq(t, 1, Max(T))
  BY DEF Prefix
<1>4. Max(T) \in 0..Len(t) /\ \A i \in 1..Max(T) : t[i] \in Digits
  BY <1>2
<1>5. Len(t) \in T <=> \A i \in 1..Len(t) : t[i] \in Digits
  BY <1>1
<1> HIDE DEF T
<1>6. Len(Prefix(t)) = Max(T)
  BY <1>3, <1>4
<1>7. CASE Max(T) = Len(t)
  BY <1>1, <1>3, <1>4, <1>7
<1>8. CASE Max(T) # Len(t)
  <2>1. Prefix(t) # t
    BY <1>6, <1>8
  <2>2. Len(t) \notin T
    BY <1>1, <1>2, <1>4, <1>8
  <2> QED BY <1>5, <2>1, <2>2
<1> QED BY <1>7, <1>8

(* parse_nonneg() gives the value of a number in its range, and refuses    *)
(* everything else.                                                        *)
LEMMA ParseIsExact ==
  ASSUME NEW S, NEW t \in Seq(S), t # Unset,
         NEW lo \in Nat, NEW hi \in Nat, NEW widest \in Nat, hi <= widest
  PROVE  ParseNonneg(t, lo, hi, widest)
           = IF Number(t, lo, hi) THEN ValueOf(t) ELSE Refused
<1>1. Prefix(t) = t <=> \A i \in 1..Len(t) : t[i] \in Digits
  BY PrefixIsAll
<1>2. Number(t, lo, hi) => ~(ValueOf(t) > widest)
  BY DEF Number
<1> QED BY <1>1, <1>2 DEF ParseNonneg, Number, Unset, Refused

FiveTimesIsCapped == \A d \in 1..SizeLimit :
  /\ FiveTimes(d) \in d..SizeLimit
  /\ FiveTimes(d) = Min({5 * d, SizeLimit})

LEMMA DefaultFetch == FiveTimesIsCapped
<1> SUFFICES ASSUME NEW d \in 1..SizeLimit
             PROVE  /\ FiveTimes(d) \in d..SizeLimit
                    /\ FiveTimes(d) = Min({5 * d, SizeLimit})
  BY DEF FiveTimesIsCapped
<1>0. SizeLimit \in Nat /\ d \in Nat /\ d >= 1 /\ d <= SizeLimit
  BY WidthsAssumption
<1>1. d > SizeLimit \div 5 <=> 5 * d > SizeLimit
  BY <1>0
<1>2. \A x \in Nat : x <= SizeLimit => x % (SizeLimit + 1) = x
  BY <1>0
<1>3. FiveTimes(d) = IF 5 * d > SizeLimit THEN SizeLimit ELSE 5 * d
  BY <1>0, <1>1, <1>2 DEF FiveTimes
<1>4. \A i, k \in Int : i <= k => Min({i, k}) = i /\ Min({k, i}) = i
  BY DEF Min
<1> QED BY <1>0, <1>3, <1>4

(* Every number of an environment is a text.                               *)
Characters == Digits \cup Others \cup {0, 1}

StartEnvironments ==
  [others : BOOLEAN, rest : BOOLEAN, timeout : Seq(Characters),
   diff : Seq(Characters), fetch : Seq(Characters), literal : BOOLEAN,
   file : Int]

StartType ==
  /\ env \in StartEnvironments
  /\ config \in [timeout : Int, diff : Int, fetch : Int]

StartInv == StartType /\ SettingsAreExact

LEMMA TextsAreSequences ==
  Texts \subseteq Seq(Characters) /\ CommonTexts \subseteq Seq(Characters)
<1>1. Texts \subseteq Seq(Characters)
  BY DEF Texts, BoundedSeq, SeqOf, Characters
<1>2. <<>> \in Seq(Characters) /\ <<1>> \in Seq(Characters)
      /\ <<1, 0>> \in Seq(Characters)
  BY DEF Characters
<1> QED BY <1>1, <1>2 DEF CommonTexts, Unset

LEMMA StartInitHolds == StartInit => StartInv
<1> SUFFICES ASSUME StartInit PROVE StartInv
  OBVIOUS
<1>1. env \in StartEnvironments
  <2>1. CASE env \in Environments
    <3>1. NoFile..(FileCap + 1) \subseteq Int
      OBVIOUS
    <3> QED BY <2>1, <3>1, TextsAreSequences DEF Environments, StartEnvironments
  <2>2. ASSUME NEW t \in Seq(Characters), NEW d \in Seq(Characters),
               NEW f \in Seq(Characters), env = WithNumbers(t, d, f)
        PROVE  env \in StartEnvironments
    BY <2>2 DEF WithNumbers, NoFile, StartEnvironments
  <2>3. CASE \E t \in Texts, c, d \in CommonTexts :
               env \in {WithNumbers(t, c, d), WithNumbers(c, t, d), WithNumbers(c, d, t)}
    BY <2>2, <2>3, TextsAreSequences
  <2> QED BY <2>1, <2>3 DEF StartInit
<1> QED BY <1>1 DEF StartInit, StartInv, StartType, SettingsAreExact, LimitsFit,
                    Refused, NotYet

(* The timeout that is read.                                               *)
LEMMA TimeoutIsExact ==
  ASSUME StartType
  PROVE  /\ Timeout # Refused <=>
              env.timeout = Unset \/ Number(env.timeout, 1, TimeoutMax)
         /\ Timeout # Refused =>
              /\ IsExact(env.timeout, DefaultTimeout, 1, TimeoutMax, Timeout)
              /\ Timeout \in 1..TimeoutMax
<1>1. DefaultTimeout \in 1..TimeoutMax /\ TimeoutMax \in Nat /\ IntMax \in Nat
      /\ TimeoutMax <= IntMax
  BY WidthsAssumption
<1>2. env.timeout \in Seq(Characters)
  BY DEF StartType, StartEnvironments
<1>3. env.timeout # Unset =>
        Timeout = IF Number(env.timeout, 1, TimeoutMax)
                  THEN ValueOf(env.timeout) ELSE Refused
  BY <1>1, <1>2, ParseIsExact DEF Timeout, NumberOr
<1>4. Number(env.timeout, 1, TimeoutMax) => ValueOf(env.timeout) \in 1..TimeoutMax
  BY DEF Number
<1> QED BY <1>1, <1>3, <1>4 DEF Timeout, NumberOr, IsExact, Refused

LEMMA DiffIsExact ==
  ASSUME StartType
  PROVE  /\ Diff # Refused <=>
              env.diff = Unset \/ Number(env.diff, 1, SizeLimit)
         /\ Diff # Refused =>
              /\ IsExact(env.diff, DefaultDiff, 1, SizeLimit, Diff)
              /\ Diff \in 1..SizeLimit
<1>1. DefaultDiff \in 1..SizeLimit /\ SizeLimit \in Nat
  BY WidthsAssumption
<1>2. env.diff \in Seq(Characters)
  BY DEF StartType, StartEnvironments
<1>3. env.diff # Unset =>
        Diff = IF Number(env.diff, 1, SizeLimit) THEN ValueOf(env.diff) ELSE Refused
  BY <1>1, <1>2, ParseIsExact DEF Diff, NumberOr
<1>4. Number(env.diff, 1, SizeLimit) => ValueOf(env.diff) \in 1..SizeLimit
  BY DEF Number
<1> QED BY <1>1, <1>3, <1>4 DEF Diff, NumberOr, IsExact, Refused

(* The two limits are refused exactly if one of them is wrong.             *)
LEMMA LimitsAreExact ==
  ASSUME StartType
  PROVE  /\ LimitsAreWrong <=> ~LimitsAreRight
         /\ ~LimitsAreWrong =>
              /\ IsExact(env.diff, DefaultDiff, 1, SizeLimit, Diff)
              /\ IsExact(env.fetch, Fetch, Diff, SizeLimit, Fetch)
              /\ Diff \in 1..SizeLimit /\ Fetch \in Diff..SizeLimit
              /\ env.fetch = Unset => Fetch = Min({5 * Diff, SizeLimit})
<1>1. DefaultDiff \in 1..SizeLimit /\ SizeLimit \in Nat
  BY WidthsAssumption
<1>2. env.fetch \in Seq(Characters)
  BY DEF StartType, StartEnvironments
<1>3. CASE ~env.rest \/ Diff = Refused
  <2>1. LimitsAreWrong /\ ~LimitsAreRight
    BY <1>3, DiffIsExact DEF LimitsAreWrong, LimitsAreRight
  <2> QED BY <2>1
<1>4. CASE env.rest /\ Diff # Refused
  <2>1. /\ env.diff = Unset \/ Number(env.diff, 1, SizeLimit)
        /\ Diff = IF env.diff = Unset THEN DefaultDiff ELSE ValueOf(env.diff)
        /\ Diff \in 1..SizeLimit
        /\ IsExact(env.diff, DefaultDiff, 1, SizeLimit, Diff)
    BY <1>4, DiffIsExact DEF IsExact
  <2>2. LimitsAreRight <=> env.fetch = Unset \/ Number(env.fetch, Diff, SizeLimit)
    BY <1>4, <2>1 DEF LimitsAreRight
  <2>3. CASE env.fetch = Unset
    <3>1. Fetch = FiveTimes(Diff)
      BY <2>3 DEF Fetch, NumberOr
    <3>2. Fetch \in Diff..SizeLimit /\ Fetch = Min({5 * Diff, SizeLimit})
      BY <2>1, <3>1, DefaultFetch DEF FiveTimesIsCapped
    <3>3. ~LimitsAreWrong
      BY <1>1, <1>4, <2>1, <3>2 DEF LimitsAreWrong, Refused
    <3> QED BY <2>1, <2>2, <2>3, <3>2, <3>3 DEF IsExact
  <2>4. CASE env.fetch # Unset
    <3>1. Fetch = IF Number(env.fetch, 1, SizeLimit)
                  THEN ValueOf(env.fetch) ELSE Refused
      BY <1>1, <1>2, <2>4, ParseIsExact DEF Fetch, NumberOr
    <3>2. Number(env.fetch, Diff, SizeLimit)
            <=> Number(env.fetch, 1, SizeLimit) /\ ~(ValueOf(env.fetch) < Diff)
      BY <1>1, <2>1 DEF Number
    <3>3. LimitsAreWrong <=> ~Number(env.fetch, Diff, SizeLimit)
      BY <1>1, <1>4, <2>1, <3>1, <3>2 DEF LimitsAreWrong, Refused, Number
    <3>4. Number(env.fetch, Diff, SizeLimit) =>
            Fetch \in Diff..SizeLimit /\ Fetch = ValueOf(env.fetch)
      BY <3>1, <3>2 DEF Number
    <3> QED BY <2>1, <2>2, <2>4, <3>3, <3>4 DEF IsExact
  <2> QED BY <2>3, <2>4
<1> QED BY <1>3, <1>4

LEMMA ReviewerIsExact == StartType => (ReviewerIsWrong <=> ~ReviewerIsRight)
<1> SUFFICES ASSUME StartType PROVE ReviewerIsWrong <=> ~ReviewerIsRight
  OBVIOUS
<1>1. Timeout = Refused
        <=> ~(env.timeout = Unset \/ Number(env.timeout, 1, TimeoutMax))
  BY TimeoutIsExact
<1>2. env.file # NoFile /\ ~ReadTextFile(env.file)
        <=> env.file \notin {NoFile} \cup 0..FileCap
  BY DEF ReadTextFile
<1> QED BY <1>1, <1>2 DEF ReviewerIsWrong, ReviewerIsRight

LEMMA StartStep == StartInv /\ [StartNext]_startVars => StartInv'
<1> SUFFICES ASSUME StartInv, [StartNext]_startVars PROVE StartInv'
  OBVIOUS
<1>1. StartType /\ SettingsAreExact
  BY DEF StartInv
<1>2. ASSUME UNCHANGED settingVars,
             exit'.at = "reviewer" => ~ReviewerIsRight \/ exit.at = "reviewer",
             exit'.at = "limits" => ~LimitsAreRight \/ exit.at = "limits"
      PROVE  StartInv'
  <2>1. UNCHANGED <<ReviewerIsRight, LimitsAreRight>>
    BY <1>2 DEF settingVars, ReviewerIsRight, LimitsAreRight
  <2> QED BY <1>1, <1>2, <2>1
          DEF StartInv, StartType, SettingsAreExact, LimitsFit, settingVars
<1>3. CASE Require
  BY <1>2, <1>3 DEF Require, Fails, Leave, SetupCode
<1>4. CASE LoadReviewer
  <2>1. CASE ReviewerIsWrong
    BY <1>1, <1>2, <1>4, <2>1, ReviewerIsExact DEF LoadReviewer, Fails, Leave
  <2>2. CASE ~ReviewerIsWrong
    <3>1. /\ config' = [config EXCEPT !.timeout = Timeout]
          /\ UNCHANGED <<env, exit>>
      BY <1>4, <2>2 DEF LoadReviewer
    <3>2. ReviewerIsRight /\ Timeout # Refused
      BY <1>1, <2>2, ReviewerIsExact DEF ReviewerIsWrong
    <3>3. /\ IsExact(env.timeout, DefaultTimeout, 1, TimeoutMax, Timeout)
          /\ Timeout \in 1..TimeoutMax
      BY <1>1, <3>2, TimeoutIsExact
    <3>4. Timeout + Grace <= IntMax /\ Timeout \in Int
      BY <3>3, WidthsAssumption
    <3>5. /\ config'.timeout = Timeout /\ config'.diff = config.diff
          /\ config'.fetch = config.fetch
          /\ config' \in [timeout : Int, diff : Int, fetch : Int]
      BY <1>1, <3>1, <3>4 DEF StartType
    <3>6. UNCHANGED <<ReviewerIsRight, LimitsAreRight>>
      BY <3>1 DEF ReviewerIsRight, LimitsAreRight
    <3> QED BY <1>1, <3>1, <3>2, <3>3, <3>4, <3>5, <3>6
            DEF StartInv, StartType, SettingsAreExact, LimitsFit
  <2> QED BY <2>1, <2>2
<1>5. CASE LoadLimits
  <2>1. CASE LimitsAreWrong
    BY <1>1, <1>2, <1>5, <2>1, LimitsAreExact DEF LoadLimits, Fails, Leave
  <2>2. CASE ~LimitsAreWrong
    <3>1. /\ config' = [config EXCEPT !.diff = Diff, !.fetch = Fetch]
          /\ UNCHANGED <<env, exit>>
      BY <1>5, <2>2 DEF LoadLimits
    <3>2. /\ LimitsAreRight
          /\ IsExact(env.diff, DefaultDiff, 1, SizeLimit, Diff)
          /\ IsExact(env.fetch, Fetch, Diff, SizeLimit, Fetch)
          /\ Diff \in 1..SizeLimit /\ Fetch \in Diff..SizeLimit
          /\ env.fetch = Unset => Fetch = Min({5 * Diff, SizeLimit})
      BY <1>1, <2>2, LimitsAreExact
    <3>3. Diff <= Fetch /\ Fetch <= SizeLimit /\ Diff \in Int /\ Fetch \in Int
      BY <3>2, WidthsAssumption
    <3>4. /\ config'.timeout = config.timeout /\ config'.diff = Diff
          /\ config'.fetch = Fetch
          /\ config' \in [timeout : Int, diff : Int, fetch : Int]
      BY <1>1, <3>1, <3>3 DEF StartType
    <3>5. UNCHANGED <<ReviewerIsRight, LimitsAreRight>>
      BY <3>1 DEF ReviewerIsRight, LimitsAreRight
    <3> QED BY <1>1, <3>1, <3>2, <3>3, <3>4, <3>5
            DEF StartInv, StartType, SettingsAreExact, LimitsFit
  <2> QED BY <2>1, <2>2
<1>6. CASE OpenStore
  BY <1>2, <1>6 DEF OpenStore, Fails, Pass, Leave
<1>7. CASE ReadDiff
  BY <1>2, <1>7 DEF ReadDiff, Fails, Pass, Leave
<1>8. CASE Preflight
  BY <1>2, <1>8 DEF Preflight, Fails, Pass, Leave
<1>9. CASE RunReviewer
  BY <1>2, <1>9 DEF RunReviewer, Leave
<1>10. CASE UNCHANGED startVars
  BY <1>2, <1>10 DEF startVars
<1> QED BY <1>3, <1>4, <1>5, <1>6, <1>7, <1>8, <1>9, <1>10 DEF StartNext

(* Whatever numbers the environment holds, and for every width of the      *)
(* types: the settings in use are the ones that were written, they fit,    *)
(* and no program stops for a right one (config.cpp:40-79, 241-412).       *)
THEOREM SettingsTheorem == StartSpec => []SettingsAreExact
<1>1. StartInv => SettingsAreExact
  BY DEF StartInv
<1> QED BY <1>1, StartInitHolds, StartStep, PTL DEF StartSpec
=============================================================================
