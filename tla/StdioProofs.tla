---------------------------- MODULE StdioProofs ----------------------------
(***************************************************************************)
(* The comparison of stdio.rs is equality of texts, for outputs of any     *)
(* bytes and any length (SameOutputIsSameText).                            *)
(*                                                                         *)
(* split and Text are folds: they exist and go through their positions one *)
(* by one (FoldExists, FoldChain), so that they can be reasoned about by   *)
(* induction over a set of naturals.  split is injective, and the lines    *)
(* that are compared are the lines of the text (LinesOfText), which follows*)
(* the output and its text side by side: all but the last line are trimmed *)
(* already, and of the last one it is known which bytes count (Agree).     *)
(***************************************************************************)
EXTENDS Stdio, SequenceTheorems, WellFoundedInduction, TLAPS

\* Induction over the naturals, on a set.
LEMMA Induction ==
    ASSUME NEW P, 0 \in P, \A n \in Nat : n \in P => n + 1 \in P
    PROVE  Nat \subseteq P
<1>. DEFINE T == Nat \ P
<1>1. SUFFICES ASSUME T # {} PROVE FALSE
  OBVIOUS
<1>2. PICK n \in T : \A m \in T : <<m, n>> \notin OpToRel(<, Nat)
  BY <1>1, NatLessThanWellFounded, WFMin
<1>3. n - 1 \in T
  <2>1. n \in Nat /\ n # 0 /\ n - 1 \in Nat /\ (n - 1) + 1 = n
    OBVIOUS
  <2>2. n - 1 \in P => n \in P
    BY <2>1, Zenon
  <2>. QED
    BY <2>1, <2>2
<1>4. <<n - 1, n>> \in OpToRel(<, Nat)
  BY <1>2, <1>3 DEF OpToRel
<1>. QED
  BY <1>2, <1>3, <1>4

\* A set of positions has a last one.
LEMMA LastPosition ==
    ASSUME NEW n \in Nat, NEW D, D \subseteq 0..n, D # {}
    PROVE  Max(D) \in D /\ \A i \in D : i <= Max(D)
<1>. DEFINE Q == {k \in Nat : (\E i \in D : i >= n - k) => \E m \in D : \A j \in D : j <= m}
<1>1. 0 \in Q
  <2>1. ASSUME NEW i \in D, i >= n PROVE \A j \in D : j <= i
    BY <2>1
  <2>. QED
    BY <2>1
<1>2. ASSUME NEW k \in Nat, k \in Q PROVE k + 1 \in Q
  <2>1. ASSUME NEW i \in D, i >= n - (k + 1), ~ \E j \in D : j >= n - k
        PROVE  \A j \in D : j <= i
    BY <2>1
  <2>. QED
    BY <1>2, <2>1
<1>. HIDE DEF Q
<1>3. n \in Q
  BY <1>1, <1>2, Induction
<1>. USE DEF Q
<1>4. \E m \in D : \A j \in D : m >= j
  <2>1. PICK i \in D : TRUE
    OBVIOUS
  <2>2. i >= n - n
    BY <2>1
  <2>3. PICK m \in D : \A j \in D : j <= m
    BY <1>3, <2>2
  <2>. QED
    BY <2>3
<1>. QED
  BY <1>4 DEF Max

-----------------------------------------------------------------------------
(* Folds *)

\* A fold over positions as a function of their sets, as MapThenFoldSet has it.
IsFold(g, n, base, step) ==
    g = [D \in SUBSET (1..n) |-> IF D = {} THEN base ELSE step[Max(D)][g[D \ {Max(D)}]]]

\* It exists, for any step that stays in a set X.
LEMMA FoldExists ==
    ASSUME NEW N \in Nat, NEW X, NEW base \in X, NEW step \in [1..N -> [X -> X]]
    PROVE  \E g \in [SUBSET (1..N) -> X] : IsFold(g, N, base, step)
<1>. DEFINE Exists(n) == \E g \in [SUBSET (1..n) -> X] : IsFold(g, n, base, step)
            Q == {n \in Nat : n <= N => Exists(n)}
<1>1. Exists(0)
  <2>. DEFINE g == [D \in SUBSET (1..0) |-> base]
  <2>1. \A D \in SUBSET (1..0) : D = {}
    OBVIOUS
  <2>2. IsFold(g, 0, base, step)
    BY <2>1 DEF IsFold
  <2>. QED
    BY <2>2
<1>2. ASSUME NEW n \in Nat, Exists(n), n + 1 <= N PROVE Exists(n + 1)
  <2>1. PICK g \in [SUBSET (1..n) -> X] : IsFold(g, n, base, step)
    BY <1>2
  <2>. DEFINE h == [D \in SUBSET (1..n + 1) |->
                      IF n + 1 \in D THEN step[n + 1][g[D \ {n + 1}]] ELSE g[D]]
  <2>2. ASSUME NEW D \in SUBSET (1..n + 1), n + 1 \notin D PROVE D \in SUBSET (1..n)
    BY <2>2
  <2>3. ASSUME NEW D \in SUBSET (1..n + 1) PROVE D \ {n + 1} \in SUBSET (1..n)
    OBVIOUS
  <2>4. h \in [SUBSET (1..n + 1) -> X]
    <3>1. step[n + 1] \in [X -> X]
      BY <1>2
    <3>. QED
      BY <2>2, <2>3, <3>1
  <2>5. ASSUME NEW D \in SUBSET (1..n + 1)
        PROVE  h[D] = IF D = {} THEN base ELSE step[Max(D)][h[D \ {Max(D)}]]
    <3>. DEFINE m == Max(D)
    <3>0. D # {} => m \in D /\ \A i \in D : i <= m
      <4>1. D \subseteq 0..n + 1 /\ n + 1 \in Nat
        OBVIOUS
      <4>. QED
        BY <4>1, LastPosition
    <3>. HIDE DEF m
    <3>1. CASE n + 1 \in D
      <4>1. m = n + 1
        <5>1. m \in 1..n + 1 /\ n + 1 <= m
          BY <3>0, <3>1
        <5>. QED
          BY <5>1
      <4>2. D \ {n + 1} \in SUBSET (1..n + 1) /\ h[D \ {n + 1}] = g[D \ {n + 1}]
        BY <2>3
      <4>3. h[D] = step[m][h[D \ {m}]]
        BY <3>1, <4>1, <4>2
      <4>. QED
        BY <3>1, <4>3 DEF m
    <3>2. CASE n + 1 \notin D /\ D # {}
      <4>1. D \in SUBSET (1..n)
        BY <2>2, <3>2
      <4>2. D \ {m} \in SUBSET (1..n) /\ D \ {m} \in SUBSET (1..n + 1) /\ n + 1 \notin D \ {m}
        BY <4>1, <3>2
      <4>3. h[D \ {m}] = g[D \ {m}] /\ h[D] = g[D]
        BY <4>2, <3>2
      <4>4. g[D] = step[m][g[D \ {m}]]
        BY <2>1, <4>1, <3>2 DEF IsFold, m
      <4>. QED
        BY <3>2, <4>3, <4>4 DEF m
    <3>3. CASE D = {}
      <4>1. h[D] = g[D] /\ D \in SUBSET (1..n)
        BY <3>3
      <4>2. g[D] = base
        BY <2>1, <3>3, <4>1 DEF IsFold
      <4>. QED
        BY <3>3, <4>1, <4>2
    <3>. QED
      BY <3>1, <3>2, <3>3
  <2>6. IsFold(h, n + 1, base, step)
    <3>1. h = [D \in SUBSET (1..n + 1) |-> h[D]]
      OBVIOUS
    <3>. HIDE DEF h
    <3>. QED
      BY <3>1, <2>5 DEF IsFold
  <2>. HIDE DEF h
  <2>. QED
    BY <2>4, <2>6
<1>. HIDE DEF Exists
<1>3. 0 \in Q
  BY <1>1
<1>4. ASSUME NEW n \in Nat, n \in Q PROVE n + 1 \in Q
  <2>1. ASSUME n + 1 <= N PROVE Exists(n + 1)
    <3>1. n <= N
      BY <2>1
    <3>2. Exists(n)
      BY <3>1, <1>4
    <3>. QED
      BY <3>2, <2>1, <1>2
  <2>. QED
    BY <2>1
<1>5. N \in Q
  <2>. HIDE DEF Q
  <2>. QED
    BY <1>3, <1>4, Induction
<1>6. Exists(N)
  BY <1>5
<1>. QED
  BY <1>6 DEF Exists

\* The positions up to k, and the last of them.
LEMMA UpTo ==
    ASSUME NEW k \in Nat, k # 0
    PROVE  Max(1..k) = k /\ (1..k) \ {k} = 1..(k - 1) /\ 1..k # {}
<1>. DEFINE m == Max(1..k)
<1>1. m \in 1..k /\ \A i \in 1..k : i <= m
  <2>1. 1..k \subseteq 0..k /\ 1..k # {}
    OBVIOUS
  <2>. QED
    BY <2>1, LastPosition
<1>. HIDE DEF m
<1>2. m = k
  BY <1>1
<1>3. (1..k) \ {k} = 1..(k - 1) /\ 1..k # {}
  OBVIOUS
<1>. QED
  BY <1>2, <1>3 DEF m

\* What such a fold does where its values are in X.
FoldsIn(g, N, X, base, step) ==
    /\ g[{}] = base
    /\ \A D \in SUBSET (1..N) :
          D # {} /\ g[D \ {Max(D)}] \in X => g[D] = step[Max(D)][g[D \ {Max(D)}]]

\* Such a fold goes through the positions in their order.
LEMMA FoldChain ==
    ASSUME NEW N \in Nat, NEW X, NEW base \in X, NEW step \in [1..N -> [X -> X]], NEW g,
           FoldsIn(g, N, X, base, step)
    PROVE  /\ g[1..0] = base
           /\ \A k \in 0..N : g[1..k] \in X
           /\ \A k \in 1..N : g[1..k] = step[k][g[1..(k - 1)]]
<1>1. g[1..0] = base
  <2>1. 1..0 = {}
    OBVIOUS
  <2>. QED
    BY <2>1 DEF FoldsIn
<1>2. ASSUME NEW k \in 1..N, g[1..(k - 1)] \in X
      PROVE  g[1..k] = step[k][g[1..(k - 1)]] /\ g[1..k] \in X
  <2>1. 1..k \in SUBSET (1..N) /\ k \in Nat /\ k # 0
    OBVIOUS
  <2>2. Max(1..k) = k /\ (1..k) \ {k} = 1..(k - 1) /\ 1..k # {}
    BY <2>1, UpTo
  <2>3. g[1..k] = step[k][g[1..(k - 1)]]
    BY <1>2, <2>1, <2>2 DEF FoldsIn
  <2>. QED
    BY <1>2, <2>3
<1>. DEFINE Q == {k \in Nat : k <= N => g[1..k] \in X}
<1>3. 0 \in Q
  BY <1>1
<1>4. ASSUME NEW k \in Nat, k \in Q PROVE k + 1 \in Q
  <2>1. ASSUME k + 1 <= N PROVE g[1..(k + 1)] \in X
    <3>1. k + 1 \in 1..N /\ (k + 1) - 1 = k /\ g[1..k] \in X
      BY <1>4, <2>1
    <3>. QED
      BY <3>1, <1>2
  <2>. QED
    BY <2>1
<1>5. Nat \subseteq Q
  <2>. HIDE DEF Q
  <2>. QED
    BY <1>3, <1>4, Induction
<1>6. \A k \in 0..N : g[1..k] \in X
  BY <1>5
<1>7. \A k \in 1..N : k - 1 \in 0..N
  OBVIOUS
<1>. QED
  BY <1>1, <1>2, <1>6, <1>7

-----------------------------------------------------------------------------
(* split, byte by byte *)

Lines(B) == {ls \in Seq(Seq(B)) : ls # <<>>}

Break(ls, b) == IF b = NL THEN Append(ls, <<>>) ELSE [ls EXCEPT ![Len(ls)] = Append(@, b)]

\* The lines after each byte.
Breaks(s, h) == h[0] = << <<>> >> /\ \A k \in 1..Len(s) : h[k] = Break(h[k - 1], s[k])

\* A byte more leaves lines of bytes, and never none.
LEMMA BreakType ==
    ASSUME NEW B, NEW ls \in Lines(B), NEW b \in B
    PROVE  Break(ls, b) \in Lines(B)
<1>1. CASE b = NL
  <2>1. <<>> \in Seq(B)
    OBVIOUS
  <2>. QED
    BY <1>1, <2>1 DEF Break, Lines
<1>2. CASE b # NL
  <2>1. ls \in Seq(Seq(B)) /\ Len(ls) \in 1..Len(ls)
    BY DEF Lines
  <2>2. ls[Len(ls)] \in Seq(B)
    BY <2>1
  <2>3. Append(ls[Len(ls)], b) \in Seq(B)
    BY <2>2
  <2>. QED
    BY <1>2, <2>1, <2>3 DEF Break, Lines
<1>. QED
  BY <1>1, <1>2

SplitFold(s, g) ==
    g = [D \in SUBSET (DOMAIN s) |->
            IF D = {} THEN << <<>> >> ELSE Break(g[D \ {Max(D)}], s[Max(D)])]

\* split is the fold of Break over the bytes.
LEMMA SplitIsFold ==
    ASSUME NEW s PROVE split(s) = (CHOOSE g : SplitFold(s, g))[DOMAIN s]
  BY DEF split, SplitFold, FoldLeft, MapThenFoldSet, Break

\* split has read the bytes one by one.
LEMMA SplitBreaks ==
    ASSUME NEW B, NEW s \in Seq(B)
    PROVE  \E h \in [0..Len(s) -> Lines(B)] : Breaks(s, h) /\ split(s) = h[Len(s)]
<1>. DEFINE N == Len(s)
            base == << <<>> >>
            step == [i \in 1..N |-> [ls \in Lines(B) |-> Break(ls, s[i])]]
<1>1. base \in Lines(B)
  <2>1. <<>> \in Seq(B)
    OBVIOUS
  <2>. QED
    BY <2>1 DEF Lines
<1>2. step \in [1..N -> [Lines(B) -> Lines(B)]]
  BY BreakType
<1>3. PICK f \in [SUBSET (1..N) -> Lines(B)] : IsFold(f, N, base, step)
  <2>1. N \in Nat
    OBVIOUS
  <2>. HIDE DEF N, base, step
  <2>. QED
    BY <1>1, <1>2, <2>1, FoldExists
<1>4. SplitFold(s, f)
  <2>1. ASSUME NEW D \in SUBSET (1..N)
        PROVE  f[D] = IF D = {} THEN base ELSE Break(f[D \ {Max(D)}], s[Max(D)])
    <3>1. CASE D = {}
      BY <1>3, <3>1 DEF IsFold
    <3>2. CASE D # {}
      <4>. DEFINE m == Max(D)
      <4>1. m \in D
        <5>1. D \subseteq 0..N /\ N \in Nat
          OBVIOUS
        <5>. HIDE DEF N
        <5>. QED
          BY <3>2, <5>1, LastPosition
      <4>2. f[D] = step[m][f[D \ {m}]]
        BY <1>3, <3>2 DEF IsFold
      <4>. HIDE DEF m
      <4>3. D \ {m} \in SUBSET (1..N) /\ m \in 1..N
        BY <4>1
      <4>4. f[D \ {m}] \in Lines(B)
        BY <4>3
      <4>5. f[D] = Break(f[D \ {m}], s[m])
        BY <4>2, <4>3, <4>4
      <4>. QED
        BY <3>2, <4>5 DEF m
    <3>. QED
      BY <3>1, <3>2
  <2>2. DOMAIN s = 1..N /\ f = [D \in SUBSET (1..N) |-> f[D]]
    OBVIOUS
  <2>. HIDE DEF N, step
  <2>. QED
    BY <2>1, <2>2 DEF SplitFold
<1>. DEFINE g == CHOOSE g : SplitFold(s, g)
            h == [k \in 0..N |-> g[1..k]]
<1>5. SplitFold(s, g)
  BY <1>4
<1>. HIDE DEF g
<1>6. \A D \in SUBSET (1..N) : g[D] = IF D = {} THEN base ELSE Break(g[D \ {Max(D)}], s[Max(D)])
  <2>1. DOMAIN s = 1..N
    OBVIOUS
  <2>. HIDE DEF N
  <2>. QED
    BY <1>5, <2>1 DEF SplitFold
<1>7. g[{}] = base
  BY <1>6
<1>8. ASSUME NEW D \in SUBSET (1..N), D # {}, g[D \ {Max(D)}] \in Lines(B)
      PROVE  g[D] = step[Max(D)][g[D \ {Max(D)}]]
  <2>. DEFINE m == Max(D)
  <2>1. m \in D
    <3>1. D \subseteq 0..N /\ N \in Nat
      OBVIOUS
    <3>. HIDE DEF N
    <3>. QED
      BY <1>8, <3>1, LastPosition
  <2>2. g[D] = Break(g[D \ {m}], s[m])
    BY <1>6, <1>8
  <2>3. g[D \ {m}] \in Lines(B)
    BY <1>8
  <2>. HIDE DEF m
  <2>4. g[D] = step[m][g[D \ {m}]]
    BY <2>1, <2>2, <2>3
  <2>. QED
    BY <2>4 DEF m
<1>9. /\ g[1..0] = base
      /\ \A k \in 0..N : g[1..k] \in Lines(B)
      /\ \A k \in 1..N : g[1..k] = step[k][g[1..(k - 1)]]
  <2>1. N \in Nat
    OBVIOUS
  <2>. HIDE DEF N, base, step
  <2>2. FoldsIn(g, N, Lines(B), base, step)
    BY <1>7, <1>8 DEF FoldsIn
  <2>. QED
    BY <1>1, <1>2, <2>1, <2>2, FoldChain
<1>10. Breaks(s, h)
  <2>1. \A k \in 1..N : k \in 0..N /\ k - 1 \in 0..N /\ step[k][g[1..(k - 1)]] = Break(g[1..(k - 1)], s[k])
    BY <1>9
  <2>2. N \in Nat /\ \A k \in 0..N : h[k] = g[1..k]
    OBVIOUS
  <2>. HIDE DEF h, step
  <2>3. h[0] = base
    BY <1>9, <2>2
  <2>4. \A k \in 1..N : h[k] = Break(h[k - 1], s[k])
    BY <1>9, <2>1, <2>2
  <2>. QED
    BY <2>3, <2>4 DEF Breaks
<1>11. split(s) = h[N]
  <2>1. DOMAIN s = 1..N /\ N \in 0..N
    OBVIOUS
  <2>. QED
    BY <2>1, SplitIsFold DEF g
<1>. QED
  BY <1>9, <1>10, <1>11

\* What split does with no byte, and with one more.
LEMMA SplitEmpty == split(<<>>) = << <<>> >>
<1>1. <<>> \in Seq({}) /\ Len(<<>>) = 0
  OBVIOUS
<1>. QED
  BY <1>1, SplitBreaks DEF Breaks

\* split reads a byte more as Break does.
LEMMA SplitAppend ==
    ASSUME NEW B, NEW s \in Seq(B), NEW b \in B
    PROVE  split(s) \in Lines(B) /\ split(Append(s, b)) = Break(split(s), b)
<1>. DEFINE t == Append(s, b)
<1>1. PICK h \in [0..Len(s) -> Lines(B)] : Breaks(s, h) /\ split(s) = h[Len(s)]
  BY SplitBreaks
<1>2. t \in Seq(B) /\ Len(t) = Len(s) + 1 /\ t[Len(s) + 1] = b /\ \A k \in 1..Len(s) : t[k] = s[k]
  OBVIOUS
<1>. HIDE DEF t
<1>3. PICK g \in [0..Len(t) -> Lines(B)] : Breaks(t, g) /\ split(t) = g[Len(t)]
  BY <1>2, SplitBreaks
<1>. DEFINE Q == {k \in Nat : k <= Len(s) => g[k] = h[k]}
<1>4. 0 \in Q
  BY <1>1, <1>3 DEF Breaks
<1>5. ASSUME NEW k \in Nat, k \in Q PROVE k + 1 \in Q
  <2>1. ASSUME k + 1 <= Len(s) PROVE g[k + 1] = h[k + 1]
    <3>1. k + 1 \in 1..Len(s) /\ k + 1 \in 1..Len(t) /\ (k + 1) - 1 = k /\ g[k] = h[k]
      BY <1>2, <1>5, <2>1
    <3>2. g[k + 1] = Break(g[k], t[k + 1]) /\ h[k + 1] = Break(h[k], s[k + 1])
      BY <1>1, <1>3, <3>1 DEF Breaks
    <3>. QED
      BY <1>2, <3>1, <3>2
  <2>. QED
    BY <2>1
<1>6. Nat \subseteq Q
  <2>. HIDE DEF Q
  <2>. QED
    BY <1>4, <1>5, Induction
<1>7. g[Len(s)] = h[Len(s)]
  BY <1>6
<1>8. g[Len(t)] = Break(g[Len(s)], b)
  <2>1. Len(t) \in 1..Len(t) /\ Len(t) - 1 = Len(s)
    BY <1>2
  <2>. QED
    BY <1>2, <1>3, <2>1 DEF Breaks
<1>. QED
  BY <1>1, <1>3, <1>7, <1>8 DEF t

-----------------------------------------------------------------------------
(* Text, position by position *)

\* The text after each position: those that count are taken.
Picks(s, h) ==
    /\ h[0] = <<>>
    /\ \A k \in 1..Len(s) : h[k] = IF Counts(s, k) THEN Append(h[k - 1], s[k]) ELSE h[k - 1]

TextFold(s, g) ==
    g = [D \in SUBSET (DOMAIN s) |->
            IF D = {} THEN <<>>
            ELSE IF Counts(s, Max(D)) THEN Append(g[D \ {Max(D)}], s[Max(D)]) ELSE g[D \ {Max(D)}]]

\* Text is the fold over the positions that takes those that count.
LEMMA TextIsFold ==
    ASSUME NEW B, NEW s \in Seq(B)
    PROVE  Text(s) = (CHOOSE g : TextFold(s, g))[1..Len(s)]
<1>. DEFINE I == [i \in DOMAIN s |-> i]
            Iter(g) == g = [D \in SUBSET (DOMAIN I) |->
                              IF D = {} THEN <<>>
                              ELSE IF Counts(s, I[Max(D)]) THEN Append(g[D \ {Max(D)}], s[I[Max(D)]])
                                                           ELSE g[D \ {Max(D)}]]
<1>1. Text(s) = (CHOOSE g : Iter(g))[DOMAIN I]
  BY DEF Text, FoldLeftDomain, FoldLeft, MapThenFoldSet
<1>2. DOMAIN I = DOMAIN s /\ DOMAIN s = 1..Len(s)
  OBVIOUS
<1>3. ASSUME NEW g PROVE Iter(g) <=> TextFold(s, g)
  <2>1. ASSUME NEW D \in SUBSET (1..Len(s)), D # {} PROVE I[Max(D)] = Max(D)
    <3>1. D \subseteq 0..Len(s) /\ Len(s) \in Nat
      OBVIOUS
    <3>2. Max(D) \in D
      BY <2>1, <3>1, LastPosition
    <3>. HIDE DEF Max
    <3>3. \A i \in DOMAIN s : I[i] = i
      OBVIOUS
    <3>. QED
      BY <1>2, <3>2, <3>3
  <2>. QED
    BY <1>2, <2>1 DEF TextFold
<1>. QED
  BY <1>1, <1>2, <1>3

\* Text has gone through the positions one by one.
LEMMA TextPicks ==
    ASSUME NEW B, NEW s \in Seq(B)
    PROVE  \E h \in [0..Len(s) -> Seq(B)] : Picks(s, h) /\ Text(s) = h[Len(s)]
<1>. DEFINE N == Len(s)
            base == <<>>
            Pick(t, i) == IF Counts(s, i) THEN Append(t, s[i]) ELSE t
            step == [i \in 1..N |-> [t \in Seq(B) |-> Pick(t, i)]]
<1>1. base \in Seq(B) /\ N \in Nat
  OBVIOUS
<1>2. step \in [1..N -> [Seq(B) -> Seq(B)]]
  OBVIOUS
<1>3. PICK f \in [SUBSET (1..N) -> Seq(B)] : IsFold(f, N, base, step)
  <2>. HIDE DEF N, base, step
  <2>. QED
    BY <1>1, <1>2, FoldExists
<1>. HIDE DEF Pick
<1>4. TextFold(s, f)
  <2>1. ASSUME NEW D \in SUBSET (1..N)
        PROVE  f[D] = IF D = {} THEN base ELSE Pick(f[D \ {Max(D)}], Max(D))
    <3>1. CASE D = {}
      BY <1>3, <3>1 DEF IsFold
    <3>2. CASE D # {}
      <4>. DEFINE m == Max(D)
      <4>1. m \in D
        <5>1. D \subseteq 0..N /\ N \in Nat
          OBVIOUS
        <5>. HIDE DEF N
        <5>. QED
          BY <3>2, <5>1, LastPosition
      <4>2. f[D] = step[m][f[D \ {m}]]
        BY <1>3, <3>2 DEF IsFold
      <4>. HIDE DEF m
      <4>3. D \ {m} \in SUBSET (1..N) /\ m \in 1..N
        BY <4>1
      <4>4. f[D \ {m}] \in Seq(B)
        BY <4>3
      <4>5. f[D] = Pick(f[D \ {m}], m)
        BY <4>2, <4>3, <4>4
      <4>. QED
        BY <3>2, <4>5 DEF m
    <3>. QED
      BY <3>1, <3>2
  <2>2. DOMAIN s = 1..N /\ f = [D \in SUBSET (1..N) |-> f[D]]
    OBVIOUS
  <2>. HIDE DEF N, step
  <2>. QED
    BY <2>1, <2>2 DEF TextFold, Pick
<1>. DEFINE g == CHOOSE g : TextFold(s, g)
            h == [k \in 0..N |-> g[1..k]]
<1>5. TextFold(s, g)
  BY <1>4
<1>. HIDE DEF g
<1>6. \A D \in SUBSET (1..N) : g[D] = IF D = {} THEN base ELSE Pick(g[D \ {Max(D)}], Max(D))
  <2>1. DOMAIN s = 1..N
    OBVIOUS
  <2>. HIDE DEF N
  <2>. QED
    BY <1>5, <2>1 DEF TextFold, Pick
<1>7. g[{}] = base
  BY <1>6
<1>8. ASSUME NEW D \in SUBSET (1..N), D # {}, g[D \ {Max(D)}] \in Seq(B)
      PROVE  g[D] = step[Max(D)][g[D \ {Max(D)}]]
  <2>. DEFINE m == Max(D)
  <2>1. m \in D
    <3>1. D \subseteq 0..N /\ N \in Nat
      OBVIOUS
    <3>. HIDE DEF N
    <3>. QED
      BY <1>8, <3>1, LastPosition
  <2>2. g[D] = Pick(g[D \ {m}], m)
    BY <1>6, <1>8
  <2>3. g[D \ {m}] \in Seq(B)
    BY <1>8
  <2>. HIDE DEF m
  <2>4. g[D] = step[m][g[D \ {m}]]
    BY <2>1, <2>2, <2>3
  <2>. QED
    BY <2>4 DEF m
<1>9. /\ g[1..0] = base
      /\ \A k \in 0..N : g[1..k] \in Seq(B)
      /\ \A k \in 1..N : g[1..k] = step[k][g[1..(k - 1)]]
  <2>. DEFINE X == Seq(B)
  <2>1. FoldsIn(g, N, X, base, step)
    <3>. HIDE DEF N, base, step
    <3>. QED
      BY <1>7, <1>8 DEF FoldsIn
  <2>2. base \in X /\ N \in Nat /\ step \in [1..N -> [X -> X]]
    BY <1>1, <1>2
  <2>. HIDE DEF N, base, step, X
  <2>3. /\ g[1..0] = base
        /\ \A k \in 0..N : g[1..k] \in X
        /\ \A k \in 1..N : g[1..k] = step[k][g[1..(k - 1)]]
    BY <2>1, <2>2, FoldChain
  <2>. QED
    BY <2>3 DEF X
<1>10. Picks(s, h)
  <2>1. \A k \in 1..N : k \in 0..N /\ k - 1 \in 0..N /\ step[k][g[1..(k - 1)]] = Pick(g[1..(k - 1)], k)
    BY <1>9
  <2>2. N \in Nat /\ \A k \in 0..N : h[k] = g[1..k]
    OBVIOUS
  <2>. HIDE DEF h, step
  <2>3. h[0] = base
    BY <1>9, <2>2
  <2>4. \A k \in 1..N : h[k] = Pick(h[k - 1], k)
    BY <1>9, <2>1, <2>2
  <2>. QED
    BY <2>3, <2>4 DEF Picks, Pick
<1>11. Text(s) = h[N]
  <2>1. N \in 0..N
    OBVIOUS
  <2>. QED
    BY <2>1, TextIsFold DEF g
<1>. QED
  BY <1>9, <1>10, <1>11

-----------------------------------------------------------------------------
(* split loses nothing *)

\* A sequence that is not empty, without its last byte and with it.
LEMMA LastByte ==
    ASSUME NEW B, NEW s \in Seq(B), s # <<>>
    PROVE  \E u \in Seq(B), b \in B : s = Append(u, b) /\ Len(u) + 1 = Len(s)
<1>1. PICK u \in Seq(B), b \in B : s = Append(u, b)
  BY SequenceEmptyOrAppend
<1>2. Len(u) + 1 = Len(s)
  BY <1>1
<1>. QED
  BY <1>1, <1>2

\* A line feed opens an empty line, any other byte makes the last one longer.
LEMMA BreakLast ==
    ASSUME NEW B, NEW ls \in Lines(B), NEW b \in B
    PROVE  /\ b = NL => /\ Len(Break(ls, b)) = Len(ls) + 1 /\ Break(ls, b)[Len(ls) + 1] = <<>>
                        /\ \A i \in 1..Len(ls) : Break(ls, b)[i] = ls[i]
           /\ b # NL => /\ Len(Break(ls, b)) = Len(ls)
                        /\ Break(ls, b)[Len(ls)] = Append(ls[Len(ls)], b)
                        /\ \A i \in 1..Len(ls) - 1 : Break(ls, b)[i] = ls[i]
           /\ Len(ls) \in Nat /\ Len(ls) # 0 /\ \A i \in 1..Len(ls) : ls[i] \in Seq(B)
  BY DEF Break, Lines

\* The lines after a byte tell the byte and the lines before it.
LEMMA BreakInjective ==
    ASSUME NEW B, NEW ls \in Lines(B), NEW ms \in Lines(B), NEW a \in B, NEW b \in B,
           Break(ls, a) = Break(ms, b)
    PROVE  ls = ms /\ a = b
<1>. DEFINE n == Len(ls)
            m == Len(ms)
            L == Break(ls, a)
            M == Break(ms, b)
<1>0. /\ ls \in Seq(Seq(B)) /\ ms \in Seq(Seq(B)) /\ L = M
      /\ n \in Nat /\ n # 0 /\ \A i \in 1..n : ls[i] \in Seq(B)
      /\ m \in Nat /\ m # 0 /\ \A i \in 1..m : ms[i] \in Seq(B)
  BY BreakLast DEF Lines
<1>1. /\ a = NL => Len(L) = n + 1 /\ L[n + 1] = <<>> /\ \A i \in 1..n : L[i] = ls[i]
      /\ a # NL => Len(L) = n /\ L[n] = Append(ls[n], a) /\ \A i \in 1..n - 1 : L[i] = ls[i]
  BY BreakLast
<1>2. /\ b = NL => Len(M) = m + 1 /\ M[m + 1] = <<>> /\ \A i \in 1..m : M[i] = ms[i]
      /\ b # NL => Len(M) = m /\ M[m] = Append(ms[m], b) /\ \A i \in 1..m - 1 : M[i] = ms[i]
  BY BreakLast
<1>3. ASSUME NEW x \in Seq(B), NEW y \in B PROVE Append(x, y) # <<>>
  BY AppendProperties
<1>4. n = m /\ (\A i \in 1..n : ls[i] = ms[i]) => ls = ms
  <2>1. ls = [i \in 1..n |-> ls[i]] /\ ms = [i \in 1..m |-> ms[i]]
    BY <1>0
  <2>. QED
    BY <2>1
<1>. HIDE DEF n, m, L, M
<1>5. CASE a = NL /\ b = NL
  <2>1. n = m
    BY <1>0, <1>1, <1>2, <1>5
  <2>. QED
    BY <1>0, <1>1, <1>2, <1>4, <1>5, <2>1
<1>6. CASE a # NL /\ b # NL
  <2>1. n = m /\ n \in 1..n /\ Append(ls[n], a) = Append(ms[n], b)
    <3>1. n = m /\ L[n] = M[n] /\ n \in 1..n
      BY <1>0, <1>1, <1>2, <1>6
    <3>2. L[n] = Append(ls[n], a) /\ M[m] = Append(ms[m], b)
      BY <1>1, <1>2, <1>6
    <3>. QED
      BY <3>1, <3>2, Zenon
  <2>2. ls[n] = ms[n] /\ a = b
    <3>1. ls[n] \in Seq(B) /\ ms[n] \in Seq(B)
      BY <1>0, <2>1
    <3>2. ASSUME NEW x \in Seq(B), NEW y \in Seq(B), Append(x, a) = Append(y, b)
          PROVE  x = y /\ a = b
      BY <3>2, AppendInjective
    <3>. QED
      BY <2>1, <3>1, <3>2, Zenon
  <2>3. \A i \in 1..n : ls[i] = ms[i]
    <3>1. \A i \in 1..n - 1 : ls[i] = ms[i]
      BY <1>0, <1>1, <1>2, <1>6, <2>1
    <3>. QED
      BY <1>0, <2>2, <3>1
  <2>. QED
    BY <1>4, <2>1, <2>2, <2>3
<1>7. ~ (a = NL /\ b # NL)
  BY <1>0, <1>1, <1>2, <1>3
<1>8. ~ (a # NL /\ b = NL)
  BY <1>0, <1>1, <1>2, <1>3
<1>. QED
  BY <1>5, <1>6, <1>7, <1>8

\* split gives at least one line.
LEMMA SplitType ==
    ASSUME NEW B, NEW s \in Seq(B)
    PROVE  split(s) \in Lines(B)
<1>1. PICK h \in [0..Len(s) -> Lines(B)] : split(s) = h[Len(s)]
  BY SplitBreaks
<1>2. Len(s) \in 0..Len(s)
  OBVIOUS
<1>. QED
  BY <1>1, <1>2

\* Only the empty output has one empty line.
LEMMA SplitNotEmpty ==
    ASSUME NEW B, NEW s \in Seq(B), NEW b \in B
    PROVE  split(Append(s, b)) # << <<>> >>
<1>1. split(s) \in Lines(B) /\ split(Append(s, b)) = Break(split(s), b)
  BY SplitAppend
<1>. DEFINE ls == split(s)
<1>. HIDE DEF ls
<1>2. CASE b = NL
  BY <1>1, <1>2, BreakLast DEF ls
<1>3. CASE b # NL
  <2>1. /\ Len(Break(ls, b)) = Len(ls) /\ Break(ls, b)[Len(ls)] = Append(ls[Len(ls)], b)
        /\ ls[Len(ls)] \in Seq(B)
    BY <1>1, <1>3, BreakLast DEF ls
  <2>2. Break(ls, b) = << <<>> >> => Len(ls) = 1 /\ Break(ls, b)[1] = <<>>
    BY <2>1
  <2>. QED
    BY <1>1, <2>1, <2>2 DEF ls
<1>. QED
  BY <1>2, <1>3

\* Outputs of the same lines are the same, byte by byte.
LEMMA SplitInjective ==
    ASSUME NEW B, NEW s \in Seq(B), NEW t \in Seq(B), split(s) = split(t)
    PROVE  s = t
<1>. DEFINE Same(n) == \A u, v \in Seq(B) : Len(u) = n /\ split(u) = split(v) => u = v
            Q == {n \in Nat : Same(n)}
<1>1. Same(0)
  <2>. SUFFICES ASSUME NEW u \in Seq(B), NEW v \in Seq(B), Len(u) = 0, split(u) = split(v), v # <<>>
                PROVE  FALSE
    OBVIOUS
  <2>1. PICK w \in Seq(B), b \in B : v = Append(w, b)
    BY LastByte
  <2>2. u = <<>>
    OBVIOUS
  <2>. QED
    BY <2>1, <2>2, SplitEmpty, SplitNotEmpty
<1>2. ASSUME NEW n \in Nat, Same(n) PROVE Same(n + 1)
  <2>. SUFFICES ASSUME NEW u \in Seq(B), NEW v \in Seq(B), Len(u) = n + 1, split(u) = split(v)
                PROVE  u = v
    OBVIOUS
  <2>1. PICK x \in Seq(B), a \in B : u = Append(x, a) /\ Len(x) + 1 = Len(u)
    <3>1. u # <<>>
      OBVIOUS
    <3>. QED
      BY <3>1, LastByte
  <2>2. v # <<>>
    BY <2>1, SplitEmpty, SplitNotEmpty
  <2>3. PICK y \in Seq(B), b \in B : v = Append(y, b)
    BY <2>2, LastByte
  <2>4. split(x) = split(y) /\ a = b
    <3>1. /\ split(x) \in Lines(B) /\ split(u) = Break(split(x), a)
          /\ split(y) \in Lines(B) /\ split(v) = Break(split(y), b)
      BY <2>1, <2>3, SplitAppend
    <3>. DEFINE ls == split(x)  ms == split(y)
    <3>2. ls \in Lines(B) /\ ms \in Lines(B) /\ Break(ls, a) = Break(ms, b)
      BY <3>1
    <3>. HIDE DEF ls, ms
    <3>3. ls = ms /\ a = b
      BY <3>2, BreakInjective
    <3>. QED
      BY <3>3 DEF ls, ms
  <2>5. Len(x) = n
    BY <2>1
  <2>6. x = y
    BY <1>2, <2>4, <2>5
  <2>. QED
    BY <2>1, <2>3, <2>4, <2>6
<1>. HIDE DEF Same
<1>3. Nat \subseteq Q
  <2>1. 0 \in Q /\ \A n \in Nat : n \in Q => n + 1 \in Q
    BY <1>1, <1>2
  <2>. HIDE DEF Q
  <2>. QED
    BY <2>1, Induction
<1>4. Same(Len(s))
  <2>1. Len(s) \in Nat
    OBVIOUS
  <2>. QED
    BY <1>3, <2>1
<1>. QED
  BY <1>4 DEF Same

-----------------------------------------------------------------------------
(* The end of a line *)

\* What trim_ascii_end leaves: a prefix that does not end with white space, and
\* nothing but white space after it.
LEMMA TrimIs ==
    ASSUME NEW B, NEW x \in Seq(B), NEW y \in Seq(B), Len(y) <= Len(x),
           \A i \in 1..Len(y) : y[i] = x[i],
           Len(y) = 0 \/ x[Len(y)] \notin Whitespace,
           \A i \in Len(y) + 1..Len(x) : x[i] \in Whitespace
    PROVE  trim_ascii_end(x) = y
<1>. DEFINE p == Len(y)
            E == {0} \cup {i \in DOMAIN x : x[i] \notin Whitespace}
            m == Max(E)
<1>1. m \in E /\ \A i \in E : i <= m
  <2>1. E \subseteq 0..Len(x) /\ E # {} /\ Len(x) \in Nat
    OBVIOUS
  <2>. HIDE DEF E
  <2>. QED
    BY <2>1, LastPosition
<1>2. trim_ascii_end(x) = SubSeq(x, 1, m)
  BY DEF trim_ascii_end
<1>. HIDE DEF m
<1>3. m = p
  BY <1>1
<1>4. SubSeq(x, 1, p) = y
  <2>1. SubSeq(x, 1, p) = [i \in 1..p |-> x[i]]
    OBVIOUS
  <2>2. y = [i \in 1..p |-> y[i]]
    OBVIOUS
  <2>. QED
    BY <2>1, <2>2
<1>. QED
  BY <1>2, <1>3, <1>4

\* trim_ascii_end leaves a prefix, up to the last byte that is no white space.
LEMMA TrimType ==
    ASSUME NEW B, NEW x \in Seq(B)
    PROVE  \E n \in 0..Len(x) :
              /\ trim_ascii_end(x) = SubSeq(x, 1, n)
              /\ n = 0 \/ x[n] \notin Whitespace
              /\ \A i \in n + 1..Len(x) : x[i] \in Whitespace
<1>. DEFINE E == {0} \cup {i \in DOMAIN x : x[i] \notin Whitespace}
            m == Max(E)
<1>1. m \in E /\ \A i \in E : i <= m
  <2>1. E \subseteq 0..Len(x) /\ E # {} /\ Len(x) \in Nat
    OBVIOUS
  <2>. HIDE DEF E
  <2>. QED
    BY <2>1, LastPosition
<1>2. trim_ascii_end(x) = SubSeq(x, 1, m)
  BY DEF trim_ascii_end
<1>. HIDE DEF m
<1>. QED
  BY <1>1, <1>2

\* y is what counts of x, the line that ends at position k of s, so far.
Follows(s, k, x, y) ==
    /\ Len(y) <= Len(x) /\ Len(x) <= k
    /\ \A i \in 1..Len(x) : x[i] = s[k - Len(x) + i] /\ x[i] # NL
    /\ \A i \in 1..Len(y) : y[i] = x[i]
    /\ \A i \in 1..Len(x) : i <= Len(y) <=> Counts(s, k - Len(x) + i)

\* Before a byte that counts, all of its line counts.
LEMMA LineGrows ==
    ASSUME NEW B, NEW s \in Seq(B), NEW k \in Nat, k + 1 <= Len(s), s[k + 1] # NL,
           NEW x \in Seq(B), NEW y \in Seq(B), Follows(s, k, x, y)
    PROVE  Follows(s, k + 1, Append(x, s[k + 1]),
                   IF Counts(s, k + 1) THEN Append(y, s[k + 1]) ELSE y)
<1>. DEFINE b == s[k + 1]
            x1 == Append(x, b)
            y1 == IF Counts(s, k + 1) THEN Append(y, b) ELSE y
<1>0. b \in B /\ Len(x) \in Nat /\ Len(y) \in Nat
  OBVIOUS
<1>1. /\ Len(x1) = Len(x) + 1 /\ x1[Len(x) + 1] = b /\ \A i \in 1..Len(x) : x1[i] = x[i]
      /\ \A i \in 1..Len(x) + 1 : (k + 1) - Len(x1) + i = k - Len(x) + i
  BY <1>0, AppendProperties
<1>2. k - Len(x) + (Len(x) + 1) = k + 1
  BY <1>0
<1>3. \A i \in 1..Len(x) + 1 : x1[i] = s[k - Len(x) + i] /\ x1[i] # NL
  BY <1>0, <1>1, <1>2 DEF Follows
<1>4. CASE Counts(s, k + 1)
  <2>1. PICK j \in k + 1..Len(s) : s[j] \notin Whitespace /\ \A q \in k + 1..j : s[q] # NL
    BY <1>4 DEF Counts
  <2>2. ASSUME NEW i \in 1..Len(x) + 1 PROVE Counts(s, k - Len(x) + i)
    <3>1. k - Len(x) + i \in Nat /\ k - Len(x) + i <= k + 1
      BY <1>0 DEF Follows
    <3>2. ASSUME NEW q \in k - Len(x) + i..j PROVE s[q] # NL
      <4>1. CASE q <= k
        <5>1. q - (k - Len(x)) \in 1..Len(x) /\ k - Len(x) + (q - (k - Len(x))) = q
          BY <1>0, <3>1, <4>1 DEF Follows
        <5>. QED
          BY <5>1 DEF Follows
      <4>2. CASE q > k
        BY <2>1, <3>1, <4>2
      <4>. QED
        BY <3>1, <4>1, <4>2
    <3>3. j \in k - Len(x) + i..Len(s)
      BY <2>1, <3>1
    <3>. QED
      BY <2>1, <3>2, <3>3 DEF Counts
  <2>3. Len(y) = Len(x)
    <3>1. CASE Len(x) = 0
      BY <1>0, <3>1 DEF Follows
    <3>2. CASE Len(x) # 0
      <4>1. Len(x) \in 1..Len(x) /\ Len(x) \in 1..Len(x) + 1
        BY <1>0, <3>2
      <4>2. Len(x) <= Len(y)
        BY <2>2, <4>1 DEF Follows
      <4>. QED
        BY <1>0, <4>2 DEF Follows
    <3>. QED
      BY <3>1, <3>2
  <2>4. /\ y1 = Append(y, b) /\ Len(y1) = Len(y) + 1 /\ y1[Len(y) + 1] = b
        /\ \A i \in 1..Len(y) : y1[i] = y[i]
    BY <1>0, <1>4, AppendProperties
  <2>. HIDE DEF x1, y1, b
  <2>5. Len(y1) <= Len(x1) /\ Len(x1) <= k + 1
    BY <1>0, <1>1, <2>3, <2>4 DEF Follows
  <2>6. \A i \in 1..Len(y1) : y1[i] = x1[i]
    BY <1>0, <1>1, <2>3, <2>4 DEF Follows
  <2>7. Follows(s, k + 1, x1, y1)
    BY <1>0, <1>1, <1>3, <2>2, <2>3, <2>4, <2>5, <2>6 DEF Follows
  <2>. QED
    BY <2>7 DEF x1, y1, b
<1>5. CASE ~ Counts(s, k + 1)
  <2>1. y1 = y
    BY <1>5
  <2>. HIDE DEF x1, y1, b
  <2>2. Len(y) <= Len(x1) /\ Len(x1) <= k + 1 /\ \A i \in 1..Len(y) : y[i] = x1[i]
    BY <1>0, <1>1 DEF Follows
  <2>3. ASSUME NEW i \in 1..Len(x) + 1 PROVE i <= Len(y) <=> Counts(s, k - Len(x) + i)
    <3>1. CASE i = Len(x) + 1
      BY <1>0, <1>2, <1>5, <3>1 DEF Follows
    <3>2. CASE i # Len(x) + 1
      <4>1. i \in 1..Len(x)
        BY <1>0, <3>2
      <4>. QED
        BY <4>1 DEF Follows
    <3>. QED
      BY <3>1, <3>2
  <2>4. Follows(s, k + 1, x1, y)
    BY <1>0, <1>1, <1>3, <2>2, <2>3 DEF Follows
  <2>. QED
    BY <2>1, <2>4 DEF x1, y1, b
<1>. QED
  BY <1>4, <1>5

\* At the end of its line, what counts of it is the line without its end.
LEMMA LineCloses ==
    ASSUME NEW B, NEW s \in Seq(B), NEW k \in 0..Len(s),
           NEW x \in Seq(B), NEW y \in Seq(B), Follows(s, k, x, y),
           \/ \A j \in k + 1..Len(s) : s[j] \in Whitespace
           \/ k < Len(s) /\ s[k + 1] = NL
    PROVE  y = trim_ascii_end(x)
<1>0. k \in Nat /\ Len(s) \in Nat /\ Len(x) \in Nat /\ Len(y) \in Nat /\ k <= Len(s)
  OBVIOUS
<1>1. \A i \in 1..Len(x) : k - Len(x) + i \in 1..k
  BY <1>0 DEF Follows
<1>2. ASSUME NEW i \in 1..Len(x), Counts(s, k - Len(x) + i)
      PROVE  \E l \in i..Len(x) : x[l] \notin Whitespace
  <2>. DEFINE q == k - Len(x) + i
  <2>1. q \in 1..k
    BY <1>1
  <2>2. s[q] # NL
    BY DEF Follows
  <2>3. PICK j \in q..Len(s) : s[j] \notin Whitespace /\ \A r \in q..j : s[r] # NL
    BY <1>2, <2>2 DEF Counts
  <2>4. j <= k
    <3>1. CASE \A r \in k + 1..Len(s) : s[r] \in Whitespace
      BY <1>0, <2>1, <2>3, <3>1
    <3>2. CASE k < Len(s) /\ s[k + 1] = NL
      <4>1. j > k => k + 1 \in q..j
        BY <1>0, <2>1, <2>3
      <4>. QED
        BY <1>0, <2>1, <2>3, <3>2, <4>1
    <3>. QED
      BY <3>1, <3>2
  <2>. DEFINE l == j - (k - Len(x))
  <2>5. l \in i..Len(x) /\ l \in 1..Len(x) /\ k - Len(x) + l = j
    BY <1>0, <2>1, <2>3, <2>4
  <2>6. x[l] = s[j]
    BY <2>5 DEF Follows
  <2>. QED
    BY <2>3, <2>5, <2>6
<1>3. ASSUME NEW i \in 1..Len(x), x[i] \notin Whitespace PROVE Counts(s, k - Len(x) + i)
  <2>. DEFINE q == k - Len(x) + i
  <2>1. q \in 1..k /\ s[q] = x[i] /\ s[q] # NL
    BY <1>1 DEF Follows
  <2>2. q \in q..Len(s) /\ \A r \in q..q : r = q
    BY <1>0, <2>1
  <2>. HIDE DEF q
  <2>3. Counts(s, q)
    BY <1>3, <2>1, <2>2 DEF Counts
  <2>. QED
    BY <2>3 DEF q
<1>4. \A i \in Len(y) + 1..Len(x) : x[i] \in Whitespace
  <2>. SUFFICES ASSUME NEW i \in Len(y) + 1..Len(x), x[i] \notin Whitespace PROVE FALSE
    OBVIOUS
  <2>1. i \in 1..Len(x) /\ ~ (i <= Len(y))
    BY <1>0
  <2>. QED
    BY <1>3, <2>1 DEF Follows
<1>5. Len(y) = 0 \/ x[Len(y)] \notin Whitespace
  <2>. SUFFICES ASSUME Len(y) # 0 PROVE x[Len(y)] \notin Whitespace
    OBVIOUS
  <2>1. Len(y) \in 1..Len(x)
    BY <1>0 DEF Follows
  <2>2. Counts(s, k - Len(x) + Len(y))
    BY <1>0, <2>1 DEF Follows
  <2>3. PICK l \in Len(y)..Len(x) : x[l] \notin Whitespace
    BY <1>2, <2>1, <2>2
  <2>4. l = Len(y)
    BY <1>0, <1>4, <2>3
  <2>. QED
    BY <2>3, <2>4
<1>. QED
  BY <1>0, <1>4, <1>5, TrimIs DEF Follows

-----------------------------------------------------------------------------
(* lines and Text *)

\* The first k + 1 bytes are the first k and one more.
LEMMA PrefixGrows ==
    ASSUME NEW B, NEW s \in Seq(B), NEW k \in Nat, k + 1 <= Len(s)
    PROVE  /\ SubSeq(s, 1, k) \in Seq(B) /\ s[k + 1] \in B
           /\ SubSeq(s, 1, k + 1) = Append(SubSeq(s, 1, k), s[k + 1])
<1>1. SubSeq(s, 1, k) \in Seq(B) /\ s[k + 1] \in B
  OBVIOUS
<1>2. SubSeq(s, 1, k + 1) = Append(SubSeq(s, 1, k), s[k + 1])
  OBVIOUS
<1>. QED
  BY <1>1, <1>2

\* ds are the lines ls of the first k bytes of s, all but the last one trimmed.
Agree(s, k, ls, ds) ==
    /\ Len(ds) = Len(ls)
    /\ \A i \in 1..Len(ls) - 1 : ds[i] = trim_ascii_end(ls[i])
    /\ Follows(s, k, ls[Len(ls)], ds[Len(ls)])

\* A byte more of the output, and of what counts of it.
LEMMA AgreeStep ==
    ASSUME NEW B, NEW s \in Seq(B), NEW k \in Nat, k + 1 <= Len(s),
           NEW ls \in Lines(B), NEW ds \in Lines(B), Agree(s, k, ls, ds),
           \E j \in k + 1..Len(s) : s[j] \notin Whitespace
    PROVE  Agree(s, k + 1, Break(ls, s[k + 1]),
                 IF Counts(s, k + 1) THEN Break(ds, s[k + 1]) ELSE ds)
<1>. DEFINE n == Len(ls)
            b == s[k + 1]
            ls1 == Break(ls, b)
            ds1 == IF Counts(s, k + 1) THEN Break(ds, b) ELSE ds
<1>0. /\ b \in B /\ n \in Nat /\ n # 0 /\ n \in 1..n /\ Len(ds) = n
      /\ ls[n] \in Seq(B) /\ ds[n] \in Seq(B) /\ Follows(s, k, ls[n], ds[n])
  <2>1. b \in B
    OBVIOUS
  <2>2. ls \in Seq(Seq(B)) /\ ds \in Seq(Seq(B)) /\ Len(ls) \in 1..Len(ls) /\ Len(ds) = n
    BY DEF Lines, Agree
  <2>3. ls[n] \in Seq(B) /\ ds[n] \in Seq(B)
    BY <2>2
  <2>. QED
    BY <2>1, <2>2, <2>3 DEF Agree
<1>1. CASE b = NL
  <2>1. Counts(s, k + 1)
    BY <1>1 DEF Counts
  <2>2. ds[n] = trim_ascii_end(ls[n])
    <3>1. k < Len(s) /\ s[k + 1] = NL /\ k \in 0..Len(s)
      BY <1>1
    <3>. QED
      BY <1>0, <3>1, LineCloses
  <2>3. /\ Len(ls1) = n + 1 /\ ls1[n + 1] = <<>> /\ \A i \in 1..n : ls1[i] = ls[i]
        /\ Len(ds1) = n + 1 /\ ds1[n + 1] = <<>> /\ \A i \in 1..n : ds1[i] = ds[i]
    BY <1>0, <1>1, <2>1, BreakLast
  <2>4. Follows(s, k + 1, <<>>, <<>>)
    BY DEF Follows
  <2>. HIDE DEF ls1, ds1
  <2>5. \A i \in 1..n : ds[i] = trim_ascii_end(ls[i])
    BY <1>0, <2>2 DEF Agree
  <2>6. Agree(s, k + 1, ls1, ds1)
    <3>1. Len(ls1) - 1 = n
      BY <1>0, <2>3
    <3>. QED
      BY <2>3, <2>4, <2>5, <3>1 DEF Agree
  <2>. QED
    BY <2>6 DEF ls1, ds1
<1>2. CASE b # NL
  <2>. DEFINE x1 == Append(ls[n], b)
              y1 == IF Counts(s, k + 1) THEN Append(ds[n], b) ELSE ds[n]
  <2>1. Follows(s, k + 1, x1, y1)
    BY <1>0, <1>2, LineGrows
  <2>2. Len(ls1) = n /\ ls1[n] = x1 /\ \A i \in 1..n - 1 : ls1[i] = ls[i]
    BY <1>0, <1>2, BreakLast
  <2>3. Len(ds1) = n /\ ds1[n] = y1 /\ \A i \in 1..n - 1 : ds1[i] = ds[i]
    <3>1. CASE Counts(s, k + 1)
      <4>1. ds1 = Break(ds, b) /\ y1 = Append(ds[n], b)
        BY <3>1
      <4>2. /\ Len(Break(ds, b)) = Len(ds) /\ Break(ds, b)[Len(ds)] = Append(ds[Len(ds)], b)
            /\ \A i \in 1..Len(ds) - 1 : Break(ds, b)[i] = ds[i]
        BY <1>0, <1>2, BreakLast
      <4>. HIDE DEF n, b, ds1, y1
      <4>. QED
        BY <1>0, <4>1, <4>2
    <3>2. CASE ~ Counts(s, k + 1)
      <4>1. ds1 = ds /\ y1 = ds[n]
        BY <3>2
      <4>. QED
        BY <1>0, <4>1
    <3>. QED
      BY <3>1, <3>2
  <2>. HIDE DEF ls1, ds1, x1, y1
  <2>4. Agree(s, k + 1, ls1, ds1)
    BY <1>0, <2>1, <2>2, <2>3 DEF Agree
  <2>. QED
    BY <2>4 DEF ls1, ds1
<1>. QED
  BY <1>1, <1>2

\* From where nothing counts, nothing is taken.
LEMMA PicksStay ==
    ASSUME NEW B, NEW s \in Seq(B), NEW h, Picks(s, h), NEW n \in 0..Len(s),
           \A i \in n + 1..Len(s) : ~ Counts(s, i)
    PROVE  h[Len(s)] = h[n]
<1>. DEFINE P == {k \in Nat : n + k <= Len(s) => h[n + k] = h[n]}
<1>1. 0 \in P
  OBVIOUS
<1>2. ASSUME NEW k \in Nat, k \in P PROVE k + 1 \in P
  <2>1. ASSUME n + (k + 1) <= Len(s) PROVE h[n + (k + 1)] = h[n]
    <3>1. /\ h[n + k] = h[n] /\ (n + (k + 1)) - 1 = n + k
          /\ n + (k + 1) \in 1..Len(s) /\ n + (k + 1) \in n + 1..Len(s)
      BY <1>2, <2>1
    <3>. QED
      BY <3>1 DEF Picks
  <2>. QED
    BY <2>1
<1>3. Nat \subseteq P
  <2>. HIDE DEF P
  <2>. QED
    BY <1>1, <1>2, Induction
<1>. DEFINE k == Len(s) - n
<1>4. k \in Nat /\ n + k = Len(s) /\ n + k <= Len(s)
  OBVIOUS
<1>5. k \in P
  BY <1>3, <1>4
<1>6. h[n + k] = h[n]
  BY <1>4, <1>5
<1>. HIDE DEF k
<1>. QED
  BY <1>4, <1>6

\* The lines that are compared are the lines of what counts.
LEMMA LinesOfText ==
    ASSUME NEW B, NEW s \in Seq(B)
    PROVE  Text(s) \in Seq(B) /\ split(Text(s)) = lines(s)
<1>1. PICK n \in 0..Len(s) :
         /\ trim_ascii_end(s) = SubSeq(s, 1, n)
         /\ n = 0 \/ s[n] \notin Whitespace
         /\ \A i \in n + 1..Len(s) : s[i] \in Whitespace
  BY TrimType
<1>2. PICK h \in [0..Len(s) -> Seq(B)] : Picks(s, h) /\ Text(s) = h[Len(s)]
  BY TextPicks
<1>. DEFINE ls(k) == split(SubSeq(s, 1, k))
            ds(k) == split(h[k])
            Q == {k \in Nat : k <= n => Agree(s, k, ls(k), ds(k))}
<1>3. 0 \in Q
  <2>1. SubSeq(s, 1, 0) = <<>> /\ h[0] = <<>>
    BY <1>2 DEF Picks
  <2>2. Follows(s, 0, <<>>, <<>>)
    BY DEF Follows
  <2>3. Agree(s, 0, << <<>> >>, << <<>> >>)
    BY <2>2 DEF Agree
  <2>. QED
    BY <2>1, <2>3, SplitEmpty
<1>4. ASSUME NEW k \in Nat, k \in Q PROVE k + 1 \in Q
  <2>. SUFFICES ASSUME k + 1 <= n PROVE Agree(s, k + 1, ls(k + 1), ds(k + 1))
    OBVIOUS
  <2>1. k + 1 <= Len(s) /\ Agree(s, k, ls(k), ds(k)) /\ k \in 0..Len(s) /\ h[k] \in Seq(B)
    BY <1>4
  <2>2. \E j \in k + 1..Len(s) : s[j] \notin Whitespace
    BY <1>1
  <2>3. SubSeq(s, 1, k) \in Seq(B) /\ s[k + 1] \in B /\ SubSeq(s, 1, k + 1) = Append(SubSeq(s, 1, k), s[k + 1])
    BY <2>1, PrefixGrows
  <2>4. ls(k) \in Lines(B) /\ ls(k + 1) = Break(ls(k), s[k + 1])
    BY <2>3, SplitAppend
  <2>5. h[k + 1] = IF Counts(s, k + 1) THEN Append(h[k], s[k + 1]) ELSE h[k]
    BY <1>2, <2>1 DEF Picks
  <2>6. ds(k) \in Lines(B) /\ ds(k + 1) = IF Counts(s, k + 1) THEN Break(ds(k), s[k + 1]) ELSE ds(k)
    BY <2>1, <2>3, <2>5, SplitAppend, SplitType
  <2>. HIDE DEF ls, ds
  <2>. QED
    BY <2>1, <2>2, <2>4, <2>6, AgreeStep
<1>5. Agree(s, n, ls(n), ds(n))
  <2>1. Nat \subseteq Q
    <3>. HIDE DEF Q
    <3>. QED
      BY <1>3, <1>4, Induction
  <2>. QED
    BY <2>1
<1>6. Text(s) = h[n] /\ h[n] \in Seq(B)
  <2>1. \A i \in n + 1..Len(s) : ~ Counts(s, i)
    BY <1>1 DEF Counts
  <2>. QED
    BY <1>2, <2>1, PicksStay
<1>7. ls(n) \in Lines(B) /\ ds(n) \in Lines(B)
  <2>1. SubSeq(s, 1, n) \in Seq(B)
    OBVIOUS
  <2>. QED
    BY <1>6, <2>1, SplitType
<1>8. lines(s) = [i \in DOMAIN ls(n) |-> trim_ascii_end(ls(n)[i])]
  BY <1>1 DEF lines
<1>. DEFINE L == ls(n)
            D == ds(n)
            m == Len(L)
<1>9. D[m] = trim_ascii_end(L[m])
  <2>. HIDE DEF ls, ds
  <2>1. L[m] \in Seq(B) /\ D[m] \in Seq(B) /\ Follows(s, n, L[m], D[m])
    BY <1>5, <1>7 DEF Agree, Lines
  <2>. HIDE DEF L, D, m
  <2>. QED
    BY <1>1, <2>1, LineCloses
<1>10. D = [i \in DOMAIN L |-> trim_ascii_end(L[i])]
  <2>. HIDE DEF ls, ds
  <2>1. /\ m \in Nat /\ m # 0 /\ DOMAIN L = 1..m /\ Len(D) = m
        /\ D = [i \in 1..m |-> D[i]]
    BY <1>5, <1>7 DEF Agree, Lines
  <2>2. \A i \in 1..m - 1 : D[i] = trim_ascii_end(L[i])
    BY <1>5 DEF Agree
  <2>. HIDE DEF L, D, m
  <2>3. \A i \in 1..m : D[i] = trim_ascii_end(L[i])
    <3>1. ASSUME NEW i \in 1..m PROVE i = m \/ i \in 1..m - 1
      BY <2>1
    <3>. QED
      BY <1>9, <2>2, <3>1
  <2>. QED
    BY <2>1, <2>3
<1>. QED
  BY <1>6, <1>8, <1>10

\* Two outputs are the same exactly when the bytes that count are.
THEOREM SameOutputIsSameText ==
    ASSUME NEW B, NEW expected \in Seq(B), NEW actual \in Seq(B)
    PROVE  same_output(expected, actual) <=> Text(actual) = Text(expected)
<1>1. /\ Text(expected) \in Seq(B) /\ split(Text(expected)) = lines(expected)
      /\ Text(actual) \in Seq(B) /\ split(Text(actual)) = lines(actual)
  BY LinesOfText
<1>2. lines(expected) = lines(actual) => Text(actual) = Text(expected)
  BY <1>1, SplitInjective
<1>. QED
  BY <1>1, <1>2 DEF same_output

-----------------------------------------------------------------------------
(* The text of the start of an output *)

\* What was taken up to a position stays at the start of what is taken after it.
LEMMA PicksGrow ==
    ASSUME NEW B, NEW s \in Seq(B), NEW h \in [0..Len(s) -> Seq(B)], Picks(s, h), NEW n \in 0..Len(s)
    PROVE  Len(h[n]) <= Len(h[Len(s)]) /\ \A i \in 1..Len(h[n]) : h[Len(s)][i] = h[n][i]
<1>. DEFINE Starts(u, v) == Len(u) <= Len(v) /\ \A i \in 1..Len(u) : v[i] = u[i]
            P == {k \in Nat : n + k <= Len(s) => Starts(h[n], h[n + k])}
<1>1. 0 \in P
  <2>1. h[n] \in Seq(B) /\ n + 0 = n
    OBVIOUS
  <2>. QED
    BY <2>1
<1>2. ASSUME NEW k \in Nat, k \in P PROVE k + 1 \in P
  <2>. SUFFICES ASSUME n + (k + 1) <= Len(s) PROVE Starts(h[n], h[n + (k + 1)])
    OBVIOUS
  <2>. DEFINE q == n + (k + 1)
  <2>1. Starts(h[n], h[n + k]) /\ q \in 1..Len(s) /\ q - 1 = n + k /\ s[q] \in B
    BY <1>2
  <2>2. h[q] = IF Counts(s, q) THEN Append(h[n + k], s[q]) ELSE h[n + k]
    BY <2>1 DEF Picks
  <2>3. h[n] \in Seq(B) /\ h[n + k] \in Seq(B)
    OBVIOUS
  <2>. HIDE DEF q
  <2>4. ASSUME NEW u \in Seq(B), NEW v \in Seq(B), NEW b \in B, Starts(u, v)
        PROVE  Starts(u, Append(v, b))
    BY <2>4
  <2>. HIDE DEF Starts
  <2>5. Starts(h[n], h[q])
    BY <2>1, <2>2, <2>3, <2>4
  <2>. QED
    BY <2>5 DEF q
<1>3. Nat \subseteq P
  <2>. HIDE DEF P
  <2>. QED
    BY <1>1, <1>2, Induction
<1>. DEFINE k == Len(s) - n
<1>4. k \in Nat /\ n + k = Len(s) /\ n + k <= Len(s)
  OBVIOUS
<1>5. Starts(h[n], h[Len(s)])
  BY <1>3, <1>4
<1>. QED
  BY <1>5

\* What counts of the start of an output is the start of what counts of it.
THEOREM TextOfStart ==
    ASSUME NEW B, NEW s \in Seq(B), NEW k \in 0..Len(s)
    PROVE  IsPrefix(Text(SubSeq(s, 1, k)), Text(s))
<1>. DEFINE r == SubSeq(s, 1, k)
<1>1. r \in Seq(B) /\ Len(r) = k /\ \A i \in 1..k : r[i] = s[i]
  OBVIOUS
<1>. HIDE DEF r
<1>2. PICK f \in [0..k -> Seq(B)] : Picks(r, f) /\ Text(r) = f[k]
  BY <1>1, TextPicks
<1>3. PICK h \in [0..Len(s) -> Seq(B)] : Picks(s, h) /\ Text(s) = h[Len(s)]
  BY TextPicks
<1>4. PICK n \in 0..k : (n = 0 \/ r[n] \notin Whitespace) /\ \A i \in n + 1..k : r[i] \in Whitespace
  BY <1>1, TrimType
<1>5. n \in 0..Len(s) /\ Len(s) \in 0..Len(s)
  OBVIOUS
<1>6. f[k] = f[n]
  <2>1. \A i \in n + 1..Len(r) : ~ Counts(r, i)
    BY <1>1, <1>4 DEF Counts
  <2>. QED
    BY <1>1, <1>2, <2>1, PicksStay
<1>7. ASSUME NEW i \in 1..n PROVE Counts(r, i) <=> Counts(s, i)
  <2>1. ASSUME Counts(r, i) PROVE Counts(s, i)
    <3>1. PICK j \in i..Len(r) : r[j] \notin Whitespace /\ (r[i] = NL \/ \A q \in i..j : r[q] # NL)
      BY <2>1 DEF Counts
    <3>2. j \in i..Len(s) /\ s[j] = r[j] /\ s[i] = r[i] /\ \A q \in i..j : s[q] = r[q]
      BY <1>1, <3>1
    <3>. QED
      BY <3>1, <3>2 DEF Counts
  <2>2. ASSUME Counts(s, i) PROVE Counts(r, i)
    <3>1. PICK j \in i..Len(s) : s[j] \notin Whitespace /\ (s[i] = NL \/ \A q \in i..j : s[q] # NL)
      BY <2>2 DEF Counts
    <3>2. r[i] = s[i] /\ n \in i..Len(r) /\ r[n] \notin Whitespace /\ n \in 1..k
      BY <1>1, <1>4
    <3>3. CASE j <= n
      <4>1. j \in i..Len(r) /\ r[j] = s[j] /\ \A q \in i..j : s[q] = r[q]
        <5>1. n <= k /\ i \in Nat /\ i # 0 /\ j \in Nat /\ k <= Len(s) /\ k \in Nat /\ n \in Nat
          BY <3>1
        <5>2. i..j \subseteq 1..k /\ j \in i..k /\ j \in 1..k
          BY <3>1, <3>3, <5>1
        <5>. QED
          BY <1>1, <5>2
      <4>. QED
        BY <3>1, <3>2, <4>1 DEF Counts
    <3>4. CASE j > n
      <4>1. \A q \in i..n : q \in i..j /\ s[q] = r[q]
        BY <1>1, <3>1, <3>4
      <4>. QED
        BY <3>1, <3>2, <4>1 DEF Counts
    <3>. QED
      BY <3>1, <3>3, <3>4
  <2>. QED
    BY <2>1, <2>2
<1>8. f[n] = h[n]
  <2>. DEFINE P == {i \in Nat : i <= n => f[i] = h[i]}
  <2>1. 0 \in P
    BY <1>2, <1>3 DEF Picks
  <2>2. ASSUME NEW i \in Nat, i \in P PROVE i + 1 \in P
    <3>1. ASSUME i + 1 <= n PROVE f[i + 1] = h[i + 1]
      <4>1. /\ i + 1 \in 1..n /\ i + 1 \in 1..Len(r) /\ i + 1 \in 1..Len(s) /\ (i + 1) - 1 = i
            /\ f[i] = h[i] /\ r[i + 1] = s[i + 1]
        BY <1>1, <2>2, <3>1
      <4>2. f[i + 1] = IF Counts(r, i + 1) THEN Append(f[i], r[i + 1]) ELSE f[i]
        BY <1>2, <4>1 DEF Picks
      <4>3. h[i + 1] = IF Counts(s, i + 1) THEN Append(h[i], s[i + 1]) ELSE h[i]
        BY <1>3, <4>1 DEF Picks
      <4>. QED
        BY <1>7, <4>1, <4>2, <4>3
    <3>. QED
      BY <3>1
  <2>3. Nat \subseteq P
    <3>. HIDE DEF P
    <3>. QED
      BY <2>1, <2>2, Induction
  <2>. QED
    BY <2>3
<1>9. Len(h[n]) <= Len(h[Len(s)]) /\ \A i \in 1..Len(h[n]) : h[Len(s)][i] = h[n][i]
  BY <1>5, <1>3, PicksGrow
<1>10. ASSUME NEW u \in Seq(B), NEW v \in Seq(B), Len(u) <= Len(v), \A i \in 1..Len(u) : v[i] = u[i]
      PROVE  IsPrefix(u, v)
  BY <1>10 DEF IsPrefix
<1>11. h[n] \in Seq(B) /\ h[Len(s)] \in Seq(B)
  BY <1>5
<1>12. IsPrefix(h[n], h[Len(s)])
  BY <1>9, <1>10, <1>11
<1>. QED
  BY <1>2, <1>3, <1>6, <1>8, <1>12 DEF r

=============================================================================
