---------------------------- MODULE CodecProofs ----------------------------
(***************************************************************************)
(* Proofs about Encode, Decode and the server's reading of a request, for  *)
(* parameters over any alphabet, of any length and number: what Encode     *)
(* writes is what the server reads, and each whole reply is decoded to     *)
(* what the server has said.                                               *)
(*                                                                         *)
(* The operators recur over functions.  That such a definition has a       *)
(* solution is proved for each of them from the library's theorem on the   *)
(* minimum of a well-founded relation; what the solution is like, by       *)
(* induction over its domain.                                              *)
(***************************************************************************)
EXTENDS Client, TLAPS, WellFoundedInduction, SequenceTheorems

\* Induction over the numbers, for a set of numbers.
LEMMA Induction ==
    ASSUME NEW S, 0 \in S, \A n \in Nat : n \in S => n + 1 \in S
    PROVE  \A n \in Nat : n \in S
<1> DEFINE T == Nat \ S
           R == {ss \in Nat \X Nat : ss[1] < ss[2]}
<1>1. IsWellFoundedOn(R, Nat)
  BY NatLessThanWellFounded, Zenon DEF OpToRel
<1>2. ASSUME T # {} PROVE FALSE
  <2>1. T \subseteq Nat
    OBVIOUS
  <2>2. PICK x \in T : \A y \in T : ~ (<<y, x>> \in R)
    <3> HIDE DEF R, T
    <3>1. QED
      BY <1>1, <1>2, <2>1, WFMin, Zenon
  <2>3. x \in Nat /\ x # 0
    OBVIOUS
  <2>4. x - 1 \in T
    BY <2>3
  <2>5. <<x - 1, x>> \in R
    BY <2>3, <2>4
  <2>6. QED
    BY <2>2, <2>4, <2>5
<1>3. QED
  BY <1>2

-----------------------------------------------------------------------------
(***************************************************************************)
(* The recursive definitions.                                              *)
(***************************************************************************)
\* The recursive definition of Writes has a solution.
LEMMA WritesDef ==
    ASSUME NEW data, NEW len, NEW params, Len(params) \in Nat
    PROVE  Writes(data, len, params) =
               [k \in 0..Len(params) |->
                   IF k = 0
                   THEN writeArr([data |-> data, len |-> len, err |-> "nil"], Len(params))
                   ELSE writeString(Writes(data, len, params)[k - 1], params[k])]
<1> DEFINE first == writeArr([data |-> data, len |-> len, err |-> "nil"], Len(params))
           D(g, n) == [k \in 0..n |-> IF k = 0 THEN first
                                      ELSE writeString(g[k - 1], params[k])]
           S == {n \in Nat : \E g : g = D(g, n)}
<1>1. 0 \in S
  <2> HIDE DEF first
  <2> DEFINE g == [k \in 0..0 |-> first]
  <2>1. g = D(g, 0)
    OBVIOUS
  <2>2. \E f : f = D(f, 0)
    <3> HIDE DEF D, g
    <3>1. QED
      BY <2>1
  <2>3. QED
    BY <2>2
<1>2. ASSUME NEW n \in Nat, n \in S PROVE n + 1 \in S
  <2>1. PICK g : g = D(g, n)
    BY <1>2
  <2> DEFINE h == [k \in 0..n + 1 |-> IF k <= n THEN g[k] ELSE writeString(g[n], params[n + 1])]
  <2> HIDE DEF first
  <2>2. \A k \in 0..n + 1 : h[k] = IF k = 0 THEN first ELSE writeString(h[k - 1], params[k])
    <3> TAKE k \in 0..n + 1
    <3>1. CASE k = 0
      BY <3>1, <2>1
    <3>2. CASE k \in 1..n
      BY <3>2, <2>1
    <3>3. CASE k = n + 1
      BY <3>3
    <3>4. QED
      BY <3>1, <3>2, <3>3
  <2>3. h = D(h, n + 1)
    BY <2>2
  <2>4. \E f : f = D(f, n + 1)
    <3> HIDE DEF D, h
    <3>1. QED
      BY <2>3
  <2>5. QED
    BY <2>4
<1>3. Len(params) \in S
  <2> HIDE DEF S
  <2>1. QED
    BY <1>1, <1>2, Induction
<1>4. Writes(data, len, params) = CHOOSE g : g = D(g, Len(params))
  BY DEF Writes
<1>5. Writes(data, len, params) = D(Writes(data, len, params), Len(params))
  <2> HIDE DEF D
  <2>1. QED
    BY <1>3, <1>4
<1>6. QED
  BY <1>5

-----------------------------------------------------------------------------
\* What Scans says of place k, of f as far as it is known.
ScanFrom(d, f, k) ==
    LET j == IF ~isDataEnded(d, k) /\ d[k] = "CR" THEN k + 1 ELSE k
    IN  IF isDataEnded(d, j) THEN [idx |-> j, text |-> <<>>, whole |-> FALSE]
        ELSE IF endsLine(d, k, j) THEN [idx |-> j, text |-> <<>>, whole |-> TRUE]
        ELSE [idx |-> f[j + 1].idx, text |-> <<d[j]>> \o f[j + 1].text,
              whole |-> f[j + 1].whole]

\* The recursive definition of Scans has a solution.
LEMMA ScansDef ==
    ASSUME NEW d, Len(d) \in Nat
    PROVE  Scans(d) = [k \in 1..Len(d) + 2 |-> ScanFrom(d, Scans(d), k)]
<1> DEFINE N == Len(d)
           D(g, n) == [k \in N + 3 - n..N + 2 |-> ScanFrom(d, g, k)]
           S == {n \in Nat : \E g : g = D(g, n)}
<1>1. 0 \in S
  <2> DEFINE g == [k \in N + 3..N + 2 |-> 0]
  <2>1. g = D(g, 0)
    OBVIOUS
  <2>2. \E f : f = D(f, 0)
    <3> HIDE DEF D, g
    <3>1. QED
      BY <2>1
  <2>3. QED
    BY <2>2
<1>2. ASSUME NEW n \in Nat, n \in S PROVE n + 1 \in S
  <2>1. PICK g : g = D(g, n)
    BY <1>2
  <2> DEFINE h == [k \in N + 2 - n..N + 2 |->
                      IF k = N + 2 - n THEN ScanFrom(d, g, k) ELSE g[k]]
  <2>2. ASSUME NEW k \in N + 2 - n..N + 2 PROVE ScanFrom(d, h, k) = ScanFrom(d, g, k)
    <3>1. ASSUME NEW j \in k..N PROVE h[j + 1] = g[j + 1]
      OBVIOUS
    <3> HIDE DEF h
    <3> DEFINE j == IF ~isDataEnded(d, k) /\ d[k] = "CR" THEN k + 1 ELSE k
    <3>2. isDataEnded(d, j) \/ j \in k..N
      BY DEF isDataEnded
    <3>3. isDataEnded(d, j) \/ h[j + 1] = g[j + 1]
      <4> HIDE DEF j
      <4>1. QED
        BY <3>1, <3>2
    <3>4. QED
      BY <3>3, Zenon DEF ScanFrom
  <2>3. ASSUME NEW k \in N + 2 - n..N + 2 PROVE h[k] = ScanFrom(d, h, k)
    <3>1. CASE k = N + 2 - n
      <4>1. h[k] = ScanFrom(d, g, k)
        BY <3>1
      <4>2. QED
        BY <4>1, <2>2
    <3>2. CASE k \in N + 3 - n..N + 2
      <4>1. h[k] = g[k]
        BY <3>2
      <4>2. g[k] = ScanFrom(d, g, k)
        <5> HIDE DEF h
        <5>1. QED
          BY <3>2, <2>1
      <4>3. QED
        BY <4>1, <4>2, <2>2
    <3>3. QED
      BY <3>1, <3>2
  <2>4. h = D(h, n + 1)
    <3>1. h = [k \in N + 2 - n..N + 2 |-> h[k]]
      OBVIOUS
    <3>2. N + 3 - (n + 1) = N + 2 - n
      OBVIOUS
    <3> HIDE DEF h
    <3>3. QED
      BY <2>3, <3>1, <3>2
  <2>5. \E f : f = D(f, n + 1)
    <3> HIDE DEF D, h
    <3>1. QED
      BY <2>4
  <2>6. QED
    BY <2>5
<1>3. N + 2 \in S
  <2> HIDE DEF S
  <2>1. QED
    BY <1>1, <1>2, Induction
<1>4. Scans(d) = CHOOSE g : g = D(g, N + 2)
  <2>1. N + 3 - (N + 2) = 1
    OBVIOUS
  <2>2. QED
    BY <2>1 DEF Scans, ScanFrom
<1>5. Scans(d) = D(Scans(d), N + 2)
  <2> HIDE DEF D
  <2>1. QED
    BY <1>3, <1>4
<1>6. QED
  BY <1>5

\* The first of a run of symbols, and the rest of them.
LEMMA SubSeqHead ==
    ASSUME NEW T, NEW d \in Seq(T), NEW i \in 1..Len(d), NEW j \in i..Len(d)
    PROVE  SubSeq(d, i, j) = <<d[i]>> \o SubSeq(d, i + 1, j)
<1> DEFINE r == SubSeq(d, i + 1, j)
           w == SubSeq(d, i, j)
<1>1. r \in Seq(T) /\ Len(r) = j - i /\ \A k \in 1..j - i : r[k] = d[i + k]
  OBVIOUS
<1>2. w \in Seq(T) /\ Len(w) = j - i + 1 /\ \A k \in 1..j - i + 1 : w[k] = d[i + k - 1]
  OBVIOUS
<1>3. <<d[i]>> \in Seq(T) /\ Len(<<d[i]>>) = 1 /\ i \in Int /\ j \in Int
  OBVIOUS
<1> HIDE DEF r, w
<1>4. <<d[i]>> \o r \in Seq(T) /\ Len(<<d[i]>> \o r) = j - i + 1
  <2> DEFINE x == <<d[i]>>
  <2>1. x \in Seq(T) /\ Len(x) = 1
    BY <1>3
  <2> HIDE DEF x
  <2>2. r \in Seq(T) /\ Len(r) = j - i
    BY <1>1
  <2>9. x \o r \in Seq(T)
    BY <2>1, <2>2
  <2>8. Len(x \o r) = Len(x) + Len(r)
    BY <2>1, <2>2, ConcatProperties
  <2>3. 1 + (j - i) = j - i + 1
    BY <1>3
  <2>4. QED
    BY <2>1, <2>2, <2>3, <2>8, <2>9 DEF x
<1>5. \A k \in 1..j - i + 1 : (<<d[i]>> \o r)[k] = w[k]
  <2> TAKE k \in 1..j - i + 1
  <2>0. k = 1 \/ k \in 2..j - i + 1
    BY <1>3
  <2>1. CASE k = 1
    BY <2>1, <1>1, <1>2, <1>3
  <2>2. CASE k \in 2..j - i + 1
    <3>1. (<<d[i]>> \o r)[k] = r[k - 1]
      BY <2>2, <1>1, <1>3
    <3>2. k - 1 \in 1..j - i /\ k \in 1..j - i + 1 /\ i + (k - 1) = i + k - 1
      BY <2>2, <1>3
    <3>3. r[k - 1] = d[i + (k - 1)]
      BY <3>2, <1>1, Zenon
    <3>4. w[k] = d[i + k - 1]
      BY <1>2, <3>2, Zenon
    <3>5. QED
      BY <3>1, <3>2, <3>3, <3>4, Zenon
  <2>3. QED
    BY <2>0, <2>1, <2>2
<1>6. QED
  BY <1>2, <1>4, <1>5, SeqEqual DEF w, r

\* The loop of the parsers finds the text before the first CR LF if there is no
\* CR in it.
LEMMA ScanFinds ==
    ASSUME NEW T, NEW d \in Seq(T), NEW i \in 1..Len(d), NEW j \in i..Len(d) - 1,
           \A k \in i..j - 1 : d[k] # "CR", d[j] = "CR", d[j + 1] = "LF"
    PROVE  Scan(d, i) = [idx |-> j + 1, text |-> SubSeq(d, i, j - 1), whole |-> TRUE]
<1> DEFINE found(k) == [idx |-> j + 1, text |-> SubSeq(d, k, j - 1), whole |-> TRUE]
           S == {n \in Nat : j - n \in i..j => Scans(d)[j - n] = found(j - n)}
<1>1. \A k \in 1..Len(d) + 2 : Scans(d)[k] = ScanFrom(d, Scans(d), k)
  BY ScansDef
<1>2. 0 \in S
  <2>1. SubSeq(d, j, j - 1) = <<>>
    OBVIOUS
  <2>2. Scans(d)[j] = ScanFrom(d, Scans(d), j)
    BY <1>1
  <2>3. ~isDataEnded(d, j) /\ ~isDataEnded(d, j + 1) /\ endsLine(d, j, j + 1)
    BY DEF isDataEnded, endsLine
  <2>4. ScanFrom(d, Scans(d), j) = [idx |-> j + 1, text |-> <<>>, whole |-> TRUE]
    BY <2>3, Zenon DEF ScanFrom
  <2>5. Scans(d)[j] = found(j)
    BY <2>1, <2>2, <2>4
  <2>6. j - 0 = j
    OBVIOUS
  <2> HIDE DEF found
  <2>7. QED
    BY <2>5, <2>6
<1>3. ASSUME NEW n \in Nat, n \in S PROVE n + 1 \in S
  <2> DEFINE k == j - (n + 1)
  <2>1. SUFFICES ASSUME k \in i..j - 1 PROVE Scans(d)[k] = found(k)
    OBVIOUS
  <2>2. k + 1 = j - n /\ k + 1 \in i..j
    BY <2>1
  <2>3. Scans(d)[k + 1] = found(k + 1)
    BY <1>3, <2>2
  <2>4. SubSeq(d, k, j - 1) = <<d[k]>> \o SubSeq(d, k + 1, j - 1)
    BY <2>1, SubSeqHead
  <2>5. Scans(d)[k] = ScanFrom(d, Scans(d), k)
    BY <1>1, <2>1
  <2>6. d[k] # "CR" /\ ~isDataEnded(d, k) /\ ~endsLine(d, k, k)
    BY <2>1 DEF isDataEnded, endsLine
  <2>7. ScanFrom(d, Scans(d), k)
            = [idx |-> Scans(d)[k + 1].idx, text |-> <<d[k]>> \o Scans(d)[k + 1].text,
               whole |-> Scans(d)[k + 1].whole]
    BY <2>6, Zenon DEF ScanFrom
  <2>8. Scans(d)[k] = [idx |-> j + 1, text |-> <<d[k]>> \o SubSeq(d, k + 1, j - 1),
                       whole |-> TRUE]
    <3> HIDE DEF k
    <3>1. QED
      BY <2>3, <2>5, <2>7, SMT
  <2>9. QED
    BY <2>4, <2>8
<1>4. j - i \in S
  <2> HIDE DEF S
  <2>1. QED
    BY <1>2, <1>3, Induction
<1>5. j - (j - i) = i
  OBVIOUS
<1>6. QED
  BY <1>4, <1>5 DEF Scan

\* Whatever it is used on, the loop yields symbols of the data, and ends at most
\* one place after them.
LEMMA ScanType ==
    ASSUME NEW T, NEW d \in Seq(T), NEW i \in 1..Len(d) + 1
    PROVE  Scan(d, i) \in [idx : i..Len(d) + 1, text : Seq(T), whole : BOOLEAN]
<1> DEFINE N == Len(d)
           typed(k) == Scans(d)[k] \in [idx : k..N + 1, text : Seq(T), whole : BOOLEAN]
           S == {n \in Nat : \A k \in 1..N + 1 : k >= N + 1 - n => typed(k)}
<1>1. \A k \in 1..N + 2 : Scans(d)[k] = ScanFrom(d, Scans(d), k)
  BY ScansDef
<1>2. 0 \in S
  <2>0. Scans(d)[N + 1] = ScanFrom(d, Scans(d), N + 1) /\ isDataEnded(d, N + 1)
    BY <1>1 DEF isDataEnded
  <2>1. Scans(d)[N + 1] = [idx |-> N + 1, text |-> <<>>, whole |-> FALSE]
    BY <2>0, Zenon DEF ScanFrom
  <2>2. <<>> \in Seq(T)
    OBVIOUS
  <2>3. typed(N + 1)
    BY <2>1, <2>2
  <2>4. \A k \in 1..N + 1 : k >= N + 1 - 0 => k = N + 1
    OBVIOUS
  <2> HIDE DEF typed
  <2>5. QED
    BY <2>3, <2>4
<1>3. ASSUME NEW n \in Nat, n \in S PROVE n + 1 \in S
  <2>1. SUFFICES ASSUME NEW k \in 1..N, k = N - n PROVE typed(k)
    BY <1>3
  <2> DEFINE j == IF ~isDataEnded(d, k) /\ d[k] = "CR" THEN k + 1 ELSE k
  <2>2. j \in {k, k + 1}
    OBVIOUS
  <2>3. Scans(d)[k] = ScanFrom(d, Scans(d), k)
    BY <1>1
  <2>4. CASE j > N \/ endsLine(d, k, j)
    <3>1. \E b \in BOOLEAN : Scans(d)[k] = [idx |-> j, text |-> <<>>, whole |-> b]
      BY <2>3, <2>4 DEF ScanFrom, isDataEnded
    <3>2. j \in k..N + 1
      BY <2>2
    <3> HIDE DEF j
    <3>3. QED
      BY <3>1, <3>2
  <2>5. CASE ~(j > N \/ endsLine(d, k, j))
    <3>1. Scans(d)[k] = [idx |-> Scans(d)[j + 1].idx,
                         text |-> <<d[j]>> \o Scans(d)[j + 1].text,
                         whole |-> Scans(d)[j + 1].whole]
      BY <2>3, <2>5 DEF ScanFrom, isDataEnded
    <3> HIDE DEF j
    <3>2. j + 1 \in k + 1..N + 1 /\ d[j] \in T
      BY <2>2, <2>5
    <3>3. typed(j + 1)
      BY <1>3, <2>1, <3>2
    <3>4. <<d[j]>> \o Scans(d)[j + 1].text \in Seq(T)
      BY <3>2, <3>3
    <3>5. Scans(d)[j + 1].idx \in k..N + 1
      BY <3>2, <3>3
    <3>6. QED
      BY <3>1, <3>3, <3>4, <3>5
  <2>6. QED
    BY <2>4, <2>5
<1>4. N + 1 \in S
  <2> HIDE DEF S
  <2>1. QED
    BY <1>2, <1>3, Induction
<1>5. QED
  BY <1>4 DEF Scan

-----------------------------------------------------------------------------
\* The recursive definition of Elements has a solution.
LEMMA ElementsDef ==
    ASSUME NEW d, NEW len, NEW parts, len.n \in Nat
    PROVE  Elements(d, len, parts) =
               [k \in 0..len.n |-> IF k = 0 THEN Parsed(len.idx, Array(0), "nil")
                   ELSE nextElement(d, Elements(d, len, parts)[k - 1], k, parts)]
<1> DEFINE first == Parsed(len.idx, Array(0), "nil")
           D(g, n) == [k \in 0..n |-> IF k = 0 THEN first ELSE nextElement(d, g[k - 1], k, parts)]
           S == {n \in Nat : \E g : g = D(g, n)}
<1>1. 0 \in S
  <2> DEFINE g == [k \in 0..0 |-> first]
  <2>1. g = D(g, 0)
    <3> HIDE DEF first
    <3>1. QED
      OBVIOUS
  <2>2. \E f : f = D(f, 0)
    <3> HIDE DEF D, g
    <3>1. QED
      BY <2>1
  <2>3. QED
    BY <2>2
<1>2. ASSUME NEW n \in Nat, n \in S PROVE n + 1 \in S
  <2>1. PICK g : g = D(g, n)
    BY <1>2
  <2> DEFINE h == [k \in 0..n + 1 |-> IF k <= n THEN g[k] ELSE nextElement(d, g[n], (n + 1), parts)]
  <2> HIDE DEF first
  <2>2. \A k \in 0..n + 1 : h[k] = IF k = 0 THEN first ELSE nextElement(d, h[k - 1], k, parts)
    <3> TAKE k \in 0..n + 1
    <3>1. CASE k = 0
      BY <3>1, <2>1
    <3>2. CASE k \in 1..n
      BY <3>2, <2>1
    <3>3. CASE k = n + 1
      BY <3>3
    <3>4. QED
      BY <3>1, <3>2, <3>3
  <2>3. h = D(h, n + 1)
    BY <2>2
  <2>4. \E f : f = D(f, n + 1)
    <3> HIDE DEF D, h
    <3>1. QED
      BY <2>3
  <2>5. QED
    BY <2>4
<1>3. len.n \in S
  <2> HIDE DEF S
  <2>1. QED
    BY <1>1, <1>2, Induction
<1>4. Elements(d, len, parts) = CHOOSE g : g = D(g, len.n)
  BY DEF Elements
<1>5. Elements(d, len, parts) = D(Elements(d, len, parts), len.n)
  <2> HIDE DEF D
  <2>1. QED
    BY <1>3, <1>4
<1>6. QED
  BY <1>5

\* The recursive definition of Pairs has a solution.
LEMMA PairsDef ==
    ASSUME NEW d, NEW len, NEW parts, len.n \in Nat
    PROVE  Pairs(d, len, parts) =
               [k \in 0..len.n |-> IF k = 0 THEN Parsed(len.idx, Map(<<>>), "nil")
                   ELSE nextPair(d, Pairs(d, len, parts)[k - 1], parts)]
<1> DEFINE first == Parsed(len.idx, Map(<<>>), "nil")
           D(g, n) == [k \in 0..n |-> IF k = 0 THEN first ELSE nextPair(d, g[k - 1], parts)]
           S == {n \in Nat : \E g : g = D(g, n)}
<1>1. 0 \in S
  <2> DEFINE g == [k \in 0..0 |-> first]
  <2>1. g = D(g, 0)
    <3> HIDE DEF first
    <3>1. QED
      OBVIOUS
  <2>2. \E f : f = D(f, 0)
    <3> HIDE DEF D, g
    <3>1. QED
      BY <2>1
  <2>3. QED
    BY <2>2
<1>2. ASSUME NEW n \in Nat, n \in S PROVE n + 1 \in S
  <2>1. PICK g : g = D(g, n)
    BY <1>2
  <2> DEFINE h == [k \in 0..n + 1 |-> IF k <= n THEN g[k] ELSE nextPair(d, g[n], parts)]
  <2> HIDE DEF first
  <2>2. \A k \in 0..n + 1 : h[k] = IF k = 0 THEN first ELSE nextPair(d, h[k - 1], parts)
    <3> TAKE k \in 0..n + 1
    <3>1. CASE k = 0
      BY <3>1, <2>1
    <3>2. CASE k \in 1..n
      BY <3>2, <2>1
    <3>3. CASE k = n + 1
      BY <3>3
    <3>4. QED
      BY <3>1, <3>2, <3>3
  <2>3. h = D(h, n + 1)
    BY <2>2
  <2>4. \E f : f = D(f, n + 1)
    <3> HIDE DEF D, h
    <3>1. QED
      BY <2>3
  <2>5. QED
    BY <2>4
<1>3. len.n \in S
  <2> HIDE DEF S
  <2>1. QED
    BY <1>1, <1>2, Induction
<1>4. Pairs(d, len, parts) = CHOOSE g : g = D(g, len.n)
  BY DEF Pairs
<1>5. Pairs(d, len, parts) = D(Pairs(d, len, parts), len.n)
  <2> HIDE DEF D
  <2>1. QED
    BY <1>3, <1>4
<1>6. QED
  BY <1>5

\* The recursive definition of Read has a solution.
LEMMA ReadDef ==
    ASSUME NEW bytes, NEW count, count \in Nat
    PROVE  Read(bytes, count) =
               [k \in 0..count |-> IF k = 0 THEN [next |-> 5, ok |-> TRUE, strings |-> <<>>]
                   ELSE ReadString(bytes, Read(bytes, count)[k - 1])]
<1> DEFINE first == [next |-> 5, ok |-> TRUE, strings |-> <<>>]
           D(g, n) == [k \in 0..n |-> IF k = 0 THEN first ELSE ReadString(bytes, g[k - 1])]
           S == {n \in Nat : \E g : g = D(g, n)}
<1>1. 0 \in S
  <2> DEFINE g == [k \in 0..0 |-> first]
  <2>1. g = D(g, 0)
    <3> HIDE DEF first
    <3>1. QED
      OBVIOUS
  <2>2. \E f : f = D(f, 0)
    <3> HIDE DEF D, g
    <3>1. QED
      BY <2>1
  <2>3. QED
    BY <2>2
<1>2. ASSUME NEW n \in Nat, n \in S PROVE n + 1 \in S
  <2>1. PICK g : g = D(g, n)
    BY <1>2
  <2> DEFINE h == [k \in 0..n + 1 |-> IF k <= n THEN g[k] ELSE ReadString(bytes, g[n])]
  <2> HIDE DEF first
  <2>2. \A k \in 0..n + 1 : h[k] = IF k = 0 THEN first ELSE ReadString(bytes, h[k - 1])
    <3> TAKE k \in 0..n + 1
    <3>1. CASE k = 0
      BY <3>1, <2>1
    <3>2. CASE k \in 1..n
      BY <3>2, <2>1
    <3>3. CASE k = n + 1
      BY <3>3
    <3>4. QED
      BY <3>1, <3>2, <3>3
  <2>3. h = D(h, n + 1)
    BY <2>2
  <2>4. \E f : f = D(f, n + 1)
    <3> HIDE DEF D, h
    <3>1. QED
      BY <2>3
  <2>5. QED
    BY <2>4
<1>3. count \in S
  <2> HIDE DEF S
  <2>1. QED
    BY <1>1, <1>2, Induction
<1>4. Read(bytes, count) = CHOOSE g : g = D(g, count)
  BY DEF Read
<1>5. Read(bytes, count) = D(Read(bytes, count), count)
  <2> HIDE DEF D
  <2>1. QED
    BY <1>3, <1>4
<1>6. QED
  BY <1>5

\* The recursive definition of EncodedLens has a solution.
LEMMA EncodedLensDef ==
    ASSUME NEW params, Len(params) \in Nat
    PROVE  EncodedLens(params) =
               [k \in 0..Len(params) |-> IF k = 0 THEN 4
                   ELSE EncodedLens(params)[k - 1] + 6 + Len(params[k])]
<1> DEFINE first == 4
           D(g, n) == [k \in 0..n |-> IF k = 0 THEN first ELSE g[k - 1] + 6 + Len(params[k])]
           S == {n \in Nat : \E g : g = D(g, n)}
<1>1. 0 \in S
  <2> DEFINE g == [k \in 0..0 |-> first]
  <2>1. g = D(g, 0)
    <3> HIDE DEF first
    <3>1. QED
      OBVIOUS
  <2>2. \E f : f = D(f, 0)
    <3> HIDE DEF D, g
    <3>1. QED
      BY <2>1
  <2>3. QED
    BY <2>2
<1>2. ASSUME NEW n \in Nat, n \in S PROVE n + 1 \in S
  <2>1. PICK g : g = D(g, n)
    BY <1>2
  <2> DEFINE h == [k \in 0..n + 1 |-> IF k <= n THEN g[k] ELSE g[n] + 6 + Len(params[(n + 1)])]
  <2> HIDE DEF first
  <2>2. \A k \in 0..n + 1 : h[k] = IF k = 0 THEN first ELSE h[k - 1] + 6 + Len(params[k])
    <3> TAKE k \in 0..n + 1
    <3>1. CASE k = 0
      BY <3>1, <2>1
    <3>2. CASE k \in 1..n
      BY <3>2, <2>1
    <3>3. CASE k = n + 1
      BY <3>3
    <3>4. QED
      BY <3>1, <3>2, <3>3
  <2>3. h = D(h, n + 1)
    BY <2>2
  <2>4. \E f : f = D(f, n + 1)
    <3> HIDE DEF D, h
    <3>1. QED
      BY <2>3
  <2>5. QED
    BY <2>4
<1>3. Len(params) \in S
  <2> HIDE DEF S
  <2>1. QED
    BY <1>1, <1>2, Induction
<1>4. EncodedLens(params) = CHOOSE g : g = D(g, Len(params))
  BY DEF EncodedLens
<1>5. EncodedLens(params) = D(EncodedLens(params), Len(params))
  <2> HIDE DEF D
  <2>1. QED
    BY <1>3, <1>4
<1>6. QED
  BY <1>5

\* The recursive definition of Parts has a solution.
LEMMA PartsDef ==
    ASSUME NEW d, Len(d) \in Nat
    PROVE  Parts(d) = [depth \in 0..Len(d) |->
               [i \in 1..Len(d) |-> IF depth = 0 THEN Parsed(i, Nil, "panic")
                                    ELSE parsePart(d, i, Parts(d)[depth - 1])]]
<1> DEFINE D(g, n) == [k \in 0..n |->
               [i \in 1..Len(d) |-> IF k = 0 THEN Parsed(i, Nil, "panic")
                                    ELSE parsePart(d, i, g[k - 1])]]
           S == {n \in Nat : \E g : g = D(g, n)}
<1>1. 0 \in S
  <2> DEFINE g == [k \in 0..0 |-> [i \in 1..Len(d) |-> Parsed(i, Nil, "panic")]]
  <2>1. g = D(g, 0)
    OBVIOUS
  <2>2. \E f : f = D(f, 0)
    <3> HIDE DEF D, g
    <3>1. QED
      BY <2>1
  <2>3. QED
    BY <2>2
<1>2. ASSUME NEW n \in Nat, n \in S PROVE n + 1 \in S
  <2>1. PICK g : g = D(g, n)
    BY <1>2
  <2> DEFINE level(f, k) == [i \in 1..Len(d) |-> IF k = 0 THEN Parsed(i, Nil, "panic")
                                                 ELSE parsePart(d, i, f[k - 1])]
             h == [k \in 0..n + 1 |-> IF k <= n THEN g[k] ELSE level(g, n + 1)]
  <2>2. \A k \in 0..n + 1 : h[k] = level(h, k)
    <3> TAKE k \in 0..n + 1
    <3>1. CASE k = 0
      BY <3>1, <2>1
    <3>2. CASE k \in 1..n
      <4>1. h[k] = g[k] /\ h[k - 1] = g[k - 1]
        BY <3>2
      <4>2. g[k] = level(g, k)
        <5> HIDE DEF h
        <5>1. QED
          BY <3>2, <2>1, SMTT(30)
      <4> HIDE DEF h
      <4>3. level(h, k) = level(g, k)
        BY <4>1
      <4> HIDE DEF level
      <4>4. QED
        BY <4>1, <4>2, <4>3
    <3>3. CASE k = n + 1
      <4>1. h[k] = level(g, k) /\ h[k - 1] = g[k - 1]
        BY <3>3
      <4> HIDE DEF h
      <4>2. level(h, k) = level(g, k)
        BY <4>1
      <4> HIDE DEF level
      <4>3. QED
        BY <4>1, <4>2
    <3>4. QED
      BY <3>1, <3>2, <3>3
  <2>3. h = D(h, n + 1)
    BY <2>2
  <2>4. \E f : f = D(f, n + 1)
    <3> HIDE DEF D, h
    <3>1. QED
      BY <2>3
  <2>5. QED
    <3> HIDE DEF D
    <3>1. QED
      BY <2>4
<1>3. Len(d) \in S
  <2> HIDE DEF S
  <2>1. QED
    BY <1>1, <1>2, Induction
<1>4. Parts(d) = CHOOSE g : g = D(g, Len(d))
  BY DEF Parts
<1>5. Parts(d) = D(Parts(d), Len(d))
  <2> HIDE DEF D
  <2>1. QED
    BY <1>3, <1>4
<1>6. QED
  BY <1>5

-----------------------------------------------------------------------------
(***************************************************************************)
(* Numbers, marks and lines.                                               *)
(***************************************************************************)
\* The largest number that is written.
LEMMA MaxNumberIsNat == MaxNumber \in Nat /\ MaxNumber >= 5
BY NumeralAssumption

\* A number that has been written is read as the same number.
LEMMA AtoiItoa ==
    ASSUME NEW n \in -1..MaxNumber
    PROVE  Atoi(Itoa(n)) = n
<1>1. \A m \in -1..MaxNumber : Itoa(n) = Itoa(m) => m = n
  BY NumeralAssumption DEF Itoa
<1>2. QED
  BY <1>1 DEF Atoi

\* The alphabet of RESP: what the driver and the server write besides the words,
\* keys and values.
Marks == {"CR", "LF", "$", "*", "+", "-", "_", "%", ":"}
             \cup {numeral[n] : n \in -1..MaxNumber}

\* Each mark is a symbol of an alphabet that has them all.
LEMMA MarksInAlphabet ==
    ASSUME NEW T, Marks \subseteq T
    PROVE  /\ "CR" \in T /\ "LF" \in T /\ "$" \in T /\ "*" \in T /\ "+" \in T
           /\ "-" \in T /\ "_" \in T /\ "%" \in T /\ ":" \in T
           /\ \A n \in -1..MaxNumber : numeral[n] \in T
BY DEF Marks

\* Where the symbols of two sequences are in both together.
LEMMA Concat ==
    ASSUME NEW T, NEW s \in Seq(T), NEW t \in Seq(T)
    PROVE  /\ s \o t \in Seq(T) /\ Len(s \o t) = Len(s) + Len(t)
           /\ \A k \in 1..Len(s) : (s \o t)[k] = s[k]
           /\ \A k \in 1..Len(t) : (s \o t)[Len(s) + k] = t[k]
<1> DEFINE m == Len(s)
           n == Len(t)
<1>1. m \in Nat /\ n \in Nat
  OBVIOUS
<1>2. s \o t \in Seq(T) /\ Len(s \o t) = m + n
  BY ConcatProperties
<1>3. \A k \in 1..m : (s \o t)[k] = s[k]
  BY <1>1, ConcatProperties
<1>4. \A k \in 1..n : (s \o t)[m + k] = t[k]
  <2> TAKE k \in 1..n
  <2>1. m + k \in 1..m + n /\ m + k > m /\ (m + k) - m = k
    BY <1>1
  <2>2. QED
    BY <2>1, <1>1, ConcatProperties
<1>5. QED
  BY <1>2, <1>3, <1>4

\* The end of a line.
LEMMA CRLFIs ==
    ASSUME NEW T, "CR" \in T, "LF" \in T
    PROVE  CRLF \in Seq(T) /\ Len(CRLF) = 2 /\ CRLF[1] = "CR" /\ CRLF[2] = "LF"
BY DEF CRLF

\* A line of two symbols.
TwoOnLine(a, b) == <<a, b>> \o CRLF

\* Where the symbols of such a line are.
LEMMA LineOfTwo ==
    ASSUME NEW T, NEW a \in T, NEW b \in T, "CR" \in T, "LF" \in T,
           NEW d, d = TwoOnLine(a, b)
    PROVE  /\ d \in Seq(T) /\ Len(d) = 4
           /\ d[1] = a /\ d[2] = b /\ d[3] = "CR" /\ d[4] = "LF"
<1> DEFINE s == <<a, b>>
<1>1. s \in Seq(T) /\ Len(s) = 2 /\ s[1] = a /\ s[2] = b
  OBVIOUS
<1>2. CRLF \in Seq(T) /\ Len(CRLF) = 2 /\ CRLF[1] = "CR" /\ CRLF[2] = "LF"
  BY CRLFIs
<1>3. d = s \o CRLF
  BY DEF TwoOnLine
<1> HIDE DEF s
<1>4. s \in Seq(T) /\ CRLF \in Seq(T)
  BY <1>1, <1>2
<1>5. /\ d \in Seq(T) /\ Len(d) = Len(s) + Len(CRLF)
      /\ \A k \in 1..Len(s) : d[k] = s[k]
      /\ \A k \in 1..Len(CRLF) : d[Len(s) + k] = CRLF[k]
  BY <1>3, <1>4, Concat
<1>6. QED
  BY <1>1, <1>2, <1>5

\* The first line of an array, a bulk string or a map.
LEMMA LineIs ==
    ASSUME NEW T, NEW first \in T, NEW n, numeral[n] \in T, "CR" \in T, "LF" \in T
    PROVE  /\ Line(first, n) \in Seq(T) /\ Len(Line(first, n)) = 4
           /\ Line(first, n)[1] = first /\ Line(first, n)[2] = numeral[n]
           /\ Line(first, n)[3] = "CR" /\ Line(first, n)[4] = "LF"
<1> DEFINE x == numeral[n]
           a == <<first>> \o <<x>>
           d == a \o CRLF
<1>1. a \in Seq(T) /\ Len(a) = 2 /\ a[1] = first /\ a[2] = x
  <2> HIDE DEF x
  <2>1. x \in T
    BY DEF x
  <2>2. QED
    BY <2>1
<1>2. Line(first, n) = d
  BY DEF Line, Itoa
<1>3. CRLF \in Seq(T) /\ Len(CRLF) = 2 /\ CRLF[1] = "CR" /\ CRLF[2] = "LF"
  BY CRLFIs
<1>4. a \in Seq(T) /\ CRLF \in Seq(T)
  BY <1>1, <1>3
<1> HIDE DEF a, x
<1>5. /\ d \in Seq(T) /\ Len(d) = Len(a) + Len(CRLF)
      /\ \A k \in 1..Len(a) : d[k] = a[k]
      /\ \A k \in 1..Len(CRLF) : d[Len(a) + k] = CRLF[k]
  BY <1>4, Concat
<1> HIDE DEF d
<1>6. QED
  BY <1>1, <1>2, <1>3, <1>5 DEF x

\* e is what is in the buffer when writeString has appended v to w.
AppendedTo(T, w, v, e) ==
    /\ e \in Seq(T) /\ Len(e) = Len(w) + Len(v) + 6
    /\ \A k \in 1..Len(w) : e[k] = w[k]
    /\ e[Len(w) + 1] = "$" /\ e[Len(w) + 2] = numeral[Len(v)]
    /\ e[Len(w) + 3] = "CR" /\ e[Len(w) + 4] = "LF"
    /\ \A k \in 1..Len(v) : e[Len(w) + 4 + k] = v[k]
    /\ e[Len(w) + Len(v) + 5] = "CR" /\ e[Len(w) + Len(v) + 6] = "LF"

\* What writeString appends: where each part of it is.
LEMMA Appended ==
    ASSUME NEW T, Marks \subseteq T, NEW w \in Seq(T), NEW v \in Seq(T), Len(v) <= MaxNumber,
           NEW e, e = w \o Line("$", Len(v)) \o v \o CRLF
    PROVE  AppendedTo(T, w, v, e)
<1> DEFINE l == Line("$", Len(v))
           a == w \o l
           b == a \o v
           d == b \o CRLF
           n == Len(v)
           m == Len(w)
<1>1. n \in -1..MaxNumber /\ n \in Nat /\ m \in Nat
  BY MaxNumberIsNat
<1>2. l \in Seq(T) /\ Len(l) = 4 /\ l[1] = "$" /\ l[2] = numeral[n]
      /\ l[3] = "CR" /\ l[4] = "LF"
  <2>1. "$" \in T /\ numeral[n] \in T /\ "CR" \in T /\ "LF" \in T
    BY <1>1, MarksInAlphabet
  <2> HIDE DEF n
  <2>2. Line("$", n) \in Seq(T) /\ Len(Line("$", n)) = 4
        /\ Line("$", n)[1] = "$" /\ Line("$", n)[2] = numeral[n]
        /\ Line("$", n)[3] = "CR" /\ Line("$", n)[4] = "LF"
    BY <2>1, LineIs
  <2>3. QED
    BY <2>2 DEF n
<1>3. CRLF \in Seq(T) /\ Len(CRLF) = 2 /\ CRLF[1] = "CR" /\ CRLF[2] = "LF"
  BY CRLFIs, MarksInAlphabet
<1>4. l \in Seq(T)
  BY <1>2
<1>5. CRLF \in Seq(T)
  BY <1>3
<1>6. /\ a \in Seq(T) /\ Len(a) = Len(w) + Len(l)
      /\ \A k \in 1..Len(w) : a[k] = w[k]
      /\ \A k \in 1..Len(l) : a[Len(w) + k] = l[k]
  <2> HIDE DEF l
  <2>1. QED
    BY <1>4, Concat
<1>7. /\ b \in Seq(T) /\ Len(b) = Len(a) + Len(v)
      /\ \A k \in 1..Len(a) : b[k] = a[k]
      /\ \A k \in 1..Len(v) : b[Len(a) + k] = v[k]
  <2>1. a \in Seq(T)
    BY <1>6
  <2> HIDE DEF a
  <2>2. QED
    BY <2>1, Concat
<1>8. /\ d \in Seq(T) /\ Len(d) = Len(b) + Len(CRLF)
      /\ \A k \in 1..Len(b) : d[k] = b[k]
      /\ \A k \in 1..Len(CRLF) : d[Len(b) + k] = CRLF[k]
  <2>1. b \in Seq(T)
    BY <1>7
  <2> HIDE DEF b
  <2>2. QED
    BY <2>1, <1>5, Concat
<1>9. Len(v) = n /\ Len(w) = m /\ e = d
  OBVIOUS
<1> HIDE DEF l, a, b, d, n, m
<1>10. Len(a) = m + 4 /\ Len(b) = m + 4 + n /\ Len(d) = m + n + 6
  BY <1>1, <1>2, <1>3, <1>6, <1>7, <1>8, <1>9
<1>11. \A k \in 1..m : d[k] = w[k]
  BY <1>1, <1>6, <1>7, <1>8, <1>9, <1>10
<1>12. \A k \in 1..4 : d[m + k] = l[k]
  <2> TAKE k \in 1..4
  <2>1. m + k \in 1..m + 4 /\ m + k \in 1..m + 4 + n
    BY <1>1
  <2>2. QED
    BY <2>1, <1>2, <1>6, <1>7, <1>8, <1>9, <1>10, ZenonT(30)
<1>13. \A k \in 1..n : d[m + 4 + k] = v[k]
  <2> TAKE k \in 1..n
  <2>1. m + 4 + k \in 1..m + 4 + n
    BY <1>1
  <2>2. QED
    BY <2>1, <1>7, <1>8, <1>9, <1>10
<1>14. d[m + n + 5] = "CR" /\ d[m + n + 6] = "LF"
  <2>1. d[m + 4 + n + 1] = CRLF[1] /\ d[m + 4 + n + 2] = CRLF[2]
    BY <1>3, <1>8, <1>10
  <2>2. m + 4 + n + 1 = m + n + 5 /\ m + 4 + n + 2 = m + n + 6
    BY <1>1
  <2>3. QED
    BY <2>1, <2>2, <1>3
<1>15. /\ d[m + 1] = "$" /\ d[m + 2] = numeral[n] /\ d[m + 3] = "CR" /\ d[m + 4] = "LF"
  BY <1>2, <1>12
<1>16. QED
  BY <1>8, <1>9, <1>10, <1>11, <1>13, <1>14, <1>15 DEF AppendedTo

-----------------------------------------------------------------------------
\* How often a value takes up room in the buffer does not depend on the buffer:
\* the length of a command grows with each of its parameters.
LEMMA EncodedLensType ==
    ASSUME NEW params, Len(params) \in Nat, \A k \in 1..Len(params) : Len(params[k]) \in Nat
    PROVE  /\ EncodedLens(params)[0] = 4
           /\ \A k \in 1..Len(params) :
                 EncodedLens(params)[k] = EncodedLens(params)[k - 1] + 6 + Len(params[k])
           /\ \A k \in 0..Len(params) : EncodedLens(params)[k] \in Nat
<1> DEFINE f == EncodedLens(params)
           n == Len(params)
           S == {k \in Nat : k \in 0..n => f[k] \in Nat}
<1>1. \A k \in 0..n : f[k] = IF k = 0 THEN 4 ELSE f[k - 1] + 6 + Len(params[k])
  BY EncodedLensDef
<1> HIDE DEF f
<1>2. 0 \in S
  BY <1>1
<1>3. ASSUME NEW k \in Nat, k \in S PROVE k + 1 \in S
  BY <1>1, <1>3
<1>4. \A k \in Nat : k \in S
  <2> HIDE DEF S
  <2>1. QED
    BY <1>2, <1>3, Induction
<1>5. \A k \in 0..n : f[k] \in Nat
  BY <1>4
<1>6. QED
  BY <1>1, <1>5 DEF f

\* A line of one symbol after the mark of its type.
LEMMA ShortLine ==
    ASSUME NEW T, NEW d \in Seq(T), NEW i \in 1..Len(d) - 2,
           d[i] # "CR", d[i + 1] = "CR", d[i + 2] = "LF"
    PROVE  Scan(d, i) = [idx |-> i + 2, text |-> <<d[i]>>, whole |-> TRUE]
<1> DEFINE j == i + 1
<1>1. i \in 1..Len(d) /\ j \in i..Len(d) - 1 /\ d[j] = "CR" /\ d[j + 1] = "LF"
  OBVIOUS
<1>2. \A k \in i..j - 1 : d[k] # "CR"
  OBVIOUS
<1>3. SubSeq(d, i, j - 1) = <<d[i]>>
  <2>1. SubSeq(d, i, i) = <<d[i]>>
    <3> DEFINE w == SubSeq(d, i, i)
               x == <<d[i]>>
    <3>1. w \in Seq(T) /\ Len(w) = 1 /\ w[1] = d[i]
      OBVIOUS
    <3>2. x \in Seq(T) /\ Len(x) = 1 /\ x[1] = d[i]
      OBVIOUS
    <3> HIDE DEF w, x
    <3>3. w = x
      BY <3>1, <3>2, SeqEqual
    <3>4. QED
      BY <3>3 DEF w, x
  <2>2. j - 1 = i
    OBVIOUS
  <2>3. QED
    BY <2>1, <2>2
<1>4. j + 1 = i + 2
  OBVIOUS
<1> HIDE DEF j
<1>5. Scan(d, i) = [idx |-> j + 1, text |-> SubSeq(d, i, j - 1), whole |-> TRUE]
  BY <1>1, <1>2, ScanFinds
<1>6. QED
  BY <1>3, <1>4, <1>5

\* A number on a line of its own.
LEMMA NumberOnLine ==
    ASSUME NEW T, NEW d \in Seq(T), NEW i \in 1..Len(d) - 2, NEW n \in -1..MaxNumber,
           d[i] = numeral[n], d[i + 1] = "CR", d[i + 2] = "LF"
    PROVE  parsePartLen(d, i) = [idx |-> i + 2, n |-> n]
<1>1. d[i] # "CR"
  BY NumeralAssumption
<1>2. Scan(d, i) = [idx |-> i + 2, text |-> <<d[i]>>, whole |-> TRUE]
  BY <1>1, ShortLine
<1>3. Atoi(<<d[i]>>) = n
  BY AtoiItoa DEF Itoa
<1> DEFINE s == Scan(d, i)
<1>4. s.whole = TRUE /\ s.idx = i + 2 /\ s.text = <<d[i]>>
  BY <1>2
<1>5. QED
  BY <1>3, <1>4 DEF parsePartLen

\* What is found at a place is found by parsePart, the parts in it one level down.
LEMMA PartIs ==
    ASSUME NEW d, Len(d) \in Nat, NEW depth \in 1..Len(d), NEW i \in 1..Len(d)
    PROVE  Parts(d)[depth][i] = parsePart(d, i, Parts(d)[depth - 1])
<1> DEFINE P == Parts(d)
<1>1. P = [k \in 0..Len(d) |->
               [x \in 1..Len(d) |-> IF k = 0 THEN Parsed(x, Nil, "panic")
                                    ELSE parsePart(d, x, P[k - 1])]]
  BY PartsDef
<1>2. depth \in 0..Len(d) /\ depth # 0
  OBVIOUS
<1> HIDE DEF P
<1>3. P[depth] = [x \in 1..Len(d) |-> IF depth = 0 THEN Parsed(x, Nil, "panic")
                                      ELSE parsePart(d, x, P[depth - 1])]
  BY <1>1, <1>2
<1>4. P[depth][i] = parsePart(d, i, P[depth - 1])
  BY <1>2, <1>3
<1>5. QED
  BY <1>4 DEF P

\* A reply is the part at its first place.
LEMMA FirstPart ==
    ASSUME NEW d, Len(d) \in Nat, d # <<>>, Len(d) # 0
    PROVE  partAt(d, 1, Parts(d)[Len(d)]) = parsePart(d, 1, Parts(d)[Len(d) - 1])
<1>1. ~isDataEnded(d, 1)
  BY DEF isDataEnded
<1>2. Parts(d)[Len(d)][1] = parsePart(d, 1, Parts(d)[Len(d) - 1])
  BY PartIs
<1>3. QED
  BY <1>1, <1>2 DEF partAt

\* A text on one line.
LEMMA SimplePart ==
    ASSUME NEW T, NEW d \in Seq(T), NEW i \in 1..Len(d) - 3, NEW parts,
           d[i] = "+" \/ d[i] = ":", d[i + 1] # "CR", d[i + 2] = "CR", d[i + 3] = "LF"
    PROVE  parsePart(d, i, parts) = Parsed(i + 3, Bytes(<<d[i + 1]>>), "nil")
<1> DEFINE s == Scan(d, i + 1)
<1>1. /\ i + 1 \in 1..Len(d) - 2 /\ (i + 1) + 1 = i + 2 /\ (i + 1) + 2 = i + 3
  OBVIOUS
<1>2. Scan(d, i + 1) = [idx |-> (i + 1) + 2, text |-> <<d[i + 1]>>, whole |-> TRUE]
  BY <1>1, ShortLine
<1>3. s.idx = i + 3 /\ s.text = <<d[i + 1]>> /\ s.whole = TRUE
  BY <1>1, <1>2
<1>4. parseSimpleString(d, i) = Parsed(i + 3, Bytes(<<d[i + 1]>>), "nil")
  BY <1>3 DEF parseSimpleString
<1>5. parseInteger(d, i) = Parsed(i + 3, Bytes(<<d[i + 1]>>), "nil")
  BY <1>3 DEF parseInteger
<1>6. CASE d[i] = "+"
  BY <1>4, <1>6 DEF parsePart
<1>7. CASE d[i] = ":"
  BY <1>5, <1>7 DEF parsePart
<1>8. QED
  BY <1>6, <1>7

\* A bulk string whose text has no CR in it.
LEMMA BulkPart ==
    ASSUME NEW T, NEW d \in Seq(T), NEW i \in 1..Len(d), NEW j \in i + 4..Len(d) - 1,
           NEW parts, NEW n \in 0..MaxNumber,
           d[i] = "$", d[i + 1] = numeral[n], d[i + 2] = "CR", d[i + 3] = "LF",
           \A k \in i + 4..j - 1 : d[k] # "CR", d[j] = "CR", d[j + 1] = "LF"
    PROVE  parsePart(d, i, parts) = Parsed(j + 1, Bytes(SubSeq(d, i + 4, j - 1)), "nil")
<1> DEFINE len == parsePartLen(d, i + 1)
           a == i + 4
           s == Scan(d, a)
<1>1. /\ i + 1 \in 1..Len(d) - 2 /\ (i + 1) + 1 = i + 2 /\ (i + 1) + 2 = i + 3
      /\ n \in -1..MaxNumber /\ n # -1
  BY MaxNumberIsNat
<1>2. parsePartLen(d, i + 1) = [idx |-> (i + 1) + 2, n |-> n]
  BY <1>1, NumberOnLine
<1>3. len.idx = i + 3 /\ len.n = n
  BY <1>1, <1>2
<1>4. a \in 1..Len(d) /\ j \in a..Len(d) - 1 /\ \A k \in a..j - 1 : d[k] # "CR"
  OBVIOUS
<1>5. Scan(d, a) = [idx |-> j + 1, text |-> SubSeq(d, a, j - 1), whole |-> TRUE]
  <2> HIDE DEF a
  <2>1. QED
    BY <1>4, ScanFinds
<1>6. s.idx = j + 1 /\ s.text = SubSeq(d, a, j - 1)
  BY <1>5
<1>7. ~isDataEnded(d, i + 1) /\ ~isNil(len.n) /\ ~isDataEnded(d, len.idx + 1)
      /\ len.idx + 1 = a
  BY <1>1, <1>3 DEF isDataEnded, isNil
<1>8. parseBulkString(d, i) = Parsed(j + 1, Bytes(SubSeq(d, a, j - 1)), "nil")
  <2> HIDE DEF a
  <2>1. QED
    BY <1>6, <1>7 DEF parseBulkString
<1>9. QED
  BY <1>8 DEF parsePart

\* The nil of RESP3.
LEMMA NullPart ==
    ASSUME NEW d, NEW i, NEW parts, d[i] = "_"
    PROVE  parsePart(d, i, parts) = Parsed(1, Nil, "ErrNoValue")
BY DEF parsePart

\* The one of RESP2, a bulk string whose length is -1.
LEMMA NullBulkPart ==
    ASSUME NEW T, NEW d \in Seq(T), NEW i \in 1..Len(d) - 3, NEW parts,
           NEW n \in -1..MaxNumber, n < 0,
           d[i] = "$", d[i + 1] = numeral[n], d[i + 2] = "CR", d[i + 3] = "LF"
    PROVE  parsePart(d, i, parts) = Parsed(i + 3, Nil, "ErrNoValue")
<1> DEFINE len == parsePartLen(d, i + 1)
<1>1. /\ i + 1 \in 1..Len(d) - 2 /\ (i + 1) + 1 = i + 2 /\ (i + 1) + 2 = i + 3
  OBVIOUS
<1>2. len = [idx |-> (i + 1) + 2, n |-> n]
  BY <1>1, NumberOnLine
<1> HIDE DEF len
<1>3. len.idx = i + 3 /\ len.n = n
  BY <1>1, <1>2
<1>4. ~isDataEnded(d, i + 1) /\ isNil(len.n)
  BY <1>1, <1>3 DEF isDataEnded, isNil
<1>5. parseBulkString(d, i) = Parsed(i + 3, Nil, "ErrNoValue")
  BY <1>3, <1>4 DEF parseBulkString, len
<1>6. QED
  BY <1>5 DEF parsePart

\* The error of the server.
LEMMA ErrorPart ==
    ASSUME NEW T, NEW d \in Seq(T), NEW i \in 1..Len(d) - 3, NEW parts,
           d[i] = "-", d[i + 1] # "CR", d[i + 2] = "CR", d[i + 3] = "LF"
    PROVE  parsePart(d, i, parts) = Parsed(i, Nil, "ErrRedisException")
<1>1. /\ i + 1 \in 1..Len(d) - 2 /\ (i + 1) + 1 = i + 2 /\ (i + 1) + 2 = i + 3
  OBVIOUS
<1>2. Scan(d, i + 1) = [idx |-> (i + 1) + 2, text |-> <<d[i + 1]>>, whole |-> TRUE]
  BY <1>1, ShortLine
<1>3. parseError(d, i) = Parsed(i, Nil, "ErrRedisException")
  BY <1>2 DEF parseError
<1>4. QED
  BY <1>3 DEF parsePart

\* Where the symbols of a bulk string are.
LEMMA BulkIs ==
    ASSUME NEW T, Marks \subseteq T, NEW v \in Seq(T), Len(v) <= MaxNumber
    PROVE  /\ Bulk(v) \in Seq(T) /\ Len(Bulk(v)) = Len(v) + 6
           /\ Bulk(v)[1] = "$" /\ Bulk(v)[2] = numeral[Len(v)]
           /\ Bulk(v)[3] = "CR" /\ Bulk(v)[4] = "LF"
           /\ \A k \in 1..Len(v) : Bulk(v)[4 + k] = v[k]
           /\ Bulk(v)[Len(v) + 5] = "CR" /\ Bulk(v)[Len(v) + 6] = "LF"
<1> DEFINE l == Line("$", Len(v))
           w == <<>>
           n == Len(v)
<1>1. n \in -1..MaxNumber /\ n \in Nat
  BY MaxNumberIsNat
<1>2. l \in Seq(T)
  <2>1. "$" \in T /\ numeral[n] \in T /\ "CR" \in T /\ "LF" \in T
    BY <1>1, MarksInAlphabet
  <2> HIDE DEF n
  <2>2. Line("$", n) \in Seq(T)
    BY <2>1, LineIs
  <2>3. QED
    BY <2>2 DEF n
<1>3. w \in Seq(T) /\ Len(w) = 0
  OBVIOUS
<1>4. w \o Line("$", Len(v)) = Line("$", Len(v))
  <2>1. l \in Seq(T)
    BY <1>2
  <2> HIDE DEF l
  <2>2. <<>> \o l = l
    BY <2>1, ConcatEmptySeq
  <2>3. QED
    BY <2>2 DEF l
<1> DEFINE d == Bulk(v)
<1>5. d = w \o Line("$", Len(v)) \o v \o CRLF
  BY <1>4 DEF Bulk
<1> HIDE DEF w, l, d
<1>6. w \in Seq(T)
  BY <1>3
<1>7. AppendedTo(T, w, v, d)
  BY <1>5, <1>6, Appended, Zenon
<1>8. QED
  BY <1>1, <1>3, <1>7 DEF n, d, AppendedTo

\* A bulk string of one symbol.
LEMMA WordIs ==
    ASSUME NEW T, Marks \subseteq T, NEW x \in T
    PROVE  /\ Bulk(<<x>>) \in Seq(T) /\ Len(Bulk(<<x>>)) = 7
           /\ Bulk(<<x>>)[1] = "$" /\ Bulk(<<x>>)[2] = numeral[1]
           /\ Bulk(<<x>>)[3] = "CR" /\ Bulk(<<x>>)[4] = "LF" /\ Bulk(<<x>>)[5] = x
           /\ Bulk(<<x>>)[6] = "CR" /\ Bulk(<<x>>)[7] = "LF"
<1> DEFINE v == <<x>>
<1>1. v \in Seq(T) /\ Len(v) = 1 /\ v[1] = x
  OBVIOUS
<1> HIDE DEF v
<1>2. v \in Seq(T) /\ Len(v) <= MaxNumber
  BY <1>1, MaxNumberIsNat
<1>3. /\ Bulk(v) \in Seq(T) /\ Len(Bulk(v)) = Len(v) + 6
      /\ Bulk(v)[1] = "$" /\ Bulk(v)[2] = numeral[Len(v)]
      /\ Bulk(v)[3] = "CR" /\ Bulk(v)[4] = "LF"
      /\ \A k \in 1..Len(v) : Bulk(v)[4 + k] = v[k]
      /\ Bulk(v)[Len(v) + 5] = "CR" /\ Bulk(v)[Len(v) + 6] = "LF"
  BY <1>2, BulkIs
<1>4. /\ Bulk(v) \in Seq(T) /\ Len(Bulk(v)) = 7
      /\ Bulk(v)[1] = "$" /\ Bulk(v)[2] = numeral[1]
      /\ Bulk(v)[3] = "CR" /\ Bulk(v)[4] = "LF" /\ Bulk(v)[5] = x
      /\ Bulk(v)[6] = "CR" /\ Bulk(v)[7] = "LF"
  BY <1>1, <1>3
<1>5. QED
  BY <1>4 DEF v

\* Where the symbols of the reply to HELLO are.
LEMMA HelloReplyIs ==
    ASSUME NEW T, Marks \subseteq T, "proto" \in T, "modules" \in T, NEW d, d = HelloReply
    PROVE  /\ d \in Seq(T) /\ Len(d) = 26
           /\ d[1] = "%" /\ d[2] = numeral[2] /\ d[3] = "CR" /\ d[4] = "LF"
           /\ d[5] = "$" /\ d[6] = numeral[1] /\ d[7] = "CR" /\ d[8] = "LF"
           /\ d[9] = "proto" /\ d[10] = "CR" /\ d[11] = "LF"
           /\ d[12] = ":" /\ d[13] = numeral[3] /\ d[14] = "CR" /\ d[15] = "LF"
           /\ d[16] = "$" /\ d[17] = numeral[1] /\ d[18] = "CR" /\ d[19] = "LF"
           /\ d[20] = "modules" /\ d[21] = "CR" /\ d[22] = "LF"
           /\ d[23] = "*" /\ d[24] = numeral[0] /\ d[25] = "CR" /\ d[26] = "LF"
<1> DEFINE l1 == Line("%", 2)
           b1 == Bulk(<<"proto">>)
           l2 == Line(":", 3)
           b2 == Bulk(<<"modules">>)
           l3 == Line("*", 0)
           s1 == l1 \o b1
           s2 == s1 \o l2
           s3 == s2 \o b2
           s4 == s3 \o l3
<1>1. /\ "%" \in T /\ ":" \in T /\ "*" \in T /\ "CR" \in T /\ "LF" \in T
      /\ numeral[0] \in T /\ numeral[2] \in T /\ numeral[3] \in T
  <2>1. 0 \in -1..MaxNumber /\ 2 \in -1..MaxNumber /\ 3 \in -1..MaxNumber
    BY MaxNumberIsNat
  <2>2. QED
    BY <2>1, MarksInAlphabet
<1>2. /\ l1 \in Seq(T) /\ Len(l1) = 4
      /\ l1[1] = "%" /\ l1[2] = numeral[2] /\ l1[3] = "CR" /\ l1[4] = "LF"
  BY <1>1, LineIs
<1>3. /\ l2 \in Seq(T) /\ Len(l2) = 4
      /\ l2[1] = ":" /\ l2[2] = numeral[3] /\ l2[3] = "CR" /\ l2[4] = "LF"
  BY <1>1, LineIs
<1>4. /\ l3 \in Seq(T) /\ Len(l3) = 4
      /\ l3[1] = "*" /\ l3[2] = numeral[0] /\ l3[3] = "CR" /\ l3[4] = "LF"
  BY <1>1, LineIs
<1>5. /\ b1 \in Seq(T) /\ Len(b1) = 7
      /\ b1[1] = "$" /\ b1[2] = numeral[1] /\ b1[3] = "CR" /\ b1[4] = "LF"
      /\ b1[5] = "proto" /\ b1[6] = "CR" /\ b1[7] = "LF"
  BY WordIs
<1>6. /\ b2 \in Seq(T) /\ Len(b2) = 7
      /\ b2[1] = "$" /\ b2[2] = numeral[1] /\ b2[3] = "CR" /\ b2[4] = "LF"
      /\ b2[5] = "modules" /\ b2[6] = "CR" /\ b2[7] = "LF"
  BY WordIs
<1>7. d = s4
  BY DEF HelloReply
<1> HIDE DEF l1, l2, l3, b1, b2
<1>8. l1 \in Seq(T) /\ l2 \in Seq(T) /\ l3 \in Seq(T) /\ b1 \in Seq(T) /\ b2 \in Seq(T)
  BY <1>2, <1>3, <1>4, <1>5, <1>6
<1>9. /\ s1 \in Seq(T) /\ Len(s1) = Len(l1) + Len(b1)
      /\ \A k \in 1..Len(l1) : s1[k] = l1[k]
      /\ \A k \in 1..Len(b1) : s1[Len(l1) + k] = b1[k]
  BY <1>8, Concat
<1>10. s1 \in Seq(T)
  BY <1>9
<1> HIDE DEF s1
<1>11. /\ s2 \in Seq(T) /\ Len(s2) = Len(s1) + Len(l2)
       /\ \A k \in 1..Len(s1) : s2[k] = s1[k]
       /\ \A k \in 1..Len(l2) : s2[Len(s1) + k] = l2[k]
  BY <1>8, <1>10, Concat
<1>12. s2 \in Seq(T)
  BY <1>11
<1> HIDE DEF s2
<1>13. /\ s3 \in Seq(T) /\ Len(s3) = Len(s2) + Len(b2)
       /\ \A k \in 1..Len(s2) : s3[k] = s2[k]
       /\ \A k \in 1..Len(b2) : s3[Len(s2) + k] = b2[k]
  BY <1>8, <1>12, Concat
<1>14. s3 \in Seq(T)
  BY <1>13
<1> HIDE DEF s3
<1>15. /\ s4 \in Seq(T) /\ Len(s4) = Len(s3) + Len(l3)
       /\ \A k \in 1..Len(s3) : s4[k] = s3[k]
       /\ \A k \in 1..Len(l3) : s4[Len(s3) + k] = l3[k]
  BY <1>8, <1>14, Concat
<1> HIDE DEF s4
<1>16. Len(s1) = 11 /\ Len(s2) = 15 /\ Len(s3) = 22 /\ Len(s4) = 26
  BY <1>2, <1>3, <1>4, <1>5, <1>6, <1>9, <1>11, <1>13, <1>15
<1>17. \A k \in 1..4 : s1[k] = l1[k] /\ s2[k] = l1[k] /\ s3[k] = l1[k] /\ s4[k] = l1[k]
  BY <1>2, <1>9, <1>11, <1>13, <1>15, <1>16
<1>18. \A k \in 1..7 : s4[4 + k] = b1[k]
  <2>1. \A k \in 1..7 : s1[4 + k] = b1[k]
    BY <1>2, <1>5, <1>9
  <2>2. \A k \in 1..11 : s2[k] = s1[k] /\ s3[k] = s2[k] /\ s4[k] = s3[k]
    BY <1>11, <1>13, <1>15, <1>16, SMTT(30)
  <2>3. \A k \in 1..7 : 4 + k \in 1..11
    OBVIOUS
  <2>4. QED
    BY <2>1, <2>2, <2>3
<1>19. \A k \in 1..4 : s4[11 + k] = l2[k]
  <2>1. \A k \in 1..4 : s2[11 + k] = l2[k]
    BY <1>3, <1>11, <1>16
  <2>2. \A k \in 1..15 : s3[k] = s2[k] /\ s4[k] = s3[k]
    BY <1>13, <1>15, <1>16
  <2>3. \A k \in 1..4 : 11 + k \in 1..15
    OBVIOUS
  <2>4. QED
    BY <2>1, <2>2, <2>3
<1>20. \A k \in 1..7 : s4[15 + k] = b2[k]
  <2>1. \A k \in 1..7 : s3[15 + k] = b2[k]
    BY <1>6, <1>13, <1>16
  <2>2. \A k \in 1..22 : s4[k] = s3[k]
    BY <1>15, <1>16
  <2>3. \A k \in 1..7 : 15 + k \in 1..22
    OBVIOUS
  <2>4. QED
    BY <2>1, <2>2, <2>3
<1>21. \A k \in 1..4 : s4[22 + k] = l3[k]
  BY <1>4, <1>15, <1>16
<1>22. /\ d[1] = "%" /\ d[2] = numeral[2] /\ d[3] = "CR" /\ d[4] = "LF"
  BY <1>2, <1>7, <1>17
<1>23. /\ d[5] = "$" /\ d[6] = numeral[1] /\ d[7] = "CR" /\ d[8] = "LF"
       /\ d[9] = "proto" /\ d[10] = "CR" /\ d[11] = "LF"
  BY <1>5, <1>7, <1>18
<1>24. /\ d[12] = ":" /\ d[13] = numeral[3] /\ d[14] = "CR" /\ d[15] = "LF"
  BY <1>3, <1>7, <1>19
<1>25. /\ d[16] = "$" /\ d[17] = numeral[1] /\ d[18] = "CR" /\ d[19] = "LF"
       /\ d[20] = "modules" /\ d[21] = "CR" /\ d[22] = "LF"
  BY <1>6, <1>7, <1>20
<1>26. /\ d[23] = "*" /\ d[24] = numeral[0] /\ d[25] = "CR" /\ d[26] = "LF"
  BY <1>4, <1>7, <1>21
<1>27. QED
  BY <1>7, <1>15, <1>16, <1>22, <1>23, <1>24, <1>25, <1>26

\* The reply to HELLO is a map.
LEMMA HelloPart ==
    ASSUME NEW T, Marks \subseteq T, "proto" \in T, "modules" \in T, NEW d, d = HelloReply
    PROVE  \E map : parsePart(d, 1, Parts(d)[Len(d) - 1]) = Parsed(26, Map(map), "nil")
<1> DEFINE parts == Parts(d)[25]
           below == Parts(d)[24]
<1>1. /\ d \in Seq(T) /\ Len(d) = 26
      /\ d[1] = "%" /\ d[2] = numeral[2] /\ d[3] = "CR" /\ d[4] = "LF"
      /\ d[5] = "$" /\ d[6] = numeral[1] /\ d[7] = "CR" /\ d[8] = "LF"
      /\ d[9] = "proto" /\ d[10] = "CR" /\ d[11] = "LF"
      /\ d[12] = ":" /\ d[13] = numeral[3] /\ d[14] = "CR" /\ d[15] = "LF"
      /\ d[16] = "$" /\ d[17] = numeral[1] /\ d[18] = "CR" /\ d[19] = "LF"
      /\ d[20] = "modules" /\ d[21] = "CR" /\ d[22] = "LF"
      /\ d[23] = "*" /\ d[24] = numeral[0] /\ d[25] = "CR" /\ d[26] = "LF"
  BY HelloReplyIs
<1>2. /\ 0 \in -1..MaxNumber /\ 1 \in -1..MaxNumber /\ 2 \in -1..MaxNumber
      /\ 3 \in -1..MaxNumber /\ 1 \in 0..MaxNumber
  BY MaxNumberIsNat
<1>3. Parts(d)[Len(d) - 1] = parts
  BY <1>1
<1> HIDE DEF parts, below
<1>4. \A i \in 1..26 : parts[i] = parsePart(d, i, below)
  <2> TAKE i \in 1..26
  <2>1. Len(d) \in Nat /\ 25 \in 1..Len(d) /\ i \in 1..Len(d)
    BY <1>1
  <2>2. Parts(d)[25][i] = parsePart(d, i, Parts(d)[25 - 1])
    BY <2>1, PartIs
  <2>3. QED
    BY <2>2 DEF parts, below
<1>5. parsePartLen(d, 2) = [idx |-> 4, n |-> 2]
  <2> DEFINE i == 2
             n == 2
  <2>1. i \in 1..Len(d) - 2 /\ d[i] = numeral[n] /\ d[i + 1] = "CR" /\ d[i + 2] = "LF"
    BY <1>1
  <2>2. d \in Seq(T) /\ n \in -1..MaxNumber
    BY <1>1, <1>2
  <2> HIDE DEF i, n
  <2>3. parsePartLen(d, i) = [idx |-> i + 2, n |-> n]
    BY <2>1, <2>2, NumberOnLine, Zenon
  <2>4. i + 2 = 4
    BY DEF i
  <2>5. QED
    BY <2>3, <2>4, Zenon DEF i, n
\* The first pair.
<1>6. parts[5] = Parsed(11, Bytes(SubSeq(d, 9, 9)), "nil")
  <2> DEFINE i == 5
             j == 10
  <2>1. /\ i \in 1..Len(d) /\ j \in i + 4..Len(d) - 1
        /\ d[i] = "$" /\ d[i + 1] = numeral[1] /\ d[i + 2] = "CR" /\ d[i + 3] = "LF"
        /\ \A k \in i + 4..j - 1 : d[k] # "CR"
        /\ d[j] = "CR" /\ d[j + 1] = "LF"
    BY <1>1
  <2>2. d \in Seq(T) /\ 1 \in 0..MaxNumber
    BY <1>1, <1>2
  <2> HIDE DEF i, j
  <2>3. parsePart(d, i, below) = Parsed(j + 1, Bytes(SubSeq(d, i + 4, j - 1)), "nil")
    BY <2>2, <2>1, BulkPart, Zenon
  <2>4. QED
    BY <1>4, <2>3 DEF i, j
<1>7. parts[12] = Parsed(15, Bytes(<<d[13]>>), "nil")
  <2> DEFINE i == 12
  <2>1. /\ i \in 1..Len(d) - 3 /\ (d[i] = "+" \/ d[i] = ":")
        /\ d[i + 1] = numeral[3] /\ d[i + 2] = "CR" /\ d[i + 3] = "LF"
    BY <1>1
  <2>2. d[i + 1] # "CR"
    BY <1>2, <2>1, NumeralAssumption
  <2>3. d \in Seq(T)
    BY <1>1
  <2> HIDE DEF i
  <2>4. parsePart(d, i, below) = Parsed(i + 3, Bytes(<<d[i + 1]>>), "nil")
    BY <2>3, <2>1, <2>2, SimplePart, Zenon
  <2>5. QED
    BY <1>4, <2>4 DEF i
\* The second pair.
<1>8. parts[16] = Parsed(22, Bytes(SubSeq(d, 20, 20)), "nil")
  <2> DEFINE i == 16
             j == 21
  <2>1. /\ i \in 1..Len(d) /\ j \in i + 4..Len(d) - 1
        /\ d[i] = "$" /\ d[i + 1] = numeral[1] /\ d[i + 2] = "CR" /\ d[i + 3] = "LF"
        /\ \A k \in i + 4..j - 1 : d[k] # "CR"
        /\ d[j] = "CR" /\ d[j + 1] = "LF"
    BY <1>1
  <2>2. d \in Seq(T) /\ 1 \in 0..MaxNumber
    BY <1>1, <1>2
  <2> HIDE DEF i, j
  <2>3. parsePart(d, i, below) = Parsed(j + 1, Bytes(SubSeq(d, i + 4, j - 1)), "nil")
    BY <2>2, <2>1, BulkPart, Zenon
  <2>4. QED
    BY <1>4, <2>3 DEF i, j
<1>9. parts[23] = Parsed(26, Array(0), "nil")
  <2>1. 24 \in 1..Len(d) - 2 /\ d[24 + 1] = "CR" /\ d[24 + 2] = "LF" /\ 24 + 2 = 26
    BY <1>1
  <2> DEFINE len == parsePartLen(d, 24)
  <2>2. len = [idx |-> 24 + 2, n |-> 0]
    BY <1>1, <1>2, <2>1, NumberOnLine, ZenonT(30)
  <2> HIDE DEF len
  <2>3. len.idx = 26 /\ len.n = 0
    BY <2>1, <2>2
  <2>4. ~isDataEnded(d, 24) /\ ~(len.n < 0) /\ len.n \in Nat
    BY <1>1, <2>3 DEF isDataEnded
  <2>5. Elements(d, len, below)[0] = Parsed(len.idx, Array(0), "nil")
    <3> DEFINE f == Elements(d, len, below)
    <3>1. f = [k \in 0..len.n |-> IF k = 0 THEN Parsed(len.idx, Array(0), "nil")
                  ELSE nextElement(d, f[k - 1], k, below)]
      <4>1. len.n \in Nat
        BY <2>4
      <4>2. QED
        BY <4>1, ElementsDef
    <3>2. 0 \in 0..len.n
      BY <2>3
    <3> HIDE DEF f
    <3>3. f[0] = Parsed(len.idx, Array(0), "nil")
      BY <3>1, <3>2
    <3>4. QED
      BY <3>3 DEF f
  <2>6. parseArray(d, 23, below) = Parsed(26, Array(0), "nil")
    <3>1. 23 + 1 = 24
      OBVIOUS
    <3>2. parseArray(d, 23, below) = Elements(d, len, below)[len.n]
      BY <2>4, <3>1, Zenon DEF parseArray, len
    <3>3. QED
      BY <2>3, <2>5, <3>2
  <2>7. parsePart(d, 23, below) = parseArray(d, 23, below)
    BY <1>1 DEF parsePart
  <2>8. QED
    BY <1>4, <2>6, <2>7
<1> DEFINE len == parsePartLen(d, 2)
           p == Pairs(d, len, parts)
<1>10. len.idx = 4 /\ len.n = 2
  BY <1>5
<1>11. p = [k \in 0..len.n |-> IF k = 0 THEN Parsed(len.idx, Map(<<>>), "nil")
                               ELSE nextPair(d, p[k - 1], parts)]
  <2> HIDE DEF len
  <2>1. len.n \in Nat
    BY <1>10
  <2>2. QED
    BY <2>1, PairsDef
<1> HIDE DEF len, p
<1>12. /\ p[0] = Parsed(4, Map(<<>>), "nil")
       /\ p[1] = nextPair(d, p[0], parts) /\ p[2] = nextPair(d, p[1], parts)
  <2>1. 0 \in 0..len.n /\ 1 \in 0..len.n /\ 2 \in 0..len.n /\ 1 - 1 = 0 /\ 2 - 1 = 1
    BY <1>10
  <2>2. p[0] = Parsed(len.idx, Map(<<>>), "nil")
    BY <1>11, <2>1
  <2>3. p[1] = nextPair(d, p[0], parts)
    BY <1>11, <2>1
  <2>4. p[2] = nextPair(d, p[1], parts)
    BY <1>11, <2>1
  <2>5. QED
    BY <1>10, <2>2, <2>3, <2>4
<1>13. ASSUME NEW before, NEW k \in 1..24, before.idx + 1 = k, before.err = "nil",
              NEW j \in k..24, parts[k].idx = j, parts[k].object.type = "[]byte",
              parts[k].err = "nil", parts[j + 1].err = "nil"
       PROVE  \E map : nextPair(d, before, parts) = Parsed(parts[j + 1].idx, Map(map), "nil")
  <2> DEFINE pair == parseMapKeyAndValue(d, k, parts)
  <2>1. ~isDataEnded(d, k) /\ ~isDataEnded(d, j + 1)
    BY <1>1 DEF isDataEnded
  <2>2. partAt(d, j + 1, parts) = parts[j + 1]
    BY <2>1, Zenon DEF partAt
  <2>3. pair = [idx |-> parts[j + 1].idx, key |-> parts[k].object.text,
                value |-> parts[j + 1].object.text, err |-> "nil"]
    BY <1>13, <2>2 DEF parseMapKeyAndValue, lastErr
  <2>4. pair.idx = parts[j + 1].idx /\ pair.err = "nil"
    BY <2>3
  <2>5. nextPair(d, before, parts)
            = Parsed(pair.idx, Map(Updated(before.object.map, pair.key, pair.value)),
                     lastErr(before.err, pair.err))
    BY <1>13, <2>1, Zenon DEF nextPair
  <2>6. lastErr(before.err, pair.err) = "nil"
    BY <1>13, <2>4 DEF lastErr
  <2>7. nextPair(d, before, parts)
            = Parsed(parts[j + 1].idx, Map(Updated(before.object.map, pair.key, pair.value)),
                     "nil")
    BY <2>4, <2>5, <2>6
  <2> HIDE DEF pair
  <2>8. QED
    BY <2>7
<1>14. p[0].idx = 4 /\ p[0].err = "nil"
  BY <1>12 DEF Parsed
<1>15. \E map : p[1] = Parsed(15, Map(map), "nil")
  <2>1. /\ p[0].idx + 1 = 5 /\ parts[5].idx = 11 /\ parts[5].object.type = "[]byte"
        /\ parts[5].err = "nil"
    BY <1>6, <1>14 DEF Parsed, Bytes, Object
  <2>2. parts[11 + 1].idx = 15 /\ parts[11 + 1].err = "nil"
    BY <1>7 DEF Parsed
  <2>3. 5 \in 1..24 /\ 11 \in 5..24
    OBVIOUS
  <2>4. \E map : nextPair(d, p[0], parts) = Parsed(parts[11 + 1].idx, Map(map), "nil")
    BY <1>13, <1>14, <2>1, <2>2, <2>3, Zenon
  <2>5. QED
    BY <1>12, <2>2, <2>4
<1>16. \E map : p[2] = Parsed(26, Map(map), "nil")
  <2>0. p[1].idx = 15 /\ p[1].err = "nil"
    BY <1>15 DEF Parsed
  <2>1. /\ p[1].idx + 1 = 16 /\ parts[16].idx = 22 /\ parts[16].object.type = "[]byte"
        /\ parts[16].err = "nil"
    BY <1>8, <2>0 DEF Parsed, Bytes, Object
  <2>2. parts[22 + 1].idx = 26 /\ parts[22 + 1].err = "nil"
    BY <1>9 DEF Parsed
  <2>3. 16 \in 1..24 /\ 22 \in 16..24
    OBVIOUS
  <2>4. \E map : nextPair(d, p[1], parts) = Parsed(parts[22 + 1].idx, Map(map), "nil")
    BY <1>13, <2>0, <2>1, <2>2, <2>3, Zenon
  <2>5. QED
    BY <1>12, <2>2, <2>4
<1>17. parseMap(d, 1, parts) = p[2]
  <2>1. 1 + 1 = 2 /\ ~isDataEnded(d, 2) /\ ~(len.n <= 0)
    BY <1>1, <1>10 DEF isDataEnded
  <2>2. parseMap(d, 1, parts) = Pairs(d, len, parts)[len.n]
    BY <2>1, Zenon DEF parseMap, len
  <2>3. QED
    BY <1>10, <2>2 DEF p
<1>18. parsePart(d, 1, parts) = parseMap(d, 1, parts)
  BY <1>1 DEF parsePart
<1>19. QED
  BY <1>3, <1>16, <1>17, <1>18

\* A reply is decoded as its first part is.
LEMMA DecodeIs ==
    ASSUME NEW d, Len(d) \in Nat, Len(d) # 0, d # <<>>
    PROVE  LET p == parsePart(d, 1, Parts(d)[Len(d) - 1])
           IN  Decode(d, "nil") = [object |-> IF p.err = "nil" THEN p.object ELSE Nil,
                                   err |-> p.err, decodingErr |-> "nil"]
<1> DEFINE p == parsePart(d, 1, Parts(d)[Len(d) - 1])
           q == partAt(d, 1, Parts(d)[Len(d)])
           e == lastErr("nil", p.err)
<1>1. q = p
  BY FirstPart
<1>2. e = p.err
  BY DEF lastErr
<1> HIDE DEF p
<1>3. Decode(d, "nil") = [object |-> IF e = "nil" THEN p.object ELSE Nil,
                          err |-> e, decodingErr |-> "nil"]
  BY <1>1 DEF Decode, getDecodingErr
<1> HIDE DEF e
<1>4. QED
  BY <1>2, <1>3 DEF p

\* A part without an error is the object of the reply.
LEMMA DecodesValue ==
    ASSUME NEW d, Len(d) \in Nat, Len(d) # 0, d # <<>>, NEW i, NEW object,
           parsePart(d, 1, Parts(d)[Len(d) - 1]) = Parsed(i, object, "nil")
    PROVE  Decode(d, "nil") = [object |-> object, err |-> "nil", decodingErr |-> "nil"]
BY DecodeIs DEF Parsed

\* The error of a part is the error of the reply.
LEMMA DecodesFailure ==
    ASSUME NEW d, Len(d) \in Nat, Len(d) # 0, d # <<>>, NEW i, NEW object, NEW err,
           parsePart(d, 1, Parts(d)[Len(d) - 1]) = Parsed(i, object, err), err # "nil"
    PROVE  Decode(d, "nil") = [object |-> Nil, err |-> err, decodingErr |-> "nil"]
BY DecodeIs DEF Parsed

\* What is not of length 0 is not empty.
LEMMA NonEmpty ==
    ASSUME NEW d, Len(d) # 0
    PROVE  d # <<>>
OBVIOUS

\* A sequence of one symbol.
LEMMA Single ==
    ASSUME NEW T, NEW x \in T
    PROVE  <<x>> \in Seq(T) /\ Len(<<x>>) = 1 /\ <<x>>[1] = x
OBVIOUS

\* The answer of a server that did what it was asked to.
LEMMA DecodesWord ==
    ASSUME NEW T, Marks \subseteq T, NEW word \in T, word # "CR",
           NEW d, d = TwoOnLine("+", word)
    PROVE  /\ d # <<>>
           /\ Decode(d, "nil") = [object |-> Bytes(<<word>>), err |-> "nil",
                                  decodingErr |-> "nil"]
<1>1. "+" \in T /\ "CR" \in T /\ "LF" \in T
  BY MarksInAlphabet
<1>2. /\ d \in Seq(T) /\ Len(d) = 4
      /\ d[1] = "+" /\ d[2] = word /\ d[3] = "CR" /\ d[4] = "LF"
  BY <1>1, LineOfTwo
<1> DEFINE i == 1
           parts == Parts(d)[Len(d) - 1]
<1>3. d \in Seq(T) /\ i \in 1..Len(d) - 3 /\ (d[i] = "+" \/ d[i] = ":")
      /\ d[i + 1] # "CR" /\ d[i + 2] = "CR" /\ d[i + 3] = "LF"
  BY <1>2
<1> HIDE DEF i, parts
<1>4. parsePart(d, i, parts) = Parsed(i + 3, Bytes(<<d[i + 1]>>), "nil")
  BY <1>3, SimplePart, Zenon
<1>5. parsePart(d, 1, parts) = Parsed(4, Bytes(<<word>>), "nil")
  BY <1>2, <1>4 DEF i
<1>6. Len(d) \in Nat /\ Len(d) # 0 /\ d # <<>>
  BY <1>2
<1>7. QED
  BY <1>5, <1>6, DecodeIs DEF parts, Parsed

\* The error of the server.
LEMMA DecodesError ==
    ASSUME NEW T, Marks \subseteq T, "ERR" \in T, NEW d
    PROVE  d = ErrorReply =>
              /\ d \in Seq(T) /\ d # <<>>
                  /\ Decode(d, "nil") = [object |-> Nil, err |-> "ErrRedisException",
                                         decodingErr |-> "nil"]
<1>1. ASSUME d = ErrorReply
      PROVE  /\ d \in Seq(T) /\ d # <<>>
             /\ Decode(d, "nil") = [object |-> Nil, err |-> "ErrRedisException",
                                    decodingErr |-> "nil"]
  <2>1. "-" \in T /\ "CR" \in T /\ "LF" \in T /\ d = TwoOnLine("-", "ERR")
    BY <1>1, MarksInAlphabet DEF ErrorReply, TwoOnLine
  <2>2. /\ d \in Seq(T) /\ Len(d) = 4
        /\ d[1] = "-" /\ d[2] = "ERR" /\ d[3] = "CR" /\ d[4] = "LF"
    BY <2>1, LineOfTwo
  <2> DEFINE i == 1
             parts == Parts(d)[Len(d) - 1]
  <2>3. d \in Seq(T) /\ i \in 1..Len(d) - 3 /\ d[i] = "-"
        /\ d[i + 1] # "CR" /\ d[i + 2] = "CR" /\ d[i + 3] = "LF"
    BY <2>2
  <2> HIDE DEF i, parts
  <2>4. parsePart(d, i, parts) = Parsed(i, Nil, "ErrRedisException")
    BY <2>3, ErrorPart, Zenon
  <2>5. parsePart(d, 1, parts) = Parsed(1, Nil, "ErrRedisException")
    BY <2>4 DEF i
  <2>6. Len(d) \in Nat /\ Len(d) # 0 /\ d # <<>>
    BY <2>2, NonEmpty
  <2>7. "ErrRedisException" # "nil"
    OBVIOUS
  <2>8. Decode(d, "nil") = [object |-> Nil, err |-> "ErrRedisException", decodingErr |-> "nil"]
    BY <2>5, <2>6, <2>7, DecodesFailure, Zenon DEF parts
  <2>9. QED
    BY <2>2, <2>6, <2>8, Zenon
<1>2. QED
  BY <1>1

\* The nil of RESP2.
LEMMA DecodesNullBulk ==
    ASSUME NEW T, Marks \subseteq T, NEW n \in -1..MaxNumber, n < 0,
           NEW d, d = Line("$", n)
    PROVE  /\ d \in Seq(T) /\ d # <<>>
           /\ Decode(d, "nil") = [object |-> Nil, err |-> "ErrNoValue", decodingErr |-> "nil"]
<1>1. "$" \in T /\ "CR" \in T /\ "LF" \in T /\ numeral[n] \in T
  BY MarksInAlphabet
<1>2. /\ d \in Seq(T) /\ Len(d) = 4
      /\ d[1] = "$" /\ d[2] = numeral[n] /\ d[3] = "CR" /\ d[4] = "LF"
  BY <1>1, LineIs
<1> DEFINE i == 1
           parts == Parts(d)[Len(d) - 1]
<1>3. d \in Seq(T) /\ i \in 1..Len(d) - 3 /\ d[i] = "$"
      /\ d[i + 1] = numeral[n] /\ d[i + 2] = "CR" /\ d[i + 3] = "LF"
  BY <1>2
<1> HIDE DEF i, parts
<1>4. parsePart(d, i, parts) = Parsed(i + 3, Nil, "ErrNoValue")
  BY <1>3, NullBulkPart, Zenon
<1>5. parsePart(d, 1, parts) = Parsed(4, Nil, "ErrNoValue")
  BY <1>4 DEF i
<1>6. Len(d) \in Nat /\ Len(d) # 0 /\ d # <<>>
  BY <1>2
<1>7. QED
  BY <1>2, <1>5, <1>6, DecodeIs DEF parts, Parsed

\* The nil of RESP3.
Null == <<"_">> \o CRLF

\* It has no value either.
LEMMA DecodesNull ==
    ASSUME NEW T, Marks \subseteq T, NEW d
    PROVE  d = Null =>
              /\ d \in Seq(T) /\ d # <<>>
                  /\ Decode(d, "nil") = [object |-> Nil, err |-> "ErrNoValue", decodingErr |-> "nil"]
<1>1. ASSUME d = Null
      PROVE  /\ d \in Seq(T) /\ d # <<>>
             /\ Decode(d, "nil") = [object |-> Nil, err |-> "ErrNoValue", decodingErr |-> "nil"]
  <2> DEFINE s == <<"_">>
             parts == Parts(d)[Len(d) - 1]
  <2>1. "_" \in T
    BY MarksInAlphabet
  <2>2. s \in Seq(T) /\ Len(s) = 1 /\ s[1] = "_"
    BY <2>1, Single, Zenon
  <2>3. CRLF \in Seq(T) /\ Len(CRLF) = 2
    BY CRLFIs, MarksInAlphabet
  <2>4. d = s \o CRLF
    BY <1>1 DEF Null
  <2> HIDE DEF s, parts
  <2>5. s \in Seq(T) /\ CRLF \in Seq(T)
    BY <2>2, <2>3
  <2>6. /\ s \o CRLF \in Seq(T) /\ Len(s \o CRLF) = Len(s) + Len(CRLF)
        /\ \A k \in 1..Len(s) : (s \o CRLF)[k] = s[k]
    BY <2>5, Concat
  <2>7. Len(s) = 1
    BY <2>2, Zenon
  <2>8. d \in Seq(T) /\ Len(d) = 3 /\ d[1] = s[1]
    BY <2>7, <2>3, <2>6, <2>4
  <2>9. d[1] = "_"
    BY <2>2, <2>8, Zenon
  <2>10. parsePart(d, 1, parts) = Parsed(1, Nil, "ErrNoValue")
    BY <2>9, NullPart, Zenon
  <2>11. Len(d) \in Nat /\ Len(d) # 0
    BY <2>8
  <2>12. d # <<>>
    BY <2>11, NonEmpty, Zenon
  <2>13. "ErrNoValue" # "nil"
    OBVIOUS
  <2>14. Decode(d, "nil") = [object |-> Nil, err |-> "ErrNoValue", decodingErr |-> "nil"]
    BY <2>10, <2>11, <2>12, <2>13, DecodesFailure, Zenon DEF parts
  <2>15. QED
    BY <2>8, <2>12, <2>14, Zenon
<1>2. QED
  BY <1>1

\* A value without CR is decoded as it is.
LEMMA DecodesBulk ==
    ASSUME NEW T, Marks \subseteq T, NEW v \in Seq(T), Len(v) <= MaxNumber,
           \A k \in 1..Len(v) : v[k] # "CR", NEW d, d = Bulk(v)
    PROVE  Decode(d, "nil") = [object |-> Bytes(v), err |-> "nil", decodingErr |-> "nil"]
<1>1. /\ d \in Seq(T) /\ Len(d) = Len(v) + 6
      /\ d[1] = "$" /\ d[2] = numeral[Len(v)] /\ d[3] = "CR" /\ d[4] = "LF"
      /\ \A k \in 1..Len(v) : d[4 + k] = v[k]
      /\ d[Len(v) + 5] = "CR" /\ d[Len(v) + 6] = "LF"
  BY BulkIs
<1> DEFINE i == 1
           j == Len(v) + 5
           n == Len(v)
           parts == Parts(d)[Len(d) - 1]
<1>2. n \in Nat /\ n \in 0..MaxNumber
  BY MaxNumberIsNat
<1>3. /\ d \in Seq(T) /\ i \in 1..Len(d) /\ j \in i + 4..Len(d) - 1
      /\ d[i] = "$" /\ d[i + 1] = numeral[n] /\ d[i + 2] = "CR" /\ d[i + 3] = "LF"
      /\ d[j] = "CR" /\ d[j + 1] = "LF"
  BY <1>1, <1>2
<1>4. \A k \in i + 4..j - 1 : d[k] # "CR"
  <2> TAKE k \in i + 4..j - 1
  <2>1. k - 4 \in 1..n /\ 4 + (k - 4) = k
    BY <1>2
  <2>2. QED
    BY <1>1, <2>1
<1>5. SubSeq(d, i + 4, j - 1) = v
  <2> DEFINE w == SubSeq(d, i + 4, j - 1)
  <2>1. w \in Seq(T) /\ Len(w) = n /\ \A k \in 1..n : w[k] = d[4 + k]
    BY <1>1, <1>2
  <2> HIDE DEF w
  <2>2. \A k \in 1..n : w[k] = v[k]
    BY <1>1, <2>1
  <2>3. w = v
    BY <2>1, <2>2, SeqEqual
  <2>4. QED
    BY <2>3 DEF w
<1> HIDE DEF i, j, n, parts
<1>6. parsePart(d, i, parts) = Parsed(j + 1, Bytes(SubSeq(d, i + 4, j - 1)), "nil")
  BY <1>2, <1>3, <1>4, BulkPart, Zenon
<1>7. parsePart(d, 1, parts) = Parsed(j + 1, Bytes(v), "nil")
  BY <1>5, <1>6 DEF i
<1>8. Len(d) \in Nat /\ Len(d) # 0 /\ d # <<>>
  BY <1>1
<1>9. QED
  BY <1>7, <1>8, DecodeIs DEF parts, Parsed

\* The answer to HELLO.
LEMMA DecodesHello ==
    ASSUME NEW T, Marks \subseteq T, "proto" \in T, "modules" \in T, NEW d
    PROVE  d = HelloReply =>
              /\ d \in Seq(T) /\ d # <<>>
                  /\ \E map : Decode(d, "nil") = [object |-> Map(map), err |-> "nil",
                                                  decodingErr |-> "nil"]
<1>1. ASSUME d = HelloReply
      PROVE  /\ d \in Seq(T) /\ d # <<>>
             /\ \E map : Decode(d, "nil") = [object |-> Map(map), err |-> "nil",
                                             decodingErr |-> "nil"]
  <2> DEFINE parts == Parts(d)[Len(d) - 1]
  <2>1. d \in Seq(T) /\ Len(d) = 26
    BY <1>1, HelloReplyIs
  <2>2. Len(d) \in Nat /\ Len(d) # 0 /\ d # <<>>
    <3> HIDE DEF parts
    <3>1. Len(d) \in Nat /\ Len(d) # 0
      BY <2>1
    <3>2. d # <<>>
      BY <3>1, NonEmpty, Zenon
    <3>3. QED
      BY <3>1, <3>2
  <2>3. PICK map : parsePart(d, 1, parts) = Parsed(26, Map(map), "nil")
    BY <1>1, HelloPart
  <2> HIDE DEF parts
  <2>4. Decode(d, "nil") = [object |-> Map(map), err |-> "nil", decodingErr |-> "nil"]
    BY <2>2, <2>3, DecodeIs DEF parts, Parsed
  <2>5. QED
    BY <2>1, <2>2, <2>4
<1>2. QED
  BY <1>1

-----------------------------------------------------------------------------
\* Whatever is read as a number is one that can be.
LEMMA AtoiType ==
    ASSUME NEW text
    PROVE  Atoi(text) \in -1..MaxNumber
<1>1. 0 \in -1..MaxNumber
  BY MaxNumberIsNat
<1>2. CASE \E n \in -1..MaxNumber : text = Itoa(n)
  <2> DEFINE found == CHOOSE n \in -1..MaxNumber : text = Itoa(n)
  <2>1. found \in -1..MaxNumber
    BY <1>2, Zenon
  <2>2. Atoi(text) = found
    BY <1>2, Zenon DEF Atoi
  <2>3. QED
    BY <2>1, <2>2, Zenon
<1>3. CASE ~\E n \in -1..MaxNumber : text = Itoa(n)
  <2>1. Atoi(text) = 0
    BY <1>3, Zenon DEF Atoi
  <2>2. QED
    BY <1>1, <2>1, Zenon
<1>4. QED
  BY <1>2, <1>3

\* The same of a length.
LEMMA PartLenType ==
    ASSUME NEW T, NEW d \in Seq(T), NEW i \in 1..Len(d) + 1
    PROVE  /\ parsePartLen(d, i).idx \in i..Len(d) + 1
           /\ parsePartLen(d, i).n \in -1..MaxNumber
<1> DEFINE s == Scan(d, i)
<1>1. s.idx \in i..Len(d) + 1
  BY ScanType
<1>2. 0 \in -1..MaxNumber /\ Atoi(s.text) \in -1..MaxNumber
  BY MaxNumberIsNat, AtoiType
<1> HIDE DEF s
<1>3. parsePartLen(d, i) = [idx |-> s.idx, n |-> IF s.whole THEN Atoi(s.text) ELSE 0]
  BY DEF parsePartLen, s
<1>4. QED
  BY <1>1, <1>2, <1>3

\* An array stays an array, a map a map, whatever their elements are.
LEMMA CollectionTypes ==
    ASSUME NEW d, NEW len, NEW parts, len.n \in Nat
    PROVE  /\ Elements(d, len, parts)[len.n].object.type = "[]any"
           /\ Pairs(d, len, parts)[len.n].object.type = "map"
<1> DEFINE a == Elements(d, len, parts)
           b == Pairs(d, len, parts)
           S == {k \in Nat : k \in 0..len.n => a[k].object.type = "[]any"
                                               /\ b[k].object.type = "map"}
<1>1. a = [k \in 0..len.n |-> IF k = 0 THEN Parsed(len.idx, Array(0), "nil")
                              ELSE nextElement(d, a[k - 1], k, parts)]
  BY ElementsDef
<1>2. b = [k \in 0..len.n |-> IF k = 0 THEN Parsed(len.idx, Map(<<>>), "nil")
                              ELSE nextPair(d, b[k - 1], parts)]
  BY PairsDef
<1>3. \A before, k : nextElement(d, before, k, parts).object.type
                         \in {before.object.type, "[]any"}
  BY DEF nextElement, Parsed, Array, Object
<1>4. \A before : nextPair(d, before, parts).object.type \in {before.object.type, "map"}
  BY DEF nextPair, Parsed, Map, Object
<1> HIDE DEF a, b
<1>5. 0 \in S
  <2>1. 0 \in 0..len.n
    OBVIOUS
  <2>2. a[0] = Parsed(len.idx, Array(0), "nil") /\ b[0] = Parsed(len.idx, Map(<<>>), "nil")
    BY <1>1, <1>2, <2>1
  <2>3. a[0].object.type = "[]any" /\ b[0].object.type = "map"
    BY <2>2 DEF Parsed, Array, Map, Object
  <2>4. QED
    BY <2>3
<1>6. ASSUME NEW k \in Nat, k \in S PROVE k + 1 \in S
  <2>1. SUFFICES ASSUME k + 1 \in 0..len.n
                 PROVE  a[k + 1].object.type = "[]any" /\ b[k + 1].object.type = "map"
    OBVIOUS
  <2>2. k \in 0..len.n /\ k + 1 # 0 /\ (k + 1) - 1 = k
    BY <2>1
  <2>3. a[k].object.type = "[]any" /\ b[k].object.type = "map"
    BY <1>6, <2>2
  <2>4. /\ a[k + 1] = nextElement(d, a[k], k + 1, parts)
        /\ b[k + 1] = nextPair(d, b[k], parts)
    BY <1>1, <1>2, <2>1, <2>2
  <2>5. /\ nextElement(d, a[k], k + 1, parts).object.type = "[]any"
        /\ nextPair(d, b[k], parts).object.type = "map"
    BY <1>3, <1>4, <2>3
  <2>6. QED
    BY <2>4, <2>5
<1>7. len.n \in S
  <2> HIDE DEF S
  <2>1. QED
    BY <1>5, <1>6, Induction
<1>8. QED
  BY <1>7 DEF a, b

\* What is decoded as text is made of symbols of the data.
LEMMA PartText ==
    ASSUME NEW T, NEW d \in Seq(T), NEW i \in 1..Len(d), NEW parts,
           parsePart(d, i, parts).object.type = "[]byte"
    PROVE  parsePart(d, i, parts).object.text \in Seq(T)
<1> DEFINE p == parsePart(d, i, parts)
           len == parsePartLen(d, i + 1)
<1>1. i + 1 \in 1..Len(d) + 1
  OBVIOUS
<1>2. Scan(d, i + 1).text \in Seq(T)
  BY <1>1, ScanType
<1>3. len.idx \in i + 1..Len(d) + 1 /\ len.n \in Int
  <2>1. len.n \in -1..MaxNumber /\ len.idx \in i + 1..Len(d) + 1
    BY <1>1, PartLenType
  <2>2. QED
    BY <2>1, MaxNumberIsNat
<1> HIDE DEF len
<1>4. <<>> \in Seq(T)
  OBVIOUS
<1>5. parseSimpleString(d, i).object.text \in Seq(T)
  BY <1>2, <1>4 DEF parseSimpleString, Parsed, Bytes, Nil, Object
<1>6. parseInteger(d, i).object.text \in Seq(T)
  BY <1>2 DEF parseInteger, Parsed, Bytes, Object
<1>7. parseBulkString(d, i).object.text \in Seq(T)
  <2>0. Nil.text = <<>> /\ \A text : Bytes(text).text = text
    BY DEF Nil, Bytes, Object
  <2>1. CASE isDataEnded(d, len.idx + 1)
    <3>1. parseBulkString(d, i).object \in {Nil, Bytes(<<>>)}
      BY <2>1 DEF parseBulkString, Parsed, len
    <3>2. QED
      BY <1>4, <2>0, <3>1, Zenon
  <2>2. CASE ~isDataEnded(d, len.idx + 1)
    <3>1. len.idx + 1 \in 1..Len(d) + 1
      BY <1>3, <2>2 DEF isDataEnded
    <3>2. Scan(d, len.idx + 1).text \in Seq(T)
      BY <3>1, ScanType
    <3>3. parseBulkString(d, i).object \in {Nil, Bytes(Scan(d, len.idx + 1).text)}
      BY <2>2 DEF parseBulkString, Parsed, len
    <3>4. QED
      BY <1>4, <2>0, <3>2, <3>3, Zenon
  <2>3. QED
    BY <2>1, <2>2
<1>8. parseMap(d, i, parts).object.type # "[]byte"
  <2>1. CASE isDataEnded(d, i + 1)
    BY <2>1 DEF parseMap, Parsed, Nil, Object
  <2>2. CASE ~isDataEnded(d, i + 1) /\ len.n <= 0
    BY <2>2 DEF parseMap, Parsed, Map, Object, len
  <2>3. CASE ~isDataEnded(d, i + 1) /\ ~(len.n <= 0)
    <3>1. parseMap(d, i, parts) = Pairs(d, len, parts)[len.n]
      BY <2>3, Zenon DEF parseMap, len
    <3>2. len.n \in Nat
      BY <1>3, <2>3
    <3>3. QED
      BY <3>1, <3>2, CollectionTypes
  <2>4. QED
    BY <2>1, <2>2, <2>3
<1>9. parseArray(d, i, parts).object.type # "[]byte"
  <2>1. CASE isDataEnded(d, i + 1)
    BY <2>1 DEF parseArray, Parsed, Nil, Object
  <2>2. CASE ~isDataEnded(d, i + 1) /\ len.n < 0
    BY <2>2 DEF parseArray, Parsed, Nil, Object, len
  <2>3. CASE ~isDataEnded(d, i + 1) /\ ~(len.n < 0)
    <3>1. parseArray(d, i, parts) = Elements(d, len, parts)[len.n]
      BY <2>3, Zenon DEF parseArray, len
    <3>2. len.n \in Nat
      BY <1>3, <2>3
    <3>3. QED
      BY <3>1, <3>2, CollectionTypes
  <2>4. QED
    BY <2>1, <2>2, <2>3
<1>10. parseError(d, i).object.type # "[]byte"
  BY DEF parseError, Parsed, Nil, Object
<1>11. /\ Parsed(1, Nil, "ErrNoValue").object.type # "[]byte"
       /\ Parsed(i, Nil, "ErrUnsupportedDataType").object.type # "[]byte"
  BY DEF Parsed, Nil, Object
<1>12. \/ p = parseSimpleString(d, i) \/ p = parseBulkString(d, i)
       \/ p = parseMap(d, i, parts) \/ p = parseInteger(d, i)
       \/ p = parseArray(d, i, parts) \/ p = Parsed(1, Nil, "ErrNoValue")
       \/ p = parseError(d, i) \/ p = Parsed(i, Nil, "ErrUnsupportedDataType")
  BY Zenon DEF parsePart
<1> HIDE DEF p
<1>13. p.object.type = "[]byte" => p.object.text \in Seq(T)
  BY <1>5, <1>6, <1>7, <1>8, <1>9, <1>10, <1>11, <1>12
<1>14. QED
  BY <1>13 DEF p

\* The same of a reply.
LEMMA DecodedText ==
    ASSUME NEW T, NEW d \in Seq(T), NEW err, Decode(d, err).object.type = "[]byte"
    PROVE  Decode(d, err).object.text \in Seq(T)
<1> DEFINE p == partAt(d, 1, Parts(d)[Len(d)])
           first == parsePart(d, 1, Parts(d)[Len(d) - 1])
<1>1. Decode(d, err).object \in {p.object, Nil}
  BY DEF Decode
<1>2. Nil.type # "[]byte"
  BY DEF Nil, Object
<1>3. CASE Len(d) = 0
  <2>1. isDataEnded(d, 1)
    BY <1>3 DEF isDataEnded
  <2>2. p.object = Nil
    BY <2>1 DEF partAt, Parsed
  <2>3. QED
    BY <1>1, <1>2, <2>2
<1>4. CASE Len(d) # 0
  <2>1. p = first
    BY <1>4, FirstPart, NonEmpty
  <2>2. 1 \in 1..Len(d)
    BY <1>4
  <2>3. first.object.type = "[]byte" => first.object.text \in Seq(T)
    BY <2>2, PartText
  <2> HIDE DEF p, first
  <2>4. QED
    BY <1>1, <1>2, <2>1, <2>3
<1>5. QED
  BY <1>3, <1>4

-----------------------------------------------------------------------------
\* The bytes of d begin with those of w.
Extends(T, d, w) ==
    d \in Seq(T) /\ Len(w) <= Len(d) /\ \A k \in 1..Len(w) : d[k] = w[k]

\* What was written before a string is still there after it.
LEMMA ExtendsBefore ==
    ASSUME NEW T, NEW w \in Seq(T), NEW v \in Seq(T), NEW e, NEW d,
           AppendedTo(T, w, v, e), Extends(T, d, e)
    PROVE  Extends(T, d, w)
<1>1. /\ Len(e) = Len(w) + Len(v) + 6 /\ \A k \in 1..Len(w) : e[k] = w[k]
      /\ Len(w) \in Nat /\ Len(v) \in Nat
  BY DEF AppendedTo
<1>2. /\ d \in Seq(T) /\ Len(e) <= Len(d) /\ \A k \in 1..Len(e) : d[k] = e[k]
      /\ Len(d) \in Nat
  BY DEF Extends
<1>3. \A k \in 1..Len(w) : k \in 1..Len(e)
  BY <1>1
<1>4. Len(w) <= Len(d)
  BY <1>1, <1>2
<1>5. \A k \in 1..Len(w) : d[k] = w[k]
  BY <1>1, <1>2, <1>3
<1>6. QED
  BY <1>2, <1>4, <1>5 DEF Extends

\* After the bytes w the server reads v from d, up to where e ends.
ReadsString(d, w, v, e, strings) ==
    ReadString(d, [next |-> Len(w) + 1, ok |-> TRUE, strings |-> strings])
        = [next |-> Len(e) + 1, ok |-> TRUE, strings |-> Append(strings, v)]

\* The server reads the string that was written, by its length, and nothing else.
LEMMA ReadStringIs ==
    ASSUME NEW T, NEW w \in Seq(T), NEW v \in Seq(T), Len(v) <= MaxNumber, NEW e, NEW d,
           AppendedTo(T, w, v, e), Extends(T, d, e), NEW strings
    PROVE  ReadsString(d, w, v, e, strings)
<1> DEFINE read == [next |-> Len(w) + 1, ok |-> TRUE, strings |-> strings]
           at == read.next
           len == Atoi(<<d[at + 1]>>)
           m == Len(w)
           n == Len(v)
<1>1. m \in Nat /\ n \in Nat /\ n \in -1..MaxNumber
  BY MaxNumberIsNat
<1>2. /\ Len(e) = m + n + 6
      /\ e[m + 1] = "$" /\ e[m + 2] = numeral[n]
      /\ \A k \in 1..n : e[m + 4 + k] = v[k]
      /\ e[m + n + 5] = "CR" /\ e[m + n + 6] = "LF"
  BY DEF AppendedTo
<1>3. /\ d \in Seq(T) /\ Len(e) <= Len(d) /\ \A k \in 1..Len(e) : d[k] = e[k]
      /\ Len(d) \in Nat
  BY DEF Extends
<1>4. at = m + 1 /\ read.ok = TRUE /\ read.strings = strings
  OBVIOUS
<1> HIDE DEF m, n, at, read
<1>5. /\ d[m + 1] = "$" /\ d[m + 2] = numeral[n]
      /\ d[m + n + 5] = "CR" /\ d[m + n + 6] = "LF"
      /\ \A k \in 1..n : d[m + 4 + k] = v[k]
  <2>1. /\ m + 1 \in 1..Len(e) /\ m + 2 \in 1..Len(e) /\ m + n + 5 \in 1..Len(e)
        /\ m + n + 6 \in 1..Len(e) /\ \A k \in 1..n : m + 4 + k \in 1..Len(e)
    BY <1>1, <1>2
  <2>2. QED
    BY <1>2, <1>3, <2>1
<1>6. len = n
  <2>1. at + 1 = m + 2
    BY <1>1, <1>4
  <2>2. d[at + 1] = numeral[n]
    BY <1>5, <2>1
  <2>3. <<d[at + 1]>> = Itoa(n)
    BY <2>2, Zenon DEF Itoa
  <2>4. QED
    BY <1>1, <2>3, AtoiItoa, Zenon
<1> HIDE DEF len
<1>7. /\ at + 5 <= Len(d) /\ d[at] = "$" /\ at + 5 + len <= Len(d)
  BY <1>1, <1>2, <1>3, <1>4, <1>5, <1>6
<1>8. SubSeq(d, at + 4 + len, at + 5 + len) = CRLF
  <2> DEFINE i == m + n + 5
             j == m + n + 6
             x == SubSeq(d, i, j)
  <2>1. at + 4 + len = i /\ at + 5 + len = j
    BY <1>1, <1>4, <1>6
  <2>2. x \in Seq(T) /\ Len(x) = 2 /\ x[1] = d[i] /\ x[2] = d[j]
    BY <1>1, <1>2, <1>3
  <2>3. x[1] = "CR" /\ x[2] = "LF"
    BY <1>5, <2>2, Zenon
  <2> HIDE DEF x, i, j
  <2>4. CRLF \in Seq({"CR", "LF"}) /\ Len(CRLF) = 2 /\ CRLF[1] = "CR" /\ CRLF[2] = "LF"
    BY CRLFIs
  <2>5. x = CRLF
    BY <2>2, <2>3, <2>4, SeqEqual, SMTT(30)
  <2>6. QED
    BY <2>1, <2>5, Zenon DEF x
<1>9. SubSeq(d, at + 4, at + 3 + len) = v
  <2> DEFINE x == SubSeq(d, m + 5, m + 4 + n)
  <2>1. at + 4 = m + 5 /\ at + 3 + len = m + 4 + n
    BY <1>1, <1>4, <1>6
  <2>2. x \in Seq(T) /\ Len(x) = n /\ \A k \in 1..n : x[k] = d[m + 4 + k]
    BY <1>1, <1>2, <1>3
  <2> HIDE DEF x
  <2>3. \A k \in 1..n : x[k] = v[k]
    BY <1>5, <2>2
  <2>4. Len(v) = n
    BY DEF n
  <2>5. x = v
    BY <2>2, <2>3, <2>4, SeqEqual
  <2>6. QED
    BY <2>1, <2>5, Zenon DEF x
<1>10. at + 6 + len = Len(e) + 1
  BY <1>1, <1>2, <1>4, <1>6
<1>11. ReadString(d, read) = [next |-> at + 6 + len, ok |-> TRUE,
                 strings |-> Append(read.strings, SubSeq(d, at + 4, at + 3 + len))]
  BY <1>4, <1>7, <1>8, Zenon DEF ReadString, at, len
<1>12. ReadString(d, read) = [next |-> Len(e) + 1, ok |-> TRUE, strings |-> Append(strings, v)]
  BY <1>4, <1>9, <1>10, <1>11, Zenon
<1>13. QED
  BY <1>12, Zenon DEF ReadsString, read

\* The errors of a write.
WriteErrors == {"nil", "ErrSendBufTooShort", "ErrUnsupportedDataType"}

\* What writeString does to the buffer.
LEMMA WriteStringIs ==
    ASSUME NEW T, Marks \subseteq T,
           NEW b, b \in [data : Seq(T), len : Nat, err : WriteErrors],
           NEW v \in Seq(T), Len(v) <= MaxNumber
    PROVE  LET c == writeString(b, v)
           IN  \/ b.err # "nil" /\ c = b
               \/ /\ b.err = "nil" /\ c.err = "ErrUnsupportedDataType"
                  /\ c.data = b.data /\ c.len = b.len
               \/ /\ b.err = "nil" /\ c.err = "ErrSendBufTooShort"
                  /\ Len(b.data) + 6 + Len(v) > b.len
                  /\ c.data = b.data /\ c.len = b.len
               \/ /\ b.err = "nil" /\ c.err = "nil" /\ v # Unsupported
                  /\ Len(b.data) + 6 + Len(v) <= b.len
                  /\ c.len = b.len /\ AppendedTo(T, b.data, v, c.data)
<1> DEFINE c == writeString(b, v)
           m == Len(v)
           w == b.data
           e == w \o Line("$", Len(v)) \o v \o CRLF
<1>1. m \in Nat /\ Len(w) \in Nat /\ b.len \in Nat /\ w \in Seq(T)
  OBVIOUS
<1>2. valueLen(v) = m + 6
  <2> DEFINE s == Itoa(m)
  <2>1. Len(s) = 1
    BY DEF Itoa
  <2> HIDE DEF s
  <2>2. valueLen(v) = 1 + Len(s) + m + 4
    BY DEF valueLen, s
  <2>3. QED
    BY <1>1, <2>1, <2>2
<1>3. AppendedTo(T, w, v, e)
  BY <1>1, Appended, Zenon
<1> HIDE DEF e, m
<1>4. CASE b.err # "nil"
  BY <1>4, Zenon DEF writeString
<1>5. CASE b.err = "nil" /\ v = Unsupported
  <2>1. c = [b EXCEPT !.err = "ErrUnsupportedDataType"]
    BY <1>5, Zenon DEF writeString
  <2> HIDE DEF c
  <2>2. c.err = "ErrUnsupportedDataType" /\ c.data = b.data /\ c.len = b.len
    BY <2>1
  <2>3. QED
    BY <1>5, <2>2, Zenon DEF c
<1>6. CASE b.err = "nil" /\ v # Unsupported /\ valueLen(v) > b.len - Len(w)
  <2>1. c = [b EXCEPT !.err = "ErrSendBufTooShort"]
    BY <1>6, Zenon DEF writeString
  <2> HIDE DEF c
  <2>2. c.err = "ErrSendBufTooShort" /\ c.data = b.data /\ c.len = b.len
    BY <2>1
  <2>3. Len(w) + 6 + m > b.len
    BY <1>1, <1>2, <1>6
  <2>4. QED
    BY <1>6, <2>2, <2>3, Zenon DEF c, m
<1>7. CASE b.err = "nil" /\ v # Unsupported /\ ~(valueLen(v) > b.len - Len(w))
  <2>1. c = [b EXCEPT !.data = e]
    BY <1>7, Zenon DEF writeString, e
  <2> HIDE DEF c
  <2>2. c.err = b.err /\ c.data = e /\ c.len = b.len
    BY <2>1
  <2>3. Len(w) + 6 + m <= b.len
    BY <1>1, <1>2, <1>7
  <2>4. QED
    BY <1>3, <1>7, <2>2, <2>3, Zenon DEF c, m
<1>8. QED
  BY <1>4, <1>5, <1>6, <1>7, Zenon

\* A command: what args can be.
IsCommand(T, params) ==
    /\ params \in Seq(Seq(T)) /\ Len(params) \in 1..5
    /\ \A k \in 1..Len(params) : Len(params[k]) <= MaxNumber

\* b is what a command has become after k of its parameters: the server reads
\* those from it, whatever is written after them, and it is as long as it has to be.
Written(T, len, params, k, b) ==
    /\ b \in [data : Seq(T), len : Nat, err : WriteErrors]
    /\ b.len = len /\ Len(b.data) <= len
    /\ b.err = "nil" =>
          /\ Len(b.data) = EncodedLens(params)[k]
          /\ \A d : Extends(T, d, b.data) =>
                /\ d[1] = "*" /\ d[2] = numeral[Len(params)] /\ Len(d) >= 4
                /\ Read(d, Len(params))[k]
                      = [next |-> Len(b.data) + 1, ok |-> TRUE, strings |-> SubSeq(params, 1, k)]
    /\ b.err = "ErrSendBufTooShort" =>
          EncodedLens(params)[k] >= len /\ (k # 0 => EncodedLens(params)[k] > len)

\* The header of a command.
LEMMA WrittenFirst ==
    ASSUME NEW T, Marks \subseteq T, NEW params, IsCommand(T, params), NEW len \in Nat
    PROVE  LET b == writeArr([data |-> <<>>, len |-> len, err |-> "nil"], Len(params))
           IN  /\ Written(T, len, params, 0, b)
               /\ b.err # "nil" => b.err = "ErrSendBufTooShort" /\ b.data = <<>>
<1> DEFINE a == [data |-> <<>>, len |-> len, err |-> "nil"]
           n == Len(params)
           b == writeArr(a, n)
           l == Line("*", n)
           f == EncodedLens(params)
<1>1. n \in 1..5 /\ n \in -1..MaxNumber /\ n \in Nat
      /\ \A k \in 1..n : Len(params[k]) \in Nat
  <2>1. n \in 1..5 /\ \A k \in 1..n : params[k] \in Seq(T)
    BY DEF IsCommand
  <2>2. \A k \in 1..n : Len(params[k]) \in Nat
    BY <2>1
  <2> HIDE DEF n
  <2>3. QED
    BY <2>1, <2>2, MaxNumberIsNat
<1>2. /\ l \in Seq(T) /\ Len(l) = 4
      /\ l[1] = "*" /\ l[2] = numeral[n]
  <2>1. "*" \in T /\ numeral[n] \in T /\ "CR" \in T /\ "LF" \in T
    BY <1>1, MarksInAlphabet
  <2> HIDE DEF n
  <2>2. QED
    BY <2>1, LineIs
<1>3. f[0] = 4
  BY <1>1, EncodedLensType
<1>4. <<>> \in Seq(T) /\ Len(<<>>) = 0
  OBVIOUS
<1>5. Len(Itoa(n)) = 1
  <2> DEFINE s == Itoa(n)
  <2>1. Len(s) = 1
    BY DEF Itoa
  <2>2. QED
    BY <2>1
<1> HIDE DEF l, f, n
<1>6. CASE 4 >= len
  <2>1. 1 + Len(Itoa(n)) + 2 >= a.len
    BY <1>5, <1>6
  <2>2. b = [a EXCEPT !.err = "ErrSendBufTooShort"]
    BY <2>1, Zenon DEF writeArr
  <2>3. b = [data |-> <<>>, len |-> len, err |-> "ErrSendBufTooShort"]
    BY <2>2
  <2> HIDE DEF b
  <2>4. b.err = "ErrSendBufTooShort" /\ b.data = <<>> /\ b.len = len
        /\ b \in [data : Seq(T), len : Nat, err : WriteErrors]
    BY <1>4, <2>3 DEF WriteErrors
  <2>5. Written(T, len, params, 0, b)
    BY <1>3, <1>4, <1>6, <2>4 DEF Written, f
  <2>6. QED
    BY <2>4, <2>5 DEF b, n
<1>7. CASE ~(4 >= len)
  <2>1. ~(1 + Len(Itoa(n)) + 2 >= a.len)
    BY <1>5, <1>7
  <2>2. b = [a EXCEPT !.data = @ \o l]
    BY <2>1, Zenon DEF writeArr, l
  <2>3. <<>> \o l = l
    BY <1>2, ConcatEmptySeq
  <2>4. b.err = "nil" /\ b.data = <<>> \o l /\ b.len = len
    BY <2>2
  <2>5. b.err = "nil" /\ b.data = l /\ b.len = len
    BY <2>3, <2>4
  <2>6. b \in [data : Seq(T), len : Nat, err : WriteErrors]
    <3>1. b = [data |-> b.data, len |-> b.len, err |-> b.err]
      BY <2>2
    <3>2. b.data \in Seq(T) /\ b.len \in Nat /\ b.err \in WriteErrors
      BY <1>2, <2>5 DEF WriteErrors
    <3> HIDE DEF b
    <3>3. QED
      BY <3>1, <3>2
  <2> HIDE DEF a, b
  <2>7. ASSUME NEW d, Extends(T, d, l)
        PROVE  /\ d[1] = "*" /\ d[2] = numeral[n] /\ Len(d) >= 4
               /\ Read(d, n)[0] = [next |-> Len(l) + 1, ok |-> TRUE, strings |-> SubSeq(params, 1, 0)]
    <3>1. d[1] = "*" /\ d[2] = numeral[n] /\ Len(d) >= 4
      BY <1>2, <2>7 DEF Extends
    <3> DEFINE r == Read(d, n)
    <3>2. r = [k \in 0..n |-> IF k = 0 THEN [next |-> 5, ok |-> TRUE, strings |-> <<>>]
                              ELSE ReadString(d, r[k - 1])]
      BY <1>1, ReadDef
    <3> HIDE DEF r
    <3>3. 0 \in 0..n
      BY <1>1
    <3>4. r[0] = [next |-> 5, ok |-> TRUE, strings |-> <<>>]
      BY <3>2, <3>3
    <3>5. SubSeq(params, 1, 0) = <<>>
      BY DEF IsCommand
    <3>6. Len(l) + 1 = 5
      BY <1>2
    <3>7. QED
      BY <3>1, <3>4, <3>5, <3>6 DEF r
  <2>8. Written(T, len, params, 0, b)
    <3>1. Len(b.data) = EncodedLens(params)[0]
      BY <1>2, <1>3, <2>5 DEF f
    <3>2. Len(b.data) <= len
      <4>1. Len(b.data) = 4
        BY <1>2, <2>5, Zenon
      <4>2. QED
        BY <4>1, <1>7
    <3>3. QED
      BY <2>5, <2>6, <2>7, <3>1, <3>2 DEF Written, n
  <2>9. QED
    BY <2>5, <2>8 DEF b, n, a
<1>8. QED
  BY <1>6, <1>7

\* One more parameter.
LEMMA WrittenNext ==
    ASSUME NEW T, Marks \subseteq T, NEW params, IsCommand(T, params), NEW len \in Nat,
           NEW k \in 1..Len(params), NEW b, Written(T, len, params, k - 1, b)
    PROVE  /\ Written(T, len, params, k, writeString(b, params[k]))
           /\ writeString(b, params[k]).err = "nil" =>
                 b.err = "nil" /\ params[k] # Unsupported
<1> DEFINE v == params[k]
           c == writeString(b, v)
           n == Len(params)
           f == EncodedLens(params)
<1>1. /\ n \in 1..5 /\ n \in Nat /\ k \in Nat /\ k - 1 \in Nat /\ k # 0
      /\ params \in Seq(Seq(T)) /\ v \in Seq(T) /\ Len(v) <= MaxNumber /\ Len(v) \in Nat
  <2>1. n \in 1..5 /\ params \in Seq(Seq(T)) /\ v \in Seq(T) /\ Len(v) <= MaxNumber
    BY DEF IsCommand
  <2>2. Len(v) \in Nat
    BY <2>1
  <2>3. QED
    BY <2>1, <2>2
<1>2. f[k] = f[k - 1] + 6 + Len(v) /\ f[k - 1] \in Nat /\ f[k] \in Nat
  <2>1. \A i \in 1..Len(params) : Len(params[i]) \in Nat
    <3>1. \A i \in 1..Len(params) : params[i] \in Seq(T)
      BY DEF IsCommand
    <3>2. QED
      BY <3>1
  <2>2. k \in 0..Len(params) /\ k - 1 \in 0..Len(params) /\ Len(params) \in Nat
    BY <1>1
  <2>3. QED
    BY <2>1, <2>2, EncodedLensType
<1>3. b \in [data : Seq(T), len : Nat, err : WriteErrors] /\ b.len = len
      /\ b.data \in Seq(T) /\ Len(b.data) \in Nat /\ Len(b.data) <= len
  BY DEF Written
<1>4. b.err = "nil" =>
          /\ Len(b.data) = f[k - 1]
          /\ \A d : Extends(T, d, b.data) =>
                /\ d[1] = "*" /\ d[2] = numeral[n] /\ Len(d) >= 4
                /\ Read(d, n)[k - 1] = [next |-> Len(b.data) + 1, ok |-> TRUE,
                                        strings |-> SubSeq(params, 1, k - 1)]
  BY Zenon DEF Written
<1>5. b.err = "ErrSendBufTooShort" => f[k - 1] >= len
  BY Zenon DEF Written
<1>6. \/ b.err # "nil" /\ c = b
      \/ /\ b.err = "nil" /\ c.err = "ErrUnsupportedDataType"
         /\ c.data = b.data /\ c.len = b.len
      \/ /\ b.err = "nil" /\ c.err = "ErrSendBufTooShort"
         /\ Len(b.data) + 6 + Len(v) > b.len
         /\ c.data = b.data /\ c.len = b.len
      \/ /\ b.err = "nil" /\ c.err = "nil" /\ v # Unsupported
         /\ Len(b.data) + 6 + Len(v) <= b.len
         /\ c.len = b.len /\ AppendedTo(T, b.data, v, c.data)
  BY <1>1, <1>3, WriteStringIs, ZenonT(30)
<1>7. c \in [data : Seq(T), len : Nat, err : WriteErrors]
  <2>1. CASE b.err # "nil"
    BY <1>3, <1>6, <2>1, Zenon
  <2>2. CASE b.err = "nil"
    <3>1. \E data, err : c = [b EXCEPT !.data = data] \/ c = [b EXCEPT !.err = err]
      BY <2>2, Zenon DEF writeString
    <3>2. c.data \in Seq(T) /\ c.len \in Nat /\ c.err \in WriteErrors
      BY <1>3, <1>6, <2>2, Zenon DEF AppendedTo, WriteErrors
    <3>3. c = [data |-> c.data, len |-> c.len, err |-> c.err]
      <4> HIDE DEF c
      <4>1. QED
        BY <1>3, <3>1
    <3> HIDE DEF c
    <3>4. QED
      BY <3>2, <3>3
  <2>3. QED
    BY <2>1, <2>2
<1> HIDE DEF v, c, n, f
<1>8. CASE b.err # "nil" /\ c = b
  <2>1. c.err = "ErrSendBufTooShort" => f[k] > len
    BY <1>1, <1>2, <1>5, <1>8
  <2>2. c.err # "nil" /\ c.len = len /\ Len(c.data) <= len
    BY <1>3, <1>8
  <2>3. Written(T, len, params, k, c)
    BY <1>2, <1>7, <2>1, <2>2, SMTT(30) DEF Written, f
  <2>4. QED
    BY <2>2, <2>3 DEF c, v
<1>9. CASE b.err = "nil" /\ c.err = "ErrUnsupportedDataType" /\ c.data = b.data /\ c.len = b.len
  <2>1. c.err # "nil" /\ c.err # "ErrSendBufTooShort" /\ c.len = len /\ Len(c.data) <= len
    BY <1>3, <1>9
  <2>2. Written(T, len, params, k, c)
    BY <1>7, <2>1 DEF Written
  <2>3. QED
    BY <2>1, <2>2 DEF c, v
<1>10. CASE /\ b.err = "nil" /\ c.err = "ErrSendBufTooShort"
            /\ Len(b.data) + 6 + Len(v) > b.len
            /\ c.data = b.data /\ c.len = b.len
  <2>1. c.err # "nil" /\ c.len = len /\ Len(c.data) <= len
    BY <1>3, <1>10
  <2>2. f[k] > len
    <3>1. Len(b.data) = f[k - 1] /\ b.len = len /\ Len(b.data) + 6 + Len(v) > b.len
      BY <1>3, <1>4, <1>10
    <3>2. QED
      BY <1>1, <1>2, <1>3, <3>1
  <2>3. f[k] >= len
    BY <1>2, <2>2
  <2>4. Written(T, len, params, k, c)
    BY <1>7, <2>1, <2>2, <2>3, Zenon DEF Written, f
  <2>5. QED
    BY <2>1, <2>4 DEF c, v
<1>11. CASE /\ b.err = "nil" /\ c.err = "nil" /\ v # Unsupported
            /\ Len(b.data) + 6 + Len(v) <= b.len
            /\ c.len = b.len /\ AppendedTo(T, b.data, v, c.data)
  <2>1. Len(c.data) = f[k] /\ Len(c.data) <= len
    <3>1. Len(c.data) = Len(b.data) + Len(v) + 6
      BY <1>11 DEF AppendedTo
    <3>2. Len(b.data) = f[k - 1] /\ b.len = len /\ Len(b.data) + 6 + Len(v) <= b.len
      BY <1>3, <1>4, <1>11
    <3>3. QED
      BY <1>1, <1>2, <1>3, <3>1, <3>2, SMTT(30)
  <2>2. ASSUME NEW d, Extends(T, d, c.data)
        PROVE  /\ d[1] = "*" /\ d[2] = numeral[n] /\ Len(d) >= 4
               /\ Read(d, n)[k] = [next |-> Len(c.data) + 1, ok |-> TRUE,
                                   strings |-> SubSeq(params, 1, k)]
    <3> DEFINE r == Read(d, n)
    <3>1. Extends(T, d, b.data)
      BY <1>1, <1>3, <1>11, <2>2, ExtendsBefore, Zenon
    <3>2. /\ d[1] = "*" /\ d[2] = numeral[n] /\ Len(d) >= 4
          /\ r[k - 1] = [next |-> Len(b.data) + 1, ok |-> TRUE,
                         strings |-> SubSeq(params, 1, k - 1)]
      BY <1>4, <1>11, <3>1, Zenon
    <3>3. r = [i \in 0..n |-> IF i = 0 THEN [next |-> 5, ok |-> TRUE, strings |-> <<>>]
                              ELSE ReadString(d, r[i - 1])]
      BY <1>1, ReadDef
    <3>4. k \in 0..n
      BY <1>1 DEF n
    <3> HIDE DEF r
    <3>5. r[k] = ReadString(d, r[k - 1])
      BY <1>1, <3>3, <3>4
    <3>6. ReadString(d, r[k - 1]) = [next |-> Len(c.data) + 1, ok |-> TRUE,
                                     strings |-> Append(SubSeq(params, 1, k - 1), v)]
      <4> DEFINE e == c.data
                 w == b.data
                 s == SubSeq(params, 1, k - 1)
      <4>1. w \in Seq(T) /\ v \in Seq(T) /\ Len(v) <= MaxNumber
            /\ AppendedTo(T, w, v, e) /\ Extends(T, d, e)
        BY <1>1, <1>3, <1>11, <2>2, Zenon
      <4>2. r[k - 1] = [next |-> Len(w) + 1, ok |-> TRUE, strings |-> s]
        BY <3>2, Zenon
      <4> HIDE DEF e, w, s
      <4>3. ReadsString(d, w, v, e, s)
        BY <4>1, ReadStringIs, Zenon
      <4>4. QED
        BY <4>2, <4>3, Zenon DEF e, s, ReadsString
    <3>7. Append(SubSeq(params, 1, k - 1), v) = SubSeq(params, 1, k)
      BY <1>1 DEF v
    <3>8. QED
      BY <3>2, <3>5, <3>6, <3>7, Zenon DEF r
  <2>3. c.err # "ErrSendBufTooShort" /\ c.len = len
    BY <1>3, <1>11
  <2>4. Written(T, len, params, k, c)
    BY <1>7, <2>1, <2>2, <2>3, Zenon DEF Written, f, n
  <2>5. QED
    BY <1>11, <2>4, Zenon DEF c, v
<1>12. QED
  BY <1>6, <1>8, <1>9, <1>10, <1>11, Zenon DEF c, v

\* The buffer after each parameter.
LEMMA AllWritten ==
    ASSUME NEW T, Marks \subseteq T, NEW params, IsCommand(T, params), NEW len \in Nat
    PROVE  \A k \in 0..Len(params) :
              /\ Written(T, len, params, k, Writes(<<>>, len, params)[k])
              /\ Writes(<<>>, len, params)[k].err = "nil" =>
                    \A i \in 1..k : params[i] # Unsupported
<1> DEFINE w == Writes(<<>>, len, params)
           n == Len(params)
           a == [data |-> <<>>, len |-> len, err |-> "nil"]
           Good(k) == /\ Written(T, len, params, k, w[k])
                      /\ w[k].err = "nil" => \A i \in 1..k : params[i] # Unsupported
           S == {k \in Nat : k \in 0..n => Good(k)}
<1>1. n \in Nat
  BY DEF IsCommand
<1>2. w = [k \in 0..n |-> IF k = 0 THEN writeArr(a, n) ELSE writeString(w[k - 1], params[k])]
  BY <1>1, WritesDef
<1> HIDE DEF w, a, n
<1>3. 0 \in S
  <2>1. w[0] = writeArr(a, n)
    <3>1. 0 \in 0..n
      BY <1>1
    <3>2. QED
      BY <1>2, <3>1
  <2>2. Written(T, len, params, 0, w[0])
    BY <2>1, WrittenFirst, Zenon DEF a, n
  <2>3. \A i \in 1..0 : params[i] # Unsupported
    OBVIOUS
  <2>4. QED
    BY <2>2, <2>3
<1>4. ASSUME NEW k \in Nat, k \in S PROVE k + 1 \in S
  <2>1. SUFFICES ASSUME k + 1 \in 0..n PROVE Good(k + 1)
    OBVIOUS
  <2>2. k \in 0..n /\ k + 1 \in 1..n /\ (k + 1) - 1 = k /\ k + 1 # 0
    BY <1>1, <2>1
  <2>3. Good(k)
    BY <1>4, <2>2
  <2>4. w[k + 1] = writeString(w[k], params[k + 1])
    BY <1>2, <2>1, <2>2
  <2>5. k + 1 \in 1..Len(params) /\ Written(T, len, params, (k + 1) - 1, w[k])
    BY <2>2, <2>3, Zenon DEF n
  <2>6. /\ Written(T, len, params, k + 1, writeString(w[k], params[k + 1]))
        /\ writeString(w[k], params[k + 1]).err = "nil" =>
              w[k].err = "nil" /\ params[k + 1] # Unsupported
    <3> DEFINE j == k + 1
    <3>1. j \in 1..Len(params) /\ Written(T, len, params, j - 1, w[k])
      BY <2>5
    <3> DEFINE b == w[k]
    <3> HIDE DEF j, b
    <3>2. /\ Written(T, len, params, j, writeString(b, params[j]))
          /\ writeString(b, params[j]).err = "nil" => b.err = "nil" /\ params[j] # Unsupported
      <4>1. Written(T, len, params, j - 1, b) /\ j \in 1..Len(params)
        BY <3>1 DEF b
      <4>2. QED
        BY <4>1, WrittenNext
    <3>3. QED
      BY <3>2 DEF j, b
  <2>7. w[k + 1].err = "nil" => \A i \in 1..k + 1 : params[i] # Unsupported
    <3>1. SUFFICES ASSUME w[k + 1].err = "nil", NEW i \in 1..k + 1
                   PROVE  params[i] # Unsupported
      OBVIOUS
    <3>2. w[k].err = "nil" /\ params[k + 1] # Unsupported
      BY <2>4, <2>6, <3>1
    <3>3. i \in 1..k \/ i = k + 1
      OBVIOUS
    <3>4. QED
      BY <2>3, <3>2, <3>3
  <2>8. QED
    BY <2>4, <2>6, <2>7
<1>5. \A k \in Nat : k \in S
  <2> HIDE DEF S
  <2>1. QED
    BY <1>3, <1>4, Induction
<1>6. \A k \in 0..n : Good(k)
  BY <1>5
<1>7. QED
  BY <1>6 DEF w, n

\* What Encode makes of a command: a server that reads by lengths reads exactly
\* its parameters; it is refused as too long only if it is; whatever has been
\* written of one that is refused is taken back.
EncodedWell(T, len, params, r) ==
    /\ r.err \in WriteErrors
    /\ r.data \in Seq(T) /\ Len(r.data) <= len
    /\ r.err = "nil" => Understood(r.data) = params
    /\ r.err # "nil" => r.data = <<>>
    /\ r.err = "ErrSendBufTooShort" => EncodedLen(params) > len

\* Encode does that to every command, whatever bytes its parameters have.
THEOREM EncodeIsUnderstood ==
    ASSUME NEW T, Marks \subseteq T, NEW params, IsCommand(T, params), NEW len \in Nat
    PROVE  EncodedWell(T, len, params, Encode(<<>>, len, params))
<1> DEFINE w == Writes(<<>>, len, params)
           n == Len(params)
           b == w[n]
           r == Encode(<<>>, len, params)
           f == EncodedLens(params)
<1>1. /\ n \in 1..5 /\ n \in Nat /\ n # 0 /\ 0 \in 0..n /\ n \in 0..n
      /\ n \in -1..MaxNumber
  <2>1. n \in 1..5
    BY DEF IsCommand
  <2> HIDE DEF n
  <2>2. QED
    BY <2>1, MaxNumberIsNat
<1>2. Written(T, len, params, 0, w[0]) /\ Written(T, len, params, n, b)
  BY <1>1, AllWritten, Zenon
<1>3. /\ b.err \in WriteErrors /\ b.data \in Seq(T) /\ b.len = len /\ Len(b.data) <= len
      /\ b \in [data : Seq(T), len : Nat, err : WriteErrors]
      /\ w[0].err \in WriteErrors /\ w[0].data \in Seq(T) /\ Len(w[0].data) <= len
  BY <1>2 DEF Written
<1>4. w[0].err # "nil" => w[0].err = "ErrSendBufTooShort" /\ w[0].data = <<>>
  <2>1. w = [k \in 0..n |-> IF k = 0 THEN writeArr([data |-> <<>>, len |-> len, err |-> "nil"], n)
                            ELSE writeString(w[k - 1], params[k])]
    BY <1>1, WritesDef
  <2>2. w[0] = writeArr([data |-> <<>>, len |-> len, err |-> "nil"], n)
    <3> HIDE DEF w
    <3>1. QED
      BY <1>1, <2>1
  <2>3. QED
    BY <2>2, WrittenFirst, Zenon
<1>5. EncodedLen(params) = f[n]
  BY DEF EncodedLen
<1>6. ASSUME NEW k \in 0..n PROVE f[k] \in Nat /\ f[0] = 4
  <2>1. \A i \in 1..Len(params) : params[i] \in Seq(T)
    BY DEF IsCommand
  <2>2. \A i \in 1..Len(params) : Len(params[i]) \in Nat
    BY <2>1
  <2>3. QED
    BY <1>1, <2>2, EncodedLensType
<1>7. CASE w[0].err # "nil"
  <2>1. r = w[0]
    BY <1>7, Zenon DEF Encode
  <2>2. r.err = "ErrSendBufTooShort" /\ r.data = <<>> /\ Len(r.data) <= len /\ r.data \in Seq(T)
    BY <1>3, <1>4, <1>7, <2>1, Zenon
  <2>3. f[n] > len
    <3>1. w[0].err = "ErrSendBufTooShort"
      BY <1>4, <1>7, Zenon
    <3>2. f[0] >= len
      BY <1>2, <3>1, Zenon DEF Written
    <3>3. 4 >= len
      BY <1>1, <1>6, <3>2
    <3>4. f[n] > 4
      <4>1. \A i \in 1..Len(params) : params[i] \in Seq(T)
        BY DEF IsCommand
      <4>2. \A i \in 1..Len(params) : Len(params[i]) \in Nat
        BY <4>1
      <4>3. /\ n \in 1..Len(params) /\ n - 1 \in 0..Len(params)
        BY <1>1
      <4>4. f[n] = f[n - 1] + 6 + Len(params[n]) /\ f[n - 1] \in Nat /\ Len(params[n]) \in Nat
        BY <1>1, <4>2, <4>3, EncodedLensType
      <4>5. QED
        BY <4>4
    <3>5. QED
      BY <1>1, <1>6, <3>3, <3>4
  <2>4. r.err \in WriteErrors /\ r.err # "nil"
    BY <1>3, <1>7, <2>1, Zenon
  <2>5. QED
    BY <1>5, <2>2, <2>3, <2>4, Zenon DEF EncodedWell
<1>8. CASE w[0].err = "nil" /\ b.err # "nil"
  <2>1. r = [b EXCEPT !.data = resetWritePos(@)]
    BY <1>8, Zenon DEF Encode
  <2>2. r.err = b.err /\ r.data = <<>>
    <3> HIDE DEF b
    <3>1. QED
      BY <1>3, <2>1 DEF resetWritePos
  <2>3. r.err = "ErrSendBufTooShort" => f[n] > len
    BY <1>1, <1>2, <2>2, Zenon DEF Written
  <2>4. <<>> \in Seq(T) /\ Len(<<>>) <= len
    OBVIOUS
  <2>5. QED
    BY <1>3, <1>5, <1>8, <2>2, <2>3, <2>4, Zenon DEF EncodedWell
<1>9. CASE w[0].err = "nil" /\ b.err = "nil"
  <2>1. r = b
    BY <1>9, Zenon DEF Encode
  <2> DEFINE d == b.data
             read == Read(d, n)[n]
  <2>2. Extends(T, d, d)
    BY <1>3 DEF Extends
  <2>3. /\ d[1] = "*" /\ d[2] = numeral[n] /\ Len(d) >= 4
        /\ read = [next |-> Len(d) + 1, ok |-> TRUE, strings |-> SubSeq(params, 1, n)]
    BY <1>2, <1>9, <2>2, Zenon DEF Written
  <2>4. Atoi(<<d[2]>>) = n
    <3>1. <<d[2]>> = Itoa(n)
      BY <2>3, Zenon DEF Itoa
    <3>2. QED
      BY <1>1, <3>1, AtoiItoa, Zenon
  <2>5. SubSeq(params, 1, n) = params
    <3>1. params \in Seq(Seq(T))
      BY DEF IsCommand
    <3> DEFINE x == SubSeq(params, 1, n)
    <3>2. x \in Seq(Seq(T)) /\ Len(x) = Len(params) /\ \A i \in 1..Len(x) : x[i] = params[i]
      BY <1>1, <3>1
    <3> HIDE DEF x
    <3>3. x = params
      BY <3>1, <3>2, SeqEqual
    <3>4. QED
      BY <3>3 DEF x
  <2>6. read.ok = TRUE /\ read.strings = params
    BY <2>3, <2>5
  <2>7. n >= 0
    BY <1>1
  <2>8. Understood(d) = params
    BY <2>3, <2>4, <2>6, <2>7, Zenon DEF Understood
  <2>9. "nil" # "ErrSendBufTooShort"
    OBVIOUS
  <2>10. QED
    BY <1>3, <1>9, <2>1, <2>8, <2>9, Zenon DEF EncodedWell
<1>10. QED
  BY <1>7, <1>8, <1>9, Zenon

-----------------------------------------------------------------------------
(***************************************************************************)
(* Values with CR in them.                                                 *)
(***************************************************************************)
\* A symbol before a text.
LEMMA HeadIs ==
    ASSUME NEW T, NEW x \in T, NEW s \in Seq(T)
    PROVE  /\ <<x>> \o s \in Seq(T) /\ Len(<<x>> \o s) = 1 + Len(s)
           /\ (<<x>> \o s)[1] = x
           /\ \A k \in 1..Len(s) : (<<x>> \o s)[1 + k] = s[k]
<1> DEFINE u == <<x>>
<1>1. u \in Seq(T) /\ Len(u) = 1 /\ u[1] = x
  OBVIOUS
<1> HIDE DEF u
<1>2. /\ u \o s \in Seq(T) /\ Len(u \o s) = 1 + Len(s) /\ (u \o s)[1] = x
      /\ \A k \in 1..Len(s) : (u \o s)[1 + k] = s[k]
  BY <1>1, Concat, SMTT(30)
<1>3. QED
  BY <1>2 DEF u

\* Two texts are the same if their first symbols and the rest of them are.
LEMMA SameHead ==
    ASSUME NEW T, NEW x \in T, NEW y \in T, NEW s \in Seq(T), NEW t \in Seq(T)
    PROVE  /\ <<x>> \o s = <<y>> \o t => x = y /\ s = t
           /\ <<x>> \o s # <<>>
<1> DEFINE u == <<x>> \o s
           w == <<y>> \o t
<1>1. /\ Len(u) = 1 + Len(s) /\ u[1] = x
      /\ \A k \in 1..Len(s) : u[1 + k] = s[k]
  BY HeadIs
<1>2. /\ Len(w) = 1 + Len(t) /\ w[1] = y
      /\ \A k \in 1..Len(t) : w[1 + k] = t[k]
  BY HeadIs
<1>3. Len(s) \in Nat /\ Len(t) \in Nat
  OBVIOUS
<1> HIDE DEF u, w
<1>4. ASSUME u = w PROVE x = y /\ s = t
  <2>1. x = y /\ Len(s) = Len(t)
    BY <1>1, <1>2, <1>3, <1>4
  <2>2. \A k \in 1..Len(s) : s[k] = t[k]
    BY <1>1, <1>2, <1>4, <2>1
  <2>3. QED
    BY <2>1, <2>2, SeqEqual
<1>5. u # <<>>
  <2>1. Len(u) # 0
    BY <1>1, <1>3
  <2>2. QED
    BY <2>1
<1>6. QED
  BY <1>4, <1>5 DEF u, w

\* What the loop of the parsers has read from place k on is not what is there, up to
\* place m before the last CR LF, if there is a CR in it; nor what is there from an
\* earlier place i on if nothing but CR is between the two.
LEMMA ScanLoses ==
    ASSUME NEW T, NEW d \in Seq(T), NEW m \in Nat, Len(d) = m + 2,
           d[m + 1] = "CR", d[m + 2] = "LF", NEW a \in 1..m,
           \E x \in a..m : d[x] = "CR"
    PROVE  Scan(d, a).text # SubSeq(d, a, m)
<1> DEFINE f == Scans(d)
           Q(k) == \A i \in 1..k :
                      /\ \A x \in i..k - 1 : d[x] = "CR"
                      /\ i < k \/ \E x \in i..m : d[x] = "CR"
                      => f[k].text # SubSeq(d, i, m)
           S == {n \in Nat : \A k \in 1..m + 2 : k > m + 2 - n => Q(k)}
<1>1. \A k \in 1..m + 4 : f[k] = ScanFrom(d, f, k)
  BY ScansDef
<1>2. \A k \in 1..m + 3 : f[k].text \in Seq(T)
  <2> TAKE k \in 1..m + 3
  <2>1. Scan(d, k).text \in Seq(T)
    BY ScanType
  <2>2. QED
    BY <2>1 DEF Scan
<1>3. \A i \in 1..m : /\ SubSeq(d, i, m) = <<d[i]>> \o SubSeq(d, i + 1, m)
                      /\ SubSeq(d, i + 1, m) \in Seq(T)
  <2> TAKE i \in 1..m
  <2>1. i \in 1..Len(d) /\ m \in i..Len(d)
    OBVIOUS
  <2>2. SubSeq(d, i, m) = <<d[i]>> \o SubSeq(d, i + 1, m)
    BY <2>1, SubSeqHead
  <2>3. SubSeq(d, i + 1, m) \in Seq(T)
    OBVIOUS
  <2>4. QED
    BY <2>2, <2>3
<1>4. SubSeq(d, m + 1, m) = <<>>
  OBVIOUS
<1>5. \A k \in 1..m + 2 : d[k] \in T
  OBVIOUS
<1> HIDE DEF f
<1>6. 0 \in S
  OBVIOUS
<1>7. ASSUME NEW n \in Nat, n \in S PROVE n + 1 \in S
  <2>1. SUFFICES ASSUME NEW k \in 1..m + 2, k = m + 2 - n,
                        NEW i \in 1..k, \A x \in i..k - 1 : d[x] = "CR",
                        i < k \/ \E x \in i..m : d[x] = "CR"
                 PROVE  f[k].text # SubSeq(d, i, m)
    <3> HIDE DEF Q
    <3>1. ASSUME \A k \in 1..m + 2 : k = m + 2 - n => Q(k)
          PROVE  n + 1 \in S
      BY <1>7, <3>1
    <3>2. QED
      BY <3>1 DEF Q
  <2>2. \A l \in 1..m + 2 : l > k => Q(l)
    BY <1>7, <2>1
  <2>3. i <= m \/ (i = m + 1 /\ k = m + 2)
    <3>1. CASE \E x \in i..m : d[x] = "CR"
      <4>1. PICK x \in i..m : d[x] = "CR"
        BY <3>1
      <4>2. QED
        BY <4>1
    <3>2. QED
      BY <2>1, <3>1
  <2>4. f[k] = ScanFrom(d, f, k)
    BY <1>1
  <2>5. CASE d[k] # "CR"
    <3>1. f[k].text = <<d[k]>> \o f[k + 1].text /\ f[k + 1].text \in Seq(T)
      <4>1. ~isDataEnded(d, k) /\ ~endsLine(d, k, k)
        BY <2>5 DEF isDataEnded, endsLine
      <4>2. f[k].text = <<d[k]>> \o f[k + 1].text
        BY <2>4, <2>5, <4>1, SMTT(30) DEF ScanFrom
      <4>3. QED
        BY <1>2, <4>2
    <3>2. CASE i < k /\ i <= m
      <4>1. d[i] = "CR"
        BY <2>1, <3>2
      <4>2. QED
        BY <1>3, <1>5, <2>5, <3>1, <3>2, <4>1, SameHead
    <3>3. CASE i = m + 1 /\ k = m + 2
      BY <1>4, <1>5, <3>1, <3>3, SameHead
    <3>4. CASE i = k /\ i <= m
      <4>1. PICK x \in i..m : d[x] = "CR"
        BY <2>1, <3>4
      <4>2. x \in k + 1..m
        BY <2>5, <3>4, <4>1
      <4>3. f[k + 1].text # SubSeq(d, k + 1, m)
        <5>1. /\ k + 1 \in 1..m + 2 /\ k + 1 > k /\ k + 1 \in 1..k + 1
              /\ \A y \in k + 1..(k + 1) - 1 : d[y] = "CR"
          BY <3>4
        <5>2. Q(k + 1)
          <6> HIDE DEF Q
          <6>1. QED
            BY <2>2, <5>1
        <5>3. \E y \in k + 1..m : d[y] = "CR"
          BY <4>1, <4>2
        <5>4. QED
          BY <5>1, <5>2, <5>3
      <4>4. QED
        BY <1>3, <1>5, <3>1, <3>4, <4>3, SameHead, SMTT(30)
    <3>5. QED
      BY <2>3, <3>2, <3>3, <3>4
  <2>6. CASE d[k] = "CR" /\ d[k + 1] = "LF"
    <3>1. k <= m + 1 /\ i <= m
      BY <2>1, <2>6
    <3>2. f[k].text = <<>>
      <4>1. ~isDataEnded(d, k) /\ ~isDataEnded(d, k + 1) /\ endsLine(d, k, k + 1)
        BY <2>6, <3>1 DEF isDataEnded, endsLine
      <4>2. QED
        BY <2>4, <2>6, <4>1 DEF ScanFrom
    <3>3. SubSeq(d, i, m) # <<>>
      BY <1>3, <1>5, <3>1, SameHead
    <3>4. QED
      BY <3>2, <3>3
  <2>7. CASE d[k] = "CR" /\ d[k + 1] # "LF"
    <3>1. k <= m
      BY <2>7
    <3>2. f[k].text = <<d[k + 1]>> \o f[k + 2].text /\ f[k + 2].text \in Seq(T)
      <4>1. ~isDataEnded(d, k) /\ ~isDataEnded(d, k + 1) /\ ~endsLine(d, k, k + 1)
        BY <2>7, <3>1 DEF isDataEnded, endsLine
      <4>2. (k + 1) + 1 = k + 2
        OBVIOUS
      <4>3. f[k].text = <<d[k + 1]>> \o f[k + 2].text
        BY <2>4, <2>7, <4>1, <4>2, SMTT(30) DEF ScanFrom
      <4>4. QED
        BY <1>2, <3>1, <4>3
    <3>3. ASSUME f[k].text = SubSeq(d, i, m) PROVE FALSE
      <4>1. d[k + 1] = d[i] /\ f[k + 2].text = SubSeq(d, i + 1, m)
        BY <1>3, <1>5, <3>1, <3>2, <3>3, SameHead, SMTT(30)
      <4>2. \A x \in i + 1..(k + 2) - 1 : d[x] = "CR"
        <5>1. d[i] = "CR"
          BY <2>1, <2>7
        <5>2. ASSUME NEW y \in i + 1..(k + 2) - 1 PROVE d[y] = "CR"
          <6>1. y \in i..k - 1 \/ y = k \/ y = k + 1
            OBVIOUS
          <6>2. QED
            BY <2>1, <2>7, <4>1, <5>1, <6>1
        <5>3. QED
          BY <5>2
      <4>3. k + 2 \in 1..m + 2 /\ k + 2 > k /\ i + 1 \in 1..k + 2 /\ i + 1 < k + 2
        BY <3>1
      <4>4. f[k + 2].text # SubSeq(d, i + 1, m)
        BY <2>2, <4>2, <4>3
      <4>5. QED
        BY <4>1, <4>4
    <3>4. QED
      BY <3>3
  <2>8. QED
    BY <2>5, <2>6, <2>7
<1>8. m + 2 \in S
  <2> HIDE DEF S
  <2>1. QED
    BY <1>6, <1>7, Induction
<1>9. Q(a)
  <2> HIDE DEF Q
  <2>1. a \in 1..m + 2 /\ a > m + 2 - (m + 2)
    OBVIOUS
  <2>2. QED
    BY <1>8, <2>1
<1>10. QED
  BY <1>9 DEF f, Scan

\* What Decode makes of a value, whatever its bytes.
LEMMA DecodesBulkAs ==
    ASSUME NEW T, Marks \subseteq T, NEW v \in Seq(T), Len(v) <= MaxNumber,
           NEW d, d = Bulk(v)
    PROVE  Decode(d, "nil") = [object |-> Bytes(Scan(d, 5).text), err |-> "nil",
                               decodingErr |-> "nil"]
<1> DEFINE n == Len(v)
           i == 1
           s == Scan(d, 5)
           len == parsePartLen(d, i + 1)
           parts == Parts(d)[Len(d) - 1]
<1>1. /\ d \in Seq(T) /\ Len(d) = n + 6
      /\ d[1] = "$" /\ d[2] = numeral[n] /\ d[3] = "CR" /\ d[4] = "LF"
  BY BulkIs
<1>2. n \in Nat /\ n \in -1..MaxNumber /\ n # -1
  BY MaxNumberIsNat
<1>3. /\ i + 1 \in 1..Len(d) - 2 /\ d[i + 1] = numeral[n]
      /\ d[(i + 1) + 1] = "CR" /\ d[(i + 1) + 2] = "LF"
  BY <1>1, <1>2
<1>4. len = [idx |-> (i + 1) + 2, n |-> n]
  <2> DEFINE j == i + 1
  <2>1. /\ j \in 1..Len(d) - 2 /\ d[j] = numeral[n]
        /\ d[j + 1] = "CR" /\ d[j + 2] = "LF"
    BY <1>3
  <2> HIDE DEF j
  <2>2. parsePartLen(d, j) = [idx |-> j + 2, n |-> n]
    BY <1>1, <1>2, <2>1, NumberOnLine, Zenon
  <2>3. QED
    BY <2>2 DEF j
<1>5. len.idx = 4 /\ len.n = n /\ len.idx + 1 = 5
  BY <1>4
<1> HIDE DEF len, s
<1>6. ~isDataEnded(d, i + 1) /\ ~isNil(len.n) /\ ~isDataEnded(d, len.idx + 1)
  BY <1>1, <1>2, <1>5 DEF isDataEnded, isNil
<1>7. parseBulkString(d, i) = Parsed(s.idx, Bytes(s.text), "nil")
  BY <1>5, <1>6 DEF parseBulkString, len, s
<1>8. parsePart(d, 1, parts) = Parsed(s.idx, Bytes(s.text), "nil")
  BY <1>1, <1>7 DEF parsePart
<1>9. Len(d) \in Nat /\ Len(d) # 0
  BY <1>1, <1>2
<1>10. d # <<>>
  BY <1>9, NonEmpty, Zenon
<1>11. QED
  BY <1>8, <1>9, <1>10, DecodesValue, Zenon DEF s, parts

\* Decode reads a value back as it was stored if, and only if, it has no CR in it:
\* the length that comes before it is not used.
THEOREM ReadBackUnlessCR ==
    ASSUME NEW T, Marks \subseteq T, NEW v \in Seq(T), Len(v) <= MaxNumber
    PROVE  Decode(Bulk(v), "nil").object = Bytes(v) <=> "CR" \notin Range(v)
<1> DEFINE d == Bulk(v)
           n == Len(v)
           m == n + 4
<1>1. /\ d \in Seq(T) /\ Len(d) = n + 6
      /\ \A k \in 1..n : d[4 + k] = v[k]
      /\ d[n + 5] = "CR" /\ d[n + 6] = "LF"
  BY BulkIs
<1>2. n \in Nat /\ DOMAIN v = 1..n
  OBVIOUS
<1>3. ASSUME "CR" \notin Range(v) PROVE Decode(d, "nil").object = Bytes(v)
  <2>1. \A k \in 1..n : v[k] # "CR"
    BY <1>2, <1>3, Zenon DEF Range
  <2> HIDE DEF d
  <2>2. d = Bulk(v)
    BY DEF d
  <2>3. Decode(d, "nil") = [object |-> Bytes(v), err |-> "nil", decodingErr |-> "nil"]
    BY <2>1, <2>2, DecodesBulk, Zenon
  <2>4. QED
    BY <2>3
<1>4. ASSUME "CR" \in Range(v) PROVE Decode(d, "nil").object # Bytes(v)
  <2>1. PICK k \in 1..n : v[k] = "CR"
    BY <1>2, <1>4, Zenon DEF Range
  <2>2. 4 + k \in 5..m /\ d[4 + k] = "CR"
    BY <1>1, <1>2, <2>1
  <2>3. SubSeq(d, 5, m) = v
    <3> DEFINE w == SubSeq(d, 5, m)
    <3>1. w \in Seq(T) /\ Len(w) = n /\ \A x \in 1..n : w[x] = d[4 + x]
      <4> HIDE DEF d
      <4>1. QED
        BY <1>1, <1>2
    <3> HIDE DEF w, d
    <3>2. \A x \in 1..n : w[x] = v[x]
      BY <1>1, <3>1
    <3>3. w = v
      BY <3>1, <3>2, SeqEqual
    <3>4. QED
      BY <3>3 DEF w
  <2>4. Scan(d, 5).text # SubSeq(d, 5, m)
    <3> HIDE DEF d
    <3>1. m \in Nat /\ Len(d) = m + 2 /\ d[m + 1] = "CR" /\ d[m + 2] = "LF" /\ 5 \in 1..m
      BY <1>1, <1>2, <2>2
    <3> HIDE DEF m
    <3>2. QED
      BY <1>1, <2>2, <3>1, ScanLoses
  <2> HIDE DEF d
  <2>5. d = Bulk(v)
    BY DEF d
  <2>6. Decode(d, "nil") = [object |-> Bytes(Scan(d, 5).text), err |-> "nil",
                            decodingErr |-> "nil"]
    BY <2>5, DecodesBulkAs
  <2>7. Decode(d, "nil").object.text = Scan(d, 5).text /\ Bytes(v).text = v
    BY <2>6 DEF Bytes, Object
  <2>8. QED
    BY <2>3, <2>4, <2>7
<1>5. QED
  BY <1>3, <1>4
=============================================================================
