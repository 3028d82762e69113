--------------------------- MODULE VideoPathProofs ----------------------------
(***************************************************************************)
(* The proofs of what VideoPath promises, for all shapes of pictures, all  *)
(* sizes of buffers, packets and windows and all losses.                   *)
(*                                                                         *)
(* IntactPictureIsFed: there is a content for every packet number, the     *)
(* symbols sent under it, such that all of a picture is what its numbers   *)
(* carry and a frame or a unit is what the numbers it was made of carry.   *)
(*                                                                         *)
(* ReplayIsContiguous, EndsWhenFed: what the window has not yet fed is the *)
(* file from next on, and the file is read up to its end.                  *)
(*                                                                         *)
(* PicturesAreReplayed: start codes in a picture are followed by the       *)
(* headers of its NAL units in their order, so au_end finds its end.       *)
(*                                                                         *)
(* LossesAreCounted: the player remembers the number before modulo         *)
(* SeqSpace, which tells numbers less than SeqSpace apart.                 *)
(*                                                                         *)
(* Sequences are put together by recursive functions (FlattenSeq, FoldLeft)*)
(* and proved about by least counterexample: sets of numbers have a least  *)
(* member.                                                                 *)
(***************************************************************************)
EXTENDS VideoPath, FiniteSetTheorems, SequenceTheorems, WellFoundedInduction, TLAPS

----------------------------------------------------------------------------
(* Numbers, and sequences put together *)

\* Every set of numbers that is not empty has a least member.
LEMMA Least ==
    ASSUME NEW S \in SUBSET Nat, S # {}
    PROVE  \E m \in S : \A k \in S : m <= k
<1> DEFINE R == OpToRel(<, Nat)
<1>1. IsWellFoundedOn(R, Nat)
  BY NatLessThanWellFounded
<1>2. \A x, y \in Nat : <<x, y>> \in R <=> x < y
  BY DEF OpToRel
<1> HIDE DEF R
<1>3. PICK m \in S : \A y \in S : <<y, m>> \notin R
  BY <1>1, WFMin
<1>4. \A y \in S : ~(y < m)
  BY <1>2, <1>3
<1>5. QED BY <1>4

\* Induction, over a set of numbers: one that has 0 and with m - 1 has m.
LEMMA Induction ==
    ASSUME NEW S, 0 \in S, \A m \in Nat \ {0} : m - 1 \in S => m \in S
    PROVE  \A m \in Nat : m \in S
<1> DEFINE Bad == {m \in Nat : m \notin S}
<1> SUFFICES ASSUME Bad # {} PROVE FALSE
  OBVIOUS
<1>1. PICK m \in Bad : \A k \in Bad : m <= k
  BY Least
<1>2. m \in Nat \ {0}
  OBVIOUS
<1>3. m - 1 \in Nat /\ m - 1 \notin Bad
  BY <1>1, <1>2
<1>4. QED BY <1>2, <1>3

\* g[i] is the first i sequences of r in one.
Flattens(g, r, n) ==
    g = [i \in 1 .. n |-> IF i = 1 THEN r[i] ELSE g[i - 1] \o r[i]]

\* There is such a g.
LEMMA FlattenExists ==
    ASSUME NEW r
    PROVE  \A n \in Nat : \E g : Flattens(g, r, n)
<1> DEFINE Good == {n \in Nat : \E g : Flattens(g, r, n)}
<1>1. 0 \in Good
  <2> DEFINE g == [i \in 1 .. 0 |-> 0]
  <2>1. Flattens(g, r, 0)
    BY DEF Flattens
  <2>2. QED BY <2>1
<1>2. ASSUME NEW m \in Nat \ {0}, m - 1 \in Good PROVE m \in Good
  <2>1. PICK g : Flattens(g, r, m - 1)
    BY <1>2
  <2> DEFINE h == [i \in 1 .. m |-> IF i = 1 THEN r[i] ELSE g[i - 1] \o r[i]]
  <2>2. ASSUME NEW i \in 1 .. m - 1 PROVE h[i] = g[i]
    <3>1. g[i] = IF i = 1 THEN r[i] ELSE g[i - 1] \o r[i]
      BY <2>1 DEF Flattens
    <3>2. QED BY <3>1
  <2>3. ASSUME NEW i \in 1 .. m, i # 1 PROVE g[i - 1] = h[i - 1]
    <3>1. i - 1 \in 1 .. m - 1
      BY <2>3
    <3>2. QED BY <3>1, <2>2
  <2>4. h = [i \in 1 .. m |-> IF i = 1 THEN r[i] ELSE h[i - 1] \o r[i]]
    BY <2>3
  <2>5. QED BY <2>4 DEF Flattens
<1> HIDE DEF Good
<1>3. \A n \in Nat : n \in Good
  BY <1>1, <1>2, Induction
<1>4. QED BY <1>3 DEF Good

\* It is what FlattenSeq takes the last value of.
LEMMA FlattenIs ==
    ASSUME NEW r, NEW n \in Nat \ {0}, Len(r) = n
    PROVE  \E g : Flattens(g, r, n) /\ FlattenSeq(r) = g[n]
<1> DEFINE f == CHOOSE g : Flattens(g, r, n)
<1>1. Flattens(f, r, n)
  BY FlattenExists
<1>2. FlattenSeq(r) = f[n]
  BY DEF FlattenSeq, Flattens
<1>3. QED BY <1>1, <1>2

\* Its values are sequences.
LEMMA FlattenValues ==
    ASSUME NEW T, NEW r \in Seq(Seq(T)), NEW g, Flattens(g, r, Len(r))
    PROVE  \A i \in 1 .. Len(r) : g[i] \in Seq(T)
<1> DEFINE Good == {i \in Nat : i \in 1 .. Len(r) => g[i] \in Seq(T)}
<1>1. 0 \in Good
  OBVIOUS
<1>2. ASSUME NEW m \in Nat \ {0}, m - 1 \in Good PROVE m \in Good
  <2> SUFFICES ASSUME m \in 1 .. Len(r) PROVE g[m] \in Seq(T)
    OBVIOUS
  <2>1. g[m] = IF m = 1 THEN r[m] ELSE g[m - 1] \o r[m]
    BY DEF Flattens
  <2>2. r[m] \in Seq(T)
    OBVIOUS
  <2>3. CASE m = 1
    BY <2>1, <2>2, <2>3
  <2>4. CASE m # 1
    <3>1. g[m - 1] \in Seq(T)
      BY <1>2, <2>4
    <3>2. g[m - 1] \o r[m] \in Seq(T)
      BY <3>1, <2>2, ConcatProperties
    <3>3. QED BY <3>2, <2>1, <2>4
  <2>5. QED BY <2>3, <2>4
<1> HIDE DEF Good
<1>3. \A i \in Nat : i \in Good
  BY <1>1, <1>2, Induction
<1>4. QED BY <1>3 DEF Good

\* They depend on the front of r alone.
LEMMA FlattenFront ==
    ASSUME NEW r, NEW s, NEW g, NEW h, NEW n \in Nat, NEW m \in Nat, m <= n,
           Flattens(g, r, n), Flattens(h, s, m), \A i \in 1 .. m : r[i] = s[i]
    PROVE  \A i \in 1 .. m : g[i] = h[i]
<1> DEFINE Good == {i \in Nat : i \in 1 .. m => g[i] = h[i]}
<1>1. 0 \in Good
  OBVIOUS
<1>2. ASSUME NEW k \in Nat \ {0}, k - 1 \in Good PROVE k \in Good
  <2> SUFFICES ASSUME k \in 1 .. m PROVE g[k] = h[k]
    OBVIOUS
  <2>0. k \in 1 .. n
    OBVIOUS
  <2>1. g[k] = IF k = 1 THEN r[k] ELSE g[k - 1] \o r[k]
    BY <2>0 DEF Flattens
  <2>2. h[k] = IF k = 1 THEN s[k] ELSE h[k - 1] \o s[k]
    BY DEF Flattens
  <2>3. k # 1 => g[k - 1] = h[k - 1]
    BY <1>2
  <2>4. r[k] = s[k]
    OBVIOUS
  <2>5. QED BY <2>1, <2>2, <2>3, <2>4
<1> HIDE DEF Good
<1>3. \A i \in Nat : i \in Good
  BY <1>1, <1>2, Induction
<1>4. QED BY <1>3 DEF Good

\* Nothing put together is nothing.
LEMMA FlattenEmpty == FlattenSeq(<<>>) = <<>>
<1>1. Len(<<>>) = 0
  OBVIOUS
<1>2. QED BY <1>1 DEF FlattenSeq

\* Sequences put together are a sequence.
LEMMA FlattenType ==
    ASSUME NEW T, NEW r \in Seq(Seq(T))
    PROVE  FlattenSeq(r) \in Seq(T)
<1>1. CASE r = <<>>
  <2>1. <<>> \in Seq(T)
    BY EmptySeq
  <2>2. QED BY <1>1, <2>1, FlattenEmpty
<1>2. CASE r # <<>>
  <2>0. Len(r) \in Nat \ {0}
    BY <1>2
  <2>1. PICK g : Flattens(g, r, Len(r)) /\ FlattenSeq(r) = g[Len(r)]
    BY <2>0, FlattenIs
  <2>2. Len(r) \in 1 .. Len(r)
    BY <1>2
  <2>3. QED BY <2>1, <2>2, FlattenValues
<1>3. QED BY <1>1, <1>2

\* One more is put behind the others.
LEMMA FlattenStep ==
    ASSUME NEW r, NEW s, NEW n \in Nat \ {0}, Len(r) = n, Len(s) = n + 1,
           \A i \in 1 .. n : s[i] = r[i]
    PROVE  FlattenSeq(s) = FlattenSeq(r) \o s[n + 1]
<1>1. PICK g : Flattens(g, s, n + 1) /\ FlattenSeq(s) = g[n + 1]
  BY FlattenIs
<1>2. PICK h : Flattens(h, r, n) /\ FlattenSeq(r) = h[n]
  BY FlattenIs
<1>3. \A i \in 1 .. n : g[i] = h[i]
  BY <1>1, <1>2, FlattenFront
<1>4. n + 1 \in 1 .. n + 1 /\ n + 1 # 1 /\ (n + 1) - 1 = n /\ n \in 1 .. n
  OBVIOUS
<1>5. g[n + 1] = g[n] \o s[n + 1]
  BY <1>1, <1>4 DEF Flattens
<1>6. QED BY <1>1, <1>2, <1>3, <1>4, <1>5

\* The same, of sequences of sequences.
LEMMA FlattenLonger ==
    ASSUME NEW T, NEW r \in Seq(Seq(T)), NEW s \in Seq(Seq(T)),
           Len(s) = Len(r) + 1, \A i \in 1 .. Len(r) : s[i] = r[i]
    PROVE  FlattenSeq(s) = FlattenSeq(r) \o s[Len(s)]
<1>1. Len(r) \in Nat /\ Len(s) \in Nat /\ Len(s) \in 1 .. Len(s) /\ s # <<>>
  OBVIOUS
<1>2. CASE r = <<>>
  <2>0. Len(s) = 1 /\ 1 \in Nat \ {0}
    BY <1>2
  <2>1. PICK g : Flattens(g, s, 1) /\ FlattenSeq(s) = g[1]
    BY <2>0, FlattenIs
  <2>2. g[1] = s[1]
    BY <2>1 DEF Flattens
  <2>3. s[1] \in Seq(T)
    BY <1>1, <1>2
  <2>4. <<>> \o s[1] = s[1]
    BY <2>3, ConcatEmptySeq
  <2>5. QED BY <2>1, <2>2, <2>4, <1>2, FlattenEmpty
<1>3. CASE r # <<>>
  <2>1. Len(r) \in Nat \ {0}
    BY <1>3
  <2>2. QED BY <2>1, FlattenStep
<1>4. QED BY <1>2, <1>3

\* One more behind the others is put behind them.
LEMMA FlattenAppend ==
    ASSUME NEW T, NEW r \in Seq(Seq(T)), NEW e \in Seq(T)
    PROVE  FlattenSeq(Append(r, e)) = FlattenSeq(r) \o e
<1>1. /\ Append(r, e) \in Seq(Seq(T)) /\ Len(Append(r, e)) = Len(r) + 1
      /\ \A i \in 1 .. Len(r) : Append(r, e)[i] = r[i]
      /\ Append(r, e)[Len(r) + 1] = e
  BY AppendProperties
<1>2. QED BY <1>1, FlattenLonger

\* Two lists of sequences are put together one after the other.
LEMMA FlattenConcatStep ==
    ASSUME NEW T, NEW r \in Seq(Seq(T)), NEW u \in Seq(Seq(T)), NEW e \in Seq(T),
           FlattenSeq(r \o u) = FlattenSeq(r) \o FlattenSeq(u)
    PROVE  FlattenSeq(r \o Append(u, e)) = FlattenSeq(r) \o FlattenSeq(Append(u, e))
<1>1. r \o u \in Seq(Seq(T)) /\ <<e>> \in Seq(Seq(T))
  BY ConcatProperties
<1>2. r \o Append(u, e) = Append(r \o u, e)
  <2>1. Append(u, e) = u \o <<e>>
    BY AppendIsConcat
  <2>1a. Append(r \o u, e) = (r \o u) \o <<e>>
    BY <1>1, AppendIsConcat
  <2>2. (r \o u) \o <<e>> = r \o (u \o <<e>>)
    BY <1>1, ConcatAssociative, SMTT(40)
  <2>3. QED BY <2>1, <2>1a, <2>2
<1>3. FlattenSeq(r \o Append(u, e)) = (FlattenSeq(r) \o FlattenSeq(u)) \o e
  BY <1>1, <1>2, FlattenAppend
<1>4. FlattenSeq(Append(u, e)) = FlattenSeq(u) \o e
  BY FlattenAppend
<1>5. FlattenSeq(r) \in Seq(T) /\ FlattenSeq(u) \in Seq(T)
  BY FlattenType
<1>6. (FlattenSeq(r) \o FlattenSeq(u)) \o e = FlattenSeq(r) \o (FlattenSeq(u) \o e)
  BY <1>5, ConcatAssociative, SMTT(40)
<1>7. QED BY <1>3, <1>4, <1>6

\* Lists put one behind the other are put together one behind the other.
LEMMA FlattenConcat ==
    ASSUME NEW T, NEW r \in Seq(Seq(T)), NEW s \in Seq(Seq(T))
    PROVE  FlattenSeq(r \o s) = FlattenSeq(r) \o FlattenSeq(s)
<1> DEFINE Good == {n \in Nat : \A t \in Seq(Seq(T)) :
                      Len(t) = n => FlattenSeq(r \o t) = FlattenSeq(r) \o FlattenSeq(t)}
<1>1. FlattenSeq(r) \in Seq(T)
  BY FlattenType
<1>2. 0 \in Good
  <2> SUFFICES ASSUME NEW t \in Seq(Seq(T)), Len(t) = 0
               PROVE  FlattenSeq(r \o t) = FlattenSeq(r) \o FlattenSeq(t)
    OBVIOUS
  <2>1. t = <<>>
    BY EmptySeq
  <2>2. r \o <<>> = r /\ FlattenSeq(r) \o <<>> = FlattenSeq(r)
    BY <1>1, ConcatEmptySeq
  <2>3. QED BY <2>1, <2>2, FlattenEmpty
<1>3. ASSUME NEW m \in Nat \ {0}, m - 1 \in Good PROVE m \in Good
  <2> SUFFICES ASSUME NEW t \in Seq(Seq(T)), Len(t) = m
               PROVE  FlattenSeq(r \o t) = FlattenSeq(r) \o FlattenSeq(t)
    OBVIOUS
  <2>1. PICK u \in Seq(Seq(T)), e \in Seq(T) : t = Append(u, e)
    <3>1. t # <<>>
      BY <1>3
    <3>2. QED BY <3>1, SequenceEmptyOrAppend
  <2>2. Len(u) = m - 1
    BY <2>1, AppendProperties
  <2>3. FlattenSeq(r \o u) = FlattenSeq(r) \o FlattenSeq(u)
    BY <1>3, <2>2
  <2> HIDE DEF Good
  <2>4. QED BY <2>1, <2>3, FlattenConcatStep
<1> HIDE DEF Good
<1>4. \A n \in Nat : n \in Good
  BY <1>2, <1>3, Induction
<1>5. Len(s) \in Nat /\ Len(s) \in Good
  BY <1>4
<1>6. QED BY <1>5 DEF Good

----------------------------------------------------------------------------
(* What FoldLeft makes of frame_append *)

\* Max, of numbers up to n.
LEMMA Greatest ==
    ASSUME NEW n \in Nat, NEW S \in SUBSET (1 .. n), S # {}
    PROVE  Max(S) \in S /\ \A k \in S : k <= Max(S)
<1> DEFINE D == {d \in Nat : n - d \in S}
<1>1. D # {}
  <2>1. PICK k \in S : TRUE
    OBVIOUS
  <2>2. k \in 1 .. n /\ n - (n - k) = k /\ n - k \in Nat
    OBVIOUS
  <2>3. n - k \in D
    BY <2>2
  <2>4. QED BY <2>3
<1>2. PICK d \in D : \A x \in D : d <= x
  BY <1>1, Least
<1>3. n - d \in S /\ d \in Nat
  OBVIOUS
<1>4. ASSUME NEW k \in S PROVE n - d >= k
  <2>1. k \in 1 .. n /\ n - (n - k) = k /\ n - k \in Nat
    OBVIOUS
  <2>2. n - k \in D
    BY <2>1
  <2>3. d <= n - k
    BY <1>2, <2>2
  <2>4. QED BY <1>3, <2>1, <2>3
<1>5. \E x \in S : \A y \in S : x >= y
  BY <1>3, <1>4
<1>6. Max(S) \in S /\ \A y \in S : Max(S) >= y
  BY <1>5 DEF Max
<1>7. QED BY <1>6

\* f[s] is b with the pieces ps[k], k in s, appended in their order.
Folds(f, b, ps, n) ==
    f = [s \in SUBSET (1 .. n) |->
           IF s = {} THEN b
           ELSE frame_append(f[s \ {Max(s)}], ps[Max(s)])]

\* The fold FoldLeft chooses exists, whatever the pieces are.
LEMMA FoldExists ==
    ASSUME NEW b, NEW ps
    PROVE  \A n \in Nat : \E f : Folds(f, b, ps, n)
<1> DEFINE Good == {n \in Nat : \E f : Folds(f, b, ps, n)}
<1>1. 0 \in Good
  <2> DEFINE f == [s \in SUBSET (1 .. 0) |-> b]
  <2>1. \A s \in SUBSET (1 .. 0) : s = {}
    OBVIOUS
  <2>2. Folds(f, b, ps, 0)
    BY <2>1 DEF Folds
  <2>3. QED BY <2>2
<1>2. ASSUME NEW m \in Nat \ {0}, m - 1 \in Good PROVE m \in Good
  <2>1. PICK f : Folds(f, b, ps, m - 1)
    BY <1>2
  <2> DEFINE In(s) == s \in SUBSET (1 .. m - 1)
             g == [s \in SUBSET (1 .. m) |->
                     IF In(s) THEN f[s] ELSE frame_append(f[s \ {m}], ps[m])]
  <2>2. ASSUME NEW s \in SUBSET (1 .. m)
        PROVE  g[s] = IF s = {} THEN b ELSE frame_append(g[s \ {Max(s)}], ps[Max(s)])
    <3>1. g[s] = IF In(s) THEN f[s] ELSE frame_append(f[s \ {m}], ps[m])
      OBVIOUS
    <3>2. \A k : k \in 1 .. m <=> k \in 1 .. m - 1 \/ k = m
      OBVIOUS
    <3>3. CASE In(s)
      <4>1. f[s] = IF s = {} THEN b ELSE frame_append(f[s \ {Max(s)}], ps[Max(s)])
        BY <2>1, <3>3 DEF Folds
      <4>2. In(s \ {Max(s)}) /\ s \ {Max(s)} \in SUBSET (1 .. m)
        BY <3>2, <3>3
      <4>3. g[s \ {Max(s)}] = f[s \ {Max(s)}]
        BY <4>2
      <4>4. QED BY <3>1, <3>3, <4>1, <4>3
    <3>4. CASE ~In(s)
      <4>1. m \in s /\ s # {}
        BY <3>2, <3>4
      <4>2. Max(s) = m
        <5>1. Max(s) \in s /\ m <= Max(s)
          BY <4>1, Greatest
        <5>2. Max(s) \in 1 .. m
          BY <5>1
        <5>3. QED BY <5>1, <5>2
      <4>3. In(s \ {m}) /\ s \ {m} \in SUBSET (1 .. m)
        BY <3>2
      <4>4. g[s \ {m}] = f[s \ {m}]
        BY <4>3
      <4>5. QED BY <3>1, <3>4, <4>1, <4>2, <4>4
    <3>5. QED BY <3>3, <3>4
  <2> HIDE DEF g
  <2>3. g = [s \in SUBSET (1 .. m) |-> g[s]]
    BY DEF g
  <2>4. Folds(g, b, ps, m)
    BY <2>2, <2>3 DEF Folds
  <2>5. QED BY <2>4
<1> HIDE DEF Good
<1>3. \A n \in Nat : n \in Good
  BY <1>1, <1>2, Induction
<1>4. QED BY <1>3 DEF Good

\* So FoldLeft over a sequence is that function of all its places.
LEMMA FoldIs ==
    ASSUME NEW b, NEW ps, NEW n \in Nat, DOMAIN ps = 1 .. n
    PROVE  \E f : Folds(f, b, ps, n) /\ FoldLeft(frame_append, b, ps) = f[1 .. n]
<1> DEFINE f == CHOOSE g : Folds(g, b, ps, n)
<1>1. Folds(f, b, ps, n)
  BY FoldExists
<1>2. FoldLeft(frame_append, b, ps) = f[1 .. n]
  BY DEF FoldLeft, MapThenFoldSet, Folds
<1>3. QED BY <1>1, <1>2
----------------------------------------------------------------------------
(* Streams *)

Symbol == (NalTypes \cup {"sc", "body"}) \X Nat \X Nat \X Nat
Stream == Seq(Symbol)
Nals   == [t : NalTypes, n : Nat]

\* What is used of streams put one after the other.
LEMMA StreamConcat ==
    ASSUME NEW s \in Stream, NEW t \in Stream
    PROVE  /\ s \o t \in Stream /\ Len(s) \in Nat /\ Len(t) \in Nat
           /\ Len(s \o t) = Len(s) + Len(t)
           /\ \A i \in 1 .. Len(s) : (s \o t)[i] = s[i]
           /\ \A i \in 1 .. Len(t) : (s \o t)[Len(s) + i] = t[i]
<1>1. s \in Seq(Symbol) /\ t \in Seq(Symbol)
  BY DEF Stream
<1>2. /\ s \o t \in Seq(Symbol) /\ Len(s) \in Nat /\ Len(t) \in Nat
      /\ Len(s \o t) = Len(s) + Len(t)
      /\ \A i \in 1 .. Len(s) + Len(t) : (s \o t)[i] =
                  IF i <= Len(s) THEN s[i] ELSE t[i - Len(s)]
  BY <1>1, ConcatProperties
<1>3. ASSUME NEW i \in 1 .. Len(s) PROVE (s \o t)[i] = s[i]
  BY <1>2
<1>4. ASSUME NEW i \in 1 .. Len(t) PROVE (s \o t)[Len(s) + i] = t[i]
  <2>1. /\ Len(s) + i \in 1 .. Len(s) + Len(t)
        /\ ~(Len(s) + i <= Len(s)) /\ (Len(s) + i) - Len(s) = i
    BY <1>2
  <2>2. QED BY <1>2, <2>1
<1>5. QED BY <1>2, <1>3, <1>4 DEF Stream

\* Where the brackets are does not matter.
LEMMA StreamAssociative ==
    ASSUME NEW s \in Stream, NEW t \in Stream, NEW u \in Stream
    PROVE  (s \o t) \o u = s \o (t \o u)
BY ConcatAssociative DEF Stream

\* Nothing is a stream and adds nothing.
LEMMA StreamEmpty ==
    /\ <<>> \in Stream /\ Len(<<>>) = 0
    /\ \A s \in Stream : s \o <<>> = s /\ <<>> \o s = s
BY ConcatEmptySeq, EmptySeq DEF Stream

\* A NAL unit is a stream: its header and its payload.
LEMMA NalUnitType ==
    ASSUME NEW k \in Nat, NEW j \in Nat, NEW nal \in Nals
    PROVE  /\ NalUnit(k, j, nal) \in Stream
           /\ Len(NalUnit(k, j, nal)) = nal.n + 1
           /\ NalUnit(k, j, nal)[1] = <<nal.t, k, j, 0>>
           /\ \A b \in 1 .. nal.n : NalUnit(k, j, nal)[b + 1] = <<"body", k, j, b>>
<1> DEFINE head == <<<<nal.t, k, j, 0>>>>
           body == [b \in 1 .. nal.n |-> <<"body", k, j, b>>]
<1>1. nal.t \in NalTypes /\ nal.n \in Nat
  BY DEF Nals
<1>2. <<nal.t, k, j, 0>> \in Symbol
  BY <1>1 DEF Symbol
<1>3. head \in Stream /\ Len(head) = 1 /\ head[1] = <<nal.t, k, j, 0>>
  BY <1>2 DEF Stream
<1>4. \A b \in 1 .. nal.n : <<"body", k, j, b>> \in Symbol
  BY DEF Symbol
<1>5. body \in Stream /\ Len(body) = nal.n
         /\ \A b \in 1 .. nal.n : body[b] = <<"body", k, j, b>>
  BY <1>1, <1>4 DEF Stream
<1>6. NalUnit(k, j, nal) = head \o body
  BY DEF NalUnit
<1> HIDE DEF head, body
<1>7. /\ head \o body \in Stream /\ Len(head \o body) = Len(head) + Len(body)
      /\ \A i \in 1 .. Len(head) : (head \o body)[i] = head[i]
      /\ \A i \in 1 .. Len(body) : (head \o body)[Len(head) + i] = body[i]
  <2>1. head \in Stream /\ body \in Stream
    BY <1>3, <1>5
  <2>2. QED BY ONLY <2>1, StreamConcat
<1>8. (head \o body)[1] = <<nal.t, k, j, 0>>
  <2>1. 1 \in 1 .. Len(head)
    BY <1>3
  <2>2. QED BY <2>1, <1>3, <1>7
<1>9. ASSUME NEW b \in 1 .. nal.n PROVE (head \o body)[b + 1] = <<"body", k, j, b>>
  <2>1. b \in 1 .. Len(body) /\ Len(head) + b = b + 1
    BY <1>1, <1>3, <1>5
  <2>2. QED BY <2>1, <1>5, <1>7
<1>10. Len(head \o body) = nal.n + 1
  BY <1>1, <1>3, <1>5, <1>7
<1>11. QED BY <1>6, <1>7, <1>8, <1>9, <1>10

\* So is a start code.
LEMMA StartCode == start_code \in Symbol /\ <<start_code>> \in Stream
<1>1. start_code \in Symbol
  BY DEF start_code, Symbol
<1>2. QED BY <1>1 DEF Stream

\* frame_append never goes over the room there is.
LEMMA AppendFits ==
    ASSUME NEW b \in Stream, Len(b) <= frame_cap, NEW piece \in Stream
    PROVE  /\ frame_append(b, piece) \in Stream
           /\ Len(frame_append(b, piece)) <= frame_cap
           /\ Len(b) + Len(piece) <= frame_cap => frame_append(b, piece) = b \o piece
<1>1. frame_cap \in Nat
  BY RtpAssumption
<1>2. /\ Len(b) \in Nat /\ Len(piece) \in Nat
      /\ b \o piece \in Stream /\ Len(b \o piece) = Len(b) + Len(piece)
  BY StreamConcat
<1>3. CASE Len(b) + Len(piece) > frame_cap
  BY <1>1, <1>2, <1>3 DEF frame_append
<1>4. CASE ~(Len(b) + Len(piece) > frame_cap)
  BY <1>1, <1>2, <1>4 DEF frame_append
<1>5. QED BY <1>3, <1>4

\* If what came before the piece is in the frame, and the piece fits too, both
\* are.
LEMMA AppendKeeps ==
    ASSUME NEW b \in Stream, NEW g \in Stream, Len(g) <= frame_cap,
           NEW front \in Stream, NEW piece \in Stream,
           Len(b) + Len(front) <= frame_cap => g = b \o front
    PROVE  Len(b) + Len(front \o piece) <= frame_cap
               => frame_append(g, piece) = b \o (front \o piece)
<1> SUFFICES ASSUME Len(b) + Len(front \o piece) <= frame_cap
             PROVE  frame_append(g, piece) = b \o (front \o piece)
  OBVIOUS
<1>1. /\ Len(b) \in Nat /\ Len(front) \in Nat /\ Len(piece) \in Nat
      /\ Len(front \o piece) = Len(front) + Len(piece)
      /\ Len(b \o front) = Len(b) + Len(front)
  BY StreamConcat
<1>2. frame_cap \in Nat
  BY RtpAssumption
<1>3. g = b \o front
  BY <1>1, <1>2
<1>4. Len(g) + Len(piece) <= frame_cap
  BY <1>1, <1>2, <1>3
<1>5. frame_append(g, piece) = (b \o front) \o piece
  BY <1>3, <1>4, AppendFits
<1>6. QED BY <1>5, StreamAssociative

\* The last of 1 .. m.
LEMMA EndOfInterval ==
    ASSUME NEW n \in Nat, NEW m \in 1 .. n
    PROVE  /\ 1 .. m \in SUBSET (1 .. n) /\ 1 .. m # {}
           /\ Max(1 .. m) = m /\ (1 .. m) \ {m} = 1 .. m - 1
<1>1. m \in Nat /\ 1 .. m \in SUBSET (1 .. m) /\ m \in 1 .. m
  OBVIOUS
<1>2. Max(1 .. m) \in 1 .. m /\ m <= Max(1 .. m)
  BY <1>1, Greatest
<1>3. QED BY <1>1, <1>2

\* The first m + 1 sequences of r, in one, are the first m and the next.
LEMMA FlattenNext ==
    ASSUME NEW T, NEW r \in Seq(Seq(T)), NEW m \in 1 .. Len(r)
    PROVE  /\ FlattenSeq(SubSeq(r, 1, m - 1)) \in Seq(T)
           /\ FlattenSeq(SubSeq(r, 1, m))
                  = FlattenSeq(SubSeq(r, 1, m - 1)) \o r[m]
<1>1. /\ SubSeq(r, 1, m) \in Seq(Seq(T)) /\ Len(SubSeq(r, 1, m)) = m
      /\ \A i \in 1 .. m : SubSeq(r, 1, m)[i] = r[i]
  OBVIOUS
<1>2. /\ SubSeq(r, 1, m - 1) \in Seq(Seq(T)) /\ Len(SubSeq(r, 1, m - 1)) = m - 1
      /\ \A i \in 1 .. m - 1 : SubSeq(r, 1, m - 1)[i] = r[i]
  OBVIOUS
<1>3. \A i \in 1 .. m - 1 : SubSeq(r, 1, m)[i] = SubSeq(r, 1, m - 1)[i]
  BY <1>1, <1>2
<1>4. Len(SubSeq(r, 1, m)) = Len(SubSeq(r, 1, m - 1)) + 1
  BY <1>1, <1>2
<1>5. SubSeq(r, 1, m)[m] = r[m]
  BY <1>1
<1>6. FlattenSeq(SubSeq(r, 1, m))
          = FlattenSeq(SubSeq(r, 1, m - 1)) \o SubSeq(r, 1, m)[Len(SubSeq(r, 1, m))]
  <2>1. \A i \in 1 .. Len(SubSeq(r, 1, m - 1)) :
            SubSeq(r, 1, m)[i] = SubSeq(r, 1, m - 1)[i]
    BY <1>2, <1>3
  <2>2. QED BY <1>1, <1>2, <1>4, <2>1, FlattenLonger
<1>7. QED BY <1>1, <1>2, <1>5, <1>6, FlattenType

\* What a packet's pieces make of a frame: a frame that fits, and, where all
\* that is put together fits, just that.
LEMMA FoldFits ==
    ASSUME NEW b \in Stream, Len(b) <= frame_cap, NEW ps \in Seq(Stream)
    PROVE  /\ FoldLeft(frame_append, b, ps) \in Stream
           /\ Len(FoldLeft(frame_append, b, ps)) <= frame_cap
           /\ Len(b) + Len(FlattenSeq(ps)) <= frame_cap
                => FoldLeft(frame_append, b, ps) = b \o FlattenSeq(ps)
<1> DEFINE n == Len(ps)
           Opening(m) == FlattenSeq(SubSeq(ps, 1, m))
<1>1. n \in Nat /\ DOMAIN ps = 1 .. n
  BY LenProperties
<1>2. PICK f : Folds(f, b, ps, n) /\ FoldLeft(frame_append, b, ps) = f[1 .. n]
  BY <1>1, FoldIs
<1>3. f[{}] = b
  BY <1>2 DEF Folds
<1>4. ASSUME NEW m \in 1 .. n PROVE f[1 .. m] = frame_append(f[1 .. m - 1], ps[m])
  <2>1. /\ 1 .. m \in SUBSET (1 .. n) /\ 1 .. m # {}
        /\ Max(1 .. m) = m /\ (1 .. m) \ {m} = 1 .. m - 1
    BY <1>1, EndOfInterval
  <2>2. QED BY <1>2, <2>1 DEF Folds
<1>5. ASSUME NEW m \in 1 .. n
      PROVE  /\ ps[m] \in Stream /\ Opening(m - 1) \in Stream
             /\ Opening(m) = Opening(m - 1) \o ps[m]
  <2>1. ps[m] \in Stream
    BY <1>1
  <2>2. QED BY <2>1, FlattenNext DEF Stream
<1>6. Opening(0) = <<>>
  <2>1. SubSeq(ps, 1, 0) = <<>>
    BY SubSeqEmpty
  <2>2. QED BY <2>1, FlattenEmpty
<1>7. Opening(n) = FlattenSeq(ps)
  <2>1. SubSeq(ps, 1, n) = ps
    BY SubSeqFull
  <2>2. QED BY <2>1
<1> HIDE DEF n, Opening
<1> DEFINE Right(m) == /\ f[1 .. m] \in Stream
                       /\ Len(f[1 .. m]) <= frame_cap
                       /\ Len(b) + Len(Opening(m)) <= frame_cap
                            => f[1 .. m] = b \o Opening(m)
           Good == {m \in Nat : m \in 0 .. n => Right(m)}
<1>8. Right(0)
  <2>1. 1 .. 0 = {} /\ b \o <<>> = b
    BY StreamEmpty
  <2>2. QED BY <2>1, <1>3, <1>6
<1>9. ASSUME NEW m \in 1 .. n, Right(m - 1) PROVE Right(m)
  <2>1. /\ f[1 .. m] = frame_append(f[1 .. m - 1], ps[m])
        /\ ps[m] \in Stream /\ Opening(m - 1) \in Stream
        /\ Opening(m) = Opening(m - 1) \o ps[m]
    BY <1>4, <1>5
  <2>2. f[1 .. m] \in Stream /\ Len(f[1 .. m]) <= frame_cap
    BY <1>9, <2>1, AppendFits
  <2>3. Len(b) + Len(Opening(m - 1) \o ps[m]) <= frame_cap
            => frame_append(f[1 .. m - 1], ps[m]) = b \o (Opening(m - 1) \o ps[m])
    <3>1. /\ f[1 .. m - 1] \in Stream /\ Len(f[1 .. m - 1]) <= frame_cap
          /\ Len(b) + Len(Opening(m - 1)) <= frame_cap
                => f[1 .. m - 1] = b \o Opening(m - 1)
      BY <1>9
    <3>2. QED BY ONLY <2>1, <3>1, b \in Stream, AppendKeeps, ZenonT(60)
  <2>4. QED BY <2>1, <2>2, <2>3
<1> HIDE DEF Right
<1>10. 0 \in Good
  BY <1>8
<1>11. ASSUME NEW m \in Nat \ {0}, m - 1 \in Good PROVE m \in Good
  <2>1. m \in 0 .. n => m \in 1 .. n /\ m - 1 \in 0 .. n
    BY <1>1
  <2>2. QED BY <2>1, <1>9, <1>11
<1> HIDE DEF Good
<1>12. \A m \in Nat : m \in Good
  BY <1>10, <1>11, Induction
<1>13. Right(n)
  BY <1>1, <1>12 DEF Good
<1>14. QED
  BY <1>2, <1>7, <1>13 DEF Right

----------------------------------------------------------------------------
(* What packets carry *)

\* The lemmas on sequences put together, of streams.
LEMMA StreamFlatten ==
    ASSUME NEW r \in Seq(Stream)
    PROVE  FlattenSeq(r) \in Stream
BY FlattenType DEF Stream

\* FlattenLonger, of streams.
LEMMA StreamFlattenLonger ==
    ASSUME NEW r \in Seq(Stream), NEW s \in Seq(Stream),
           Len(s) = Len(r) + 1, \A i \in 1 .. Len(r) : s[i] = r[i]
    PROVE  FlattenSeq(s) = FlattenSeq(r) \o s[Len(s)]
BY FlattenLonger DEF Stream

\* FlattenAppend, of streams.
LEMMA StreamFlattenAppend ==
    ASSUME NEW r \in Seq(Stream), NEW e \in Stream
    PROVE  FlattenSeq(Append(r, e)) = FlattenSeq(r) \o e
BY FlattenAppend DEF Stream

\* FlattenConcat, of streams.
LEMMA StreamFlattenConcat ==
    ASSUME NEW r \in Seq(Stream), NEW s \in Seq(Stream)
    PROVE  FlattenSeq(r \o s) = FlattenSeq(r) \o FlattenSeq(s)
BY FlattenConcat DEF Stream

\* Tuples, built one by one.
LEMMA Tuples ==
    ASSUME NEW T, NEW a \in T, NEW b \in T, NEW c \in T
    PROVE  /\ Append(<<>>, a) = <<a>> /\ Append(<<a>>, b) = <<a, b>>
           /\ Append(<<a, b>>, c) = <<a, b, c>>
<1>1. Append(<<>>, a) = <<a>>
  OBVIOUS
<1>2. Append(<<a>>, b) = <<a, b>>
  <2> DEFINE s == Append(<<a>>, b)
             t == <<a, b>>
  <2>1. /\ s \in Seq(T) /\ Len(s) = 2 /\ s[1] = a /\ s[2] = b
        /\ t \in Seq(T) /\ Len(t) = 2 /\ t[1] = a /\ t[2] = b
    OBVIOUS
  <2> HIDE DEF s, t
  <2>2. \A i \in 1 .. Len(s) : s[i] = t[i]
    BY <2>1
  <2>3. s = t
    BY <2>1, <2>2, SeqEqual
  <2>4. QED BY <2>3 DEF s, t
<1>3. Append(<<a, b>>, c) = <<a, b, c>>
  <2> DEFINE s == Append(<<a, b>>, c)
             t == <<a, b, c>>
  <2>1. /\ s \in Seq(T) /\ Len(s) = 3 /\ s[1] = a /\ s[2] = b /\ s[3] = c
        /\ t \in Seq(T) /\ Len(t) = 3 /\ t[1] = a /\ t[2] = b /\ t[3] = c
    OBVIOUS
  <2> HIDE DEF s, t
  <2>2. \A i \in 1 .. Len(s) : s[i] = t[i]
    BY <2>1
  <2>3. s = t
    BY <2>1, <2>2, SeqEqual
  <2>4. QED BY <2>3 DEF s, t
<1>4. QED BY <1>1, <1>2, <1>3

\* One, two and three streams put together.
LEMMA FlattenFew ==
    ASSUME NEW a \in Stream, NEW b \in Stream, NEW c \in Stream
    PROVE  /\ FlattenSeq(<<a>>) = a
           /\ FlattenSeq(<<a, b>>) = a \o b
           /\ FlattenSeq(<<a, b, c>>) = (a \o b) \o c
<1>1. <<>> \in Seq(Stream) /\ <<a>> \in Seq(Stream) /\ <<a, b>> \in Seq(Stream)
  OBVIOUS
<1>2. /\ Append(<<>>, a) = <<a>> /\ Append(<<a>>, b) = <<a, b>>
      /\ Append(<<a, b>>, c) = <<a, b, c>>
  BY Tuples
<1>3. FlattenSeq(<<a>>) = a
  <2>1. FlattenSeq(Append(<<>>, a)) = FlattenSeq(<<>>) \o a
    BY <1>1, StreamFlattenAppend
  <2>2. QED BY <2>1, <1>2, FlattenEmpty, StreamEmpty
<1>4. FlattenSeq(Append(<<a>>, b)) = FlattenSeq(<<a>>) \o b
  BY <1>1, StreamFlattenAppend
<1>5. FlattenSeq(Append(<<a, b>>, c)) = FlattenSeq(<<a, b>>) \o c
  BY <1>1, StreamFlattenAppend
<1>6. QED BY <1>2, <1>3, <1>4, <1>5

PacketOK(p) ==
    /\ p.n \in Int /\ p.marker \in BOOLEAN /\ p.start \in BOOLEAN
    /\ p.kind \in {"annexb", "single", "aggregate", "fragment"}
    /\ p.nals \in Seq(Stream) /\ p.nals # <<>>
    /\ p.kind = "fragment" => Len(p.nals) = 2

\* The symbols a packet brings.
Carries(p) == IF p.kind = "annexb" THEN p.nals[1] ELSE FlattenSeq(Pieces(p))

\* What a packet is appended in are streams, and so is all of it.
LEMMA PiecesType ==
    ASSUME NEW p, PacketOK(p)
    PROVE  Pieces(p) \in Seq(Stream) /\ Carries(p) \in Stream
<1>1. Len(p.nals) \in Nat \ {0} /\ p.nals[1] \in Stream
  BY DEF PacketOK
<1>2. Pieces(p) \in Seq(Stream)
  <2>1. CASE p.kind = "fragment"
    <3>1. p.nals[2] \in Stream
      BY <2>1, <1>1 DEF PacketOK
    <3>2. Rejoined(p) \in Seq(Stream)
      BY <1>1, <3>1, StartCode DEF Rejoined
    <3>3. QED BY <2>1, <3>2 DEF Pieces
  <2>2. CASE p.kind \in {"single", "aggregate"}
    <3> DEFINE pairs == [x \in DOMAIN p.nals |-> <<<<start_code>>, p.nals[x]>>]
    <3>1. DOMAIN p.nals = 1 .. Len(p.nals) /\ \A x \in DOMAIN p.nals : p.nals[x] \in Stream
      BY DEF PacketOK
    <3>2. \A x \in DOMAIN p.nals : <<<<start_code>>, p.nals[x]>> \in Seq(Stream)
      BY <3>1, StartCode
    <3>3. pairs \in Seq(Seq(Stream))
      BY <1>1, <3>1, <3>2
    <3>4. FlattenSeq(pairs) \in Seq(Stream)
      BY <3>3, FlattenType
    <3>5. QED BY <2>2, <3>4 DEF Pieces
  <2>3. CASE p.kind = "annexb"
    BY <2>3 DEF Pieces
  <2>4. QED BY <2>1, <2>2, <2>3 DEF PacketOK
<1>3. QED BY <1>1, <1>2, StreamFlatten DEF Carries

\* The frame with a packet's pieces: it fits, and if all of the packet's
\* symbols do, they are behind those that were there.
LEMMA DepacketizedFits ==
    ASSUME NEW p, PacketOK(p), frame \in Stream, Len(frame) <= frame_cap
    PROVE  /\ Depacketized(p) \in Stream /\ Len(Depacketized(p)) <= frame_cap
           /\ p.kind # "annexb" /\ Len(frame) + Len(Carries(p)) <= frame_cap
                => Depacketized(p) = frame \o Carries(p)
BY PiecesType, FoldFits DEF Depacketized, Carries

----------------------------------------------------------------------------
(* Pictures *)

\* The first m NAL units of picture k.
NalCode(shape, k, j) == <<start_code>> \o NalUnit(k, j, shape[j])
Opening(shape, k, m) == FlattenSeq([j \in 1 .. m |-> NalCode(shape, k, j)])

\* A NAL unit behind its start code is a stream.
LEMMA NalCodeType ==
    ASSUME NEW shape \in Seq(Nals), NEW k \in Nat, NEW j \in 1 .. Len(shape)
    PROVE  NalUnit(k, j, shape[j]) \in Stream /\ NalCode(shape, k, j) \in Stream
<1>1. shape[j] \in Nals /\ j \in Nat
  OBVIOUS
<1>2. NalUnit(k, j, shape[j]) \in Stream
  BY <1>1, NalUnitType
<1>3. QED BY <1>2, StartCode, StreamConcat DEF NalCode

\* A picture begins with its NAL units one after the other.
LEMMA OpeningNext ==
    ASSUME NEW shape \in Seq(Nals), NEW k \in Nat
    PROVE  /\ Opening(shape, k, 0) = <<>>
           /\ \A m \in 0 .. Len(shape) : Opening(shape, k, m) \in Stream
           /\ \A m \in 1 .. Len(shape) :
                Opening(shape, k, m) = Opening(shape, k, m - 1) \o NalCode(shape, k, m)
<1> DEFINE list(m) == [j \in 1 .. m |-> NalCode(shape, k, j)]
<1>1. ASSUME NEW m \in 0 .. Len(shape)
      PROVE  list(m) \in Seq(Stream) /\ Len(list(m)) = m
  <2>1. \A j \in 1 .. m : NalCode(shape, k, j) \in Stream
    BY NalCodeType
  <2>2. QED BY <2>1
<1>2. list(0) = <<>>
  OBVIOUS
<1>3. ASSUME NEW m \in 1 .. Len(shape)
      PROVE  FlattenSeq(list(m)) = FlattenSeq(list(m - 1)) \o NalCode(shape, k, m)
  <2>1. m \in 0 .. Len(shape) /\ m - 1 \in 0 .. Len(shape)
    OBVIOUS
  <2>2. \A i \in 1 .. m - 1 : list(m)[i] = list(m - 1)[i]
    OBVIOUS
  <2>3. list(m)[m] = NalCode(shape, k, m)
    OBVIOUS
  <2>4. /\ list(m) \in Seq(Stream) /\ list(m - 1) \in Seq(Stream)
        /\ Len(list(m)) = m /\ Len(list(m - 1)) = m - 1
    BY <1>1, <2>1
  <2> HIDE DEF list
  <2>5. /\ Len(list(m)) = Len(list(m - 1)) + 1
        /\ \A i \in 1 .. Len(list(m - 1)) : list(m)[i] = list(m - 1)[i]
    BY <2>2, <2>4
  <2>6. FlattenSeq(list(m)) = FlattenSeq(list(m - 1)) \o list(m)[Len(list(m))]
    BY <2>4, <2>5, StreamFlattenLonger
  <2>7. QED BY <2>3, <2>4, <2>6
<1>4. \A m : Opening(shape, k, m) = FlattenSeq(list(m))
  BY DEF Opening
<1> HIDE DEF list
<1>5. QED BY <1>1, <1>2, <1>3, <1>4, StreamFlatten, FlattenEmpty

----------------------------------------------------------------------------
(* What the packets of a picture carry *)

\* The number of the NAL unit that is next when those left are, and the unit.
Here(shape, left) == Len(shape) - Len(left) + 1
NextUnit(shape, k, left) == NalUnit(k, Here(shape, left), left[1])

\* How far picture k is sent when the NAL units left and done bytes of the
\* first of these are: the units before, and the part of that one.
Begun(shape, k, left, done) ==
    IF done = 0 THEN <<>>
    ELSE <<start_code>> \o SubSeq(NextUnit(shape, k, left), 1, done + 1)
SoFar(shape, k, left, done) ==
    Opening(shape, k, Len(shape) - Len(left)) \o Begun(shape, k, left, done)

\* What is left is the end of the shape.
IsEnd(left, shape) ==
    /\ left \in Seq(Nals) /\ Len(left) <= Len(shape)
    /\ \A x \in 1 .. Len(left) : left[x] = shape[Len(shape) - Len(left) + x]

Pairs(us, m) == [x \in 1 .. m |-> <<<<start_code>>, us[x]>>]

\* Start codes and NAL units in one.
LEMMA PairsType ==
    ASSUME NEW n \in Nat, NEW us, \A x \in 1 .. n : us[x] \in Stream
    PROVE  /\ \A m \in 0 .. n :
                /\ Pairs(us, m) \in Seq(Seq(Stream)) /\ Len(Pairs(us, m)) = m
                /\ FlattenSeq(Pairs(us, m)) \in Seq(Stream)
           /\ \A m \in 1 .. n :
                FlattenSeq(FlattenSeq(Pairs(us, m)))
                    = FlattenSeq(FlattenSeq(Pairs(us, m - 1))) \o (<<start_code>> \o us[m])
<1>1. ASSUME NEW m \in 0 .. n
      PROVE  /\ Pairs(us, m) \in Seq(Seq(Stream)) /\ Len(Pairs(us, m)) = m
             /\ FlattenSeq(Pairs(us, m)) \in Seq(Stream)
  <2>1. \A x \in 1 .. m : <<<<start_code>>, us[x]>> \in Seq(Stream)
    BY StartCode
  <2>2. Pairs(us, m) \in Seq(Seq(Stream)) /\ Len(Pairs(us, m)) = m
    BY <2>1 DEF Pairs
  <2>3. QED BY <2>2, FlattenType
<1>2. ASSUME NEW m \in 1 .. n
      PROVE  FlattenSeq(FlattenSeq(Pairs(us, m)))
                 = FlattenSeq(FlattenSeq(Pairs(us, m - 1))) \o (<<start_code>> \o us[m])
  <2>1. m \in 0 .. n /\ m - 1 \in 0 .. n /\ m \in 1 .. m
    OBVIOUS
  <2>2. Pairs(us, m)[m] = <<<<start_code>>, us[m]>>
    BY <2>1 DEF Pairs
  <2>3. \A x \in 1 .. m - 1 : Pairs(us, m)[x] = Pairs(us, m - 1)[x]
    BY DEF Pairs
  <2>4. /\ Pairs(us, m) \in Seq(Seq(Stream)) /\ Len(Pairs(us, m)) = m
        /\ Pairs(us, m - 1) \in Seq(Seq(Stream)) /\ Len(Pairs(us, m - 1)) = m - 1
        /\ FlattenSeq(Pairs(us, m - 1)) \in Seq(Stream)
    BY <1>1, <2>1
  <2>5. /\ Len(Pairs(us, m)) = Len(Pairs(us, m - 1)) + 1
        /\ \A x \in 1 .. Len(Pairs(us, m - 1)) : Pairs(us, m)[x] = Pairs(us, m - 1)[x]
    BY <2>3, <2>4
  <2>6. FlattenSeq(Pairs(us, m)) = FlattenSeq(Pairs(us, m - 1)) \o Pairs(us, m)[Len(Pairs(us, m))]
    BY ONLY <2>4, <2>5, FlattenLonger, ZenonT(30)
  <2>7. us[m] \in Stream /\ <<<<start_code>>, us[m]>> \in Seq(Stream)
    BY StartCode
  <2>8. FlattenSeq(FlattenSeq(Pairs(us, m - 1)) \o <<<<start_code>>, us[m]>>)
            = FlattenSeq(FlattenSeq(Pairs(us, m - 1))) \o FlattenSeq(<<<<start_code>>, us[m]>>)
    BY ONLY <2>4, <2>7, StreamFlattenConcat
  <2>9. FlattenSeq(<<<<start_code>>, us[m]>>) = <<start_code>> \o us[m]
    BY <2>7, StartCode, FlattenFew
  <2>10. QED BY <2>2, <2>4, <2>6, <2>8, <2>9
<1>3. QED BY <1>1, <1>2

Joins(whole, front, rest) == whole = front \o rest

\* The n NAL units behind the first J.
AreUnits(us, n, shape, k, J, end) ==
    /\ J \in Nat /\ n \in Nat /\ end = J + n /\ end <= Len(shape)
    /\ \A x \in 1 .. n : us[x] = NalUnit(k, J + x, shape[J + x])

\* Several NAL units bring the picture as many further.
LEMMA OpeningMore ==
    ASSUME NEW shape, shape \in Seq(Nals), NEW k, k \in Nat,
           NEW us, NEW n, NEW J, NEW end, AreUnits(us, n, shape, k, J, end)
    PROVE  Joins(Opening(shape, k, end), Opening(shape, k, J),
                 FlattenSeq(FlattenSeq(Pairs(us, n))))
<1> DEFINE Carry(m) == FlattenSeq(FlattenSeq(Pairs(us, m)))
           Right(m) == Opening(shape, k, J + m) = Opening(shape, k, J) \o Carry(m)
           Good == {m \in Nat : m \in 0 .. n => Right(m)}
<1> J \in 0 .. Len(shape) /\ n \in Nat /\ J + n <= Len(shape) /\ end = J + n
  BY DEF AreUnits
<1>0. ASSUME NEW x \in 1 .. n
      PROVE  /\ J + x \in 1 .. Len(shape) /\ us[x] \in Stream
             /\ NalCode(shape, k, J + x) = <<start_code>> \o us[x]
             /\ NalCode(shape, k, J + x) \in Stream
  <2>1. J + x \in 1 .. Len(shape)
    OBVIOUS
  <2>2. us[x] = NalUnit(k, J + x, shape[J + x])
    BY DEF AreUnits
  <2>3. QED BY <2>1, <2>2, NalCodeType DEF NalCode
<1>1. /\ \A m \in 0 .. n : FlattenSeq(Pairs(us, m)) \in Seq(Stream)
      /\ \A m \in 1 .. n : Carry(m) = Carry(m - 1) \o (<<start_code>> \o us[m])
  <2>1. \A x \in 1 .. n : us[x] \in Stream
    BY <1>0
  <2>2. QED BY <2>1, PairsType
<1>2. \A m \in 0 .. n : Carry(m) \in Stream
  BY <1>1, StreamFlatten
<1>3. /\ \A m \in 0 .. Len(shape) : Opening(shape, k, m) \in Stream
      /\ \A m \in 1 .. Len(shape) :
            Opening(shape, k, m) = Opening(shape, k, m - 1) \o NalCode(shape, k, m)
  BY OpeningNext
<1>4. Carry(0) = <<>>
  <2>1. Pairs(us, 0) = <<>>
    BY DEF Pairs
  <2>2. QED BY <2>1, FlattenEmpty
<1> HIDE DEF Carry
<1>5. Right(0)
  <2>1. Opening(shape, k, J) \o <<>> = Opening(shape, k, J)
    BY <1>3, StreamEmpty
  <2>2. J + 0 = J
    OBVIOUS
  <2>3. QED BY <2>1, <2>2, <1>4
<1>6. ASSUME NEW m \in 1 .. n, Right(m - 1) PROVE Right(m)
  <2>1. /\ J + m \in 1 .. Len(shape) /\ (J + m) - 1 = J + (m - 1)
        /\ m - 1 \in 0 .. n
    OBVIOUS
  <2>2. Opening(shape, k, J + m)
            = (Opening(shape, k, J) \o Carry(m - 1)) \o (<<start_code>> \o us[m])
    <3>1. Opening(shape, k, J + m)
              = Opening(shape, k, J + (m - 1)) \o NalCode(shape, k, J + m)
      BY <1>3, <2>1
    <3>2. NalCode(shape, k, J + m) = <<start_code>> \o us[m]
      BY <1>0
    <3>3. QED BY <1>6, <3>1, <3>2
  <2>3. /\ Opening(shape, k, J) \in Stream /\ Carry(m - 1) \in Stream
        /\ <<start_code>> \o us[m] \in Stream
    BY <1>0, <1>2, <1>3, <2>1
  <2>4. (Opening(shape, k, J) \o Carry(m - 1)) \o (<<start_code>> \o us[m])
            = Opening(shape, k, J) \o (Carry(m - 1) \o (<<start_code>> \o us[m]))
    BY ONLY <2>3, StreamAssociative
  <2>5. QED BY <1>1, <2>2, <2>4
<1> HIDE DEF Right
<1>7. 0 \in Good
  BY <1>5
<1>8. ASSUME NEW m \in Nat \ {0}, m - 1 \in Good PROVE m \in Good
  <2>1. m \in 0 .. n => m \in 1 .. n /\ m - 1 \in 0 .. n
    OBVIOUS
  <2>2. QED BY <2>1, <1>6, <1>8
<1> HIDE DEF Good
<1>9. \A m \in Nat : m \in Good
  BY <1>7, <1>8, Induction
<1>10. Right(n)
  BY <1>9 DEF Good
<1>11. QED BY <1>10 DEF Right, Carry, Joins

\* A part of a stream is one.
LEMMA SubStream ==
    ASSUME NEW s, s \in Stream, NEW a, NEW b, a \in Nat \ {0}, b \in Int, b <= Len(s)
    PROVE  /\ SubSeq(s, a, b) \in Stream
           /\ Len(SubSeq(s, a, b)) = IF a <= b THEN b - a + 1 ELSE 0
           /\ \A i \in 1 .. b - a + 1 : SubSeq(s, a, b)[i] = s[a + i - 1]
<1>1. \A i \in a .. b : s[i] \in Symbol
  BY DEF Stream
<1>2. a \in Int
  OBVIOUS
<1>3. QED BY <1>1, <1>2, SubSeqProperties DEF Stream

\* Two parts that meet are the part from the first to the last.
LEMMA StreamJoin ==
    ASSUME NEW s, s \in Stream, NEW a, NEW b, a \in Nat, b \in Nat, a <= b, b <= Len(s)
    PROVE  SubSeq(s, 1, a) \o SubSeq(s, a + 1, b) = SubSeq(s, 1, b)
<1>1. s \in Seq(Symbol)
  BY DEF Stream
<1>2. Len(s) \in Nat
  BY <1>1
<1>3. 1 \in 1 .. Len(s) + 1 /\ a \in 1 - 1 .. Len(s) /\ b \in a .. Len(s)
  BY <1>2
<1>4. QED BY <1>1, <1>3, ConcatAdjacentSubSeq

\* The NAL unit that is next.
LEMMA NextUnitType ==
    ASSUME NEW shape, shape \in Seq(Nals), NEW k, k \in Nat, NEW left,
           IsEnd(left, shape), left # <<>>
    PROVE  /\ Here(shape, left) \in 1 .. Len(shape)
           /\ shape[Here(shape, left)] = left[1] /\ left[1].n \in Nat
           /\ NextUnit(shape, k, left) \in Stream
           /\ Len(NextUnit(shape, k, left)) = left[1].n + 1
           /\ NextUnit(shape, k, left)[1] = <<left[1].t, k, Here(shape, left), 0>>
           /\ NalCode(shape, k, Here(shape, left))
                  = <<start_code>> \o NextUnit(shape, k, left)
<1> DEFINE j == Here(shape, left)
<1>1. Len(left) \in Nat \ {0} /\ Len(shape) \in Nat /\ Len(left) <= Len(shape)
  BY DEF IsEnd
<1>2. j \in 1 .. Len(shape) /\ j \in Nat
  BY <1>1 DEF Here
<1>3. shape[j] = left[1] /\ left[1] \in Nals
  <2>1. 1 \in 1 .. Len(left)
    BY <1>1
  <2>2. left[1] = shape[Len(shape) - Len(left) + 1]
    BY <2>1 DEF IsEnd
  <2>3. left[1] \in Nals
    BY <2>1 DEF IsEnd
  <2>4. QED BY <2>2, <2>3 DEF Here
<1>4. left[1].n \in Nat
  BY <1>3 DEF Nals
<1>5. /\ NalUnit(k, j, left[1]) \in Stream /\ Len(NalUnit(k, j, left[1])) = left[1].n + 1
      /\ NalUnit(k, j, left[1])[1] = <<left[1].t, k, j, 0>>
  BY <1>2, <1>3, NalUnitType
<1>6. QED BY <1>2, <1>3, <1>4, <1>5 DEF NextUnit, NalCode

\* The bytes done of the NAL unit that is next are a stream.
LEMMA BegunType ==
    ASSUME NEW shape, shape \in Seq(Nals), NEW k, k \in Nat, NEW left,
           IsEnd(left, shape), left # <<>>, NEW done, done \in Nat, done <= left[1].n
    PROVE  /\ SubSeq(NextUnit(shape, k, left), 1, done + 1) \in Stream
           /\ Begun(shape, k, left, done) \in Stream
<1>1. /\ NextUnit(shape, k, left) \in Stream
      /\ Len(NextUnit(shape, k, left)) = left[1].n + 1 /\ left[1].n \in Nat
  BY NextUnitType
<1>2. SubSeq(NextUnit(shape, k, left), 1, done + 1) \in Stream
  <2>1. 1 \in Nat \ {0} /\ done + 1 \in Int /\ done + 1 <= Len(NextUnit(shape, k, left))
    BY <1>1
  <2>2. QED BY <1>1, <2>1, SubStream
<1>3. <<start_code>> \in Stream /\ <<>> \in Stream
  BY StartCode, StreamEmpty
<1>4. QED BY <1>2, <1>3, StreamConcat DEF Begun

\* A NAL unit that is begun all the way is sent.
LEMMA BegunAll ==
    ASSUME NEW shape, shape \in Seq(Nals), NEW k, k \in Nat, NEW left,
           IsEnd(left, shape), left # <<>>
    PROVE  /\ IsEnd(Tail(left), shape) /\ Len(Tail(left)) = Len(left) - 1
           /\ left[1].n # 0 => SoFar(shape, k, Tail(left), 0) = SoFar(shape, k, left, left[1].n)
<1>1. /\ left \in Seq(Nals) /\ Len(left) \in Nat \ {0} /\ Len(shape) \in Nat
      /\ Len(left) <= Len(shape)
  BY DEF IsEnd
<1>2. /\ Tail(left) \in Seq(Nals) /\ Len(Tail(left)) = Len(left) - 1
      /\ \A i \in 1 .. Len(Tail(left)) : Tail(left)[i] = left[i + 1]
  BY <1>1, HeadTailProperties
<1>3. IsEnd(Tail(left), shape)
  <2>1. ASSUME NEW x \in 1 .. Len(Tail(left))
        PROVE  Tail(left)[x] = shape[Len(shape) - Len(Tail(left)) + x]
    <3>1. x + 1 \in 1 .. Len(left)
          /\ Len(shape) - Len(left) + (x + 1) = Len(shape) - Len(Tail(left)) + x
      BY <1>1, <1>2
    <3>2. left[x + 1] = shape[Len(shape) - Len(left) + (x + 1)]
      BY <3>1 DEF IsEnd
    <3>3. QED BY <3>1, <3>2, <1>2
  <2>2. QED BY <1>1, <1>2, <2>1 DEF IsEnd
<1> DEFINE j == Here(shape, left)
           u == NextUnit(shape, k, left)
<1>4. /\ j \in 1 .. Len(shape) /\ left[1].n \in Nat /\ u \in Stream
      /\ Len(u) = left[1].n + 1 /\ NalCode(shape, k, j) = <<start_code>> \o u
  BY NextUnitType
<1>5. SubSeq(u, 1, left[1].n + 1) = u
  BY <1>4, SubSeqFull DEF Stream
<1>6. ASSUME left[1].n # 0
      PROVE  SoFar(shape, k, Tail(left), 0) = SoFar(shape, k, left, left[1].n)
  <2>1. /\ Opening(shape, k, j) \in Stream
        /\ Opening(shape, k, j) = Opening(shape, k, j - 1) \o NalCode(shape, k, j)
    <3>1. j \in 0 .. Len(shape)
      BY <1>4
    <3>2. QED BY <3>1, <1>4, OpeningNext
  <2>2. j - 1 = Len(shape) - Len(left) /\ j = Len(shape) - Len(Tail(left))
    BY <1>1, <1>2 DEF Here
  <2>3. SoFar(shape, k, Tail(left), 0) = Opening(shape, k, j) \o <<>>
    BY <2>2 DEF SoFar, Begun
  <2>4. SoFar(shape, k, left, left[1].n) = Opening(shape, k, j - 1) \o NalCode(shape, k, j)
    BY <1>4, <1>5, <1>6, <2>2 DEF SoFar, Begun
  <2>5. QED BY <2>1, <2>3, <2>4, StreamEmpty
<1>7. QED BY <1>2, <1>3, <1>6

\* The bytes of the NAL unit that is next, up to one of them, behind those done.
IsFragment(p, shape, k, left, done, upto) ==
    /\ done \in Nat /\ upto \in Nat /\ done < upto /\ upto <= left[1].n
    /\ p.kind = "fragment" /\ (p.start <=> done = 0)
    /\ p.nals[1] = SubSeq(NextUnit(shape, k, left), done + 2, upto + 1)
    /\ p.nals[2] = <<<<left[1].t, k, Here(shape, left), 0>>>>

\* One fragment brings it as many bytes further.
LEMMA FragmentCarries ==
    ASSUME NEW shape, shape \in Seq(Nals), NEW k, k \in Nat, NEW left,
           IsEnd(left, shape), left # <<>>,
           NEW done, NEW upto, NEW p, IsFragment(p, shape, k, left, done, upto)
    PROVE  Joins(SoFar(shape, k, left, upto), SoFar(shape, k, left, done), Carries(p))
<1> DEFINE u == NextUnit(shape, k, left)
           head == <<<<left[1].t, k, Here(shape, left), 0>>>>
           rest == SubSeq(u, done + 2, upto + 1)
           first(x) == SubSeq(u, 1, x + 1)
           front == Opening(shape, k, Len(shape) - Len(left))
<1> /\ done \in Nat /\ upto \in Nat /\ done < upto /\ upto <= left[1].n
    /\ p.kind = "fragment" /\ (p.start <=> done = 0)
    /\ p.nals[1] = SubSeq(NextUnit(shape, k, left), done + 2, upto + 1)
    /\ p.nals[2] = <<<<left[1].t, k, Here(shape, left), 0>>>>
  BY DEF IsFragment
<1>1. /\ u \in Stream /\ Len(u) = left[1].n + 1 /\ left[1].n \in Nat
      /\ u[1] = <<left[1].t, k, Here(shape, left), 0>>
  BY NextUnitType, ZenonT(40)
<1>0. done <= left[1].n /\ upto # 0
  <2>1. left[1].n \in Nat
    BY <1>1
  <2> DEFINE n == left[1].n
  <2>2. n \in Nat /\ upto <= n
    BY <2>1
  <2> HIDE DEF n
  <2>3. done <= n /\ upto # 0
    BY ONLY done \in Nat, upto \in Nat, done < upto, <2>2
  <2>4. QED BY <2>3 DEF n
<1>2. first(done) \in Stream
  <2>1. done <= left[1].n
    BY <1>0
  <2>2. QED BY <2>1, BegunType
<1>3. front \in Stream
  <2>1. Len(shape) - Len(left) \in 0 .. Len(shape)
    BY DEF IsEnd
  <2>2. QED BY <2>1, OpeningNext
<1> HIDE DEF u
<1>4. rest \in Stream /\ first(upto) = first(done) \o rest
  <2>1. /\ done + 1 \in Nat /\ upto + 1 \in Nat /\ done + 1 <= upto + 1
        /\ upto + 1 <= Len(u) /\ (done + 1) + 1 = done + 2
        /\ done + 2 \in Nat \ {0}
    <3> DEFINE n == left[1].n
               len == Len(u)
    <3>1. n \in Nat /\ len \in Nat /\ upto <= n /\ n + 1 <= len
      BY <1>1
    <3> HIDE DEF n, len
    <3>2. done + 1 <= upto + 1 /\ upto + 1 <= len /\ (done + 1) + 1 = done + 2
      BY ONLY done \in Nat, upto \in Nat, done < upto, <3>1
    <3>3. QED BY <3>2 DEF len
  <2>2. SubSeq(u, 1, done + 1) \o SubSeq(u, (done + 1) + 1, upto + 1)
            = SubSeq(u, 1, upto + 1)
    BY ONLY <1>1, <2>1, StreamJoin, ZenonT(40)
  <2>3. rest \in Stream
    <3>1. upto + 1 \in Int
      BY <2>1
    <3>2. QED BY ONLY <1>1, <2>1, <3>1, SubStream
  <2>4. QED BY <2>1, <2>2, <2>3
<1>5. ASSUME done = 0 PROVE head = first(done) /\ head \in Stream
  <2>1. first(done) = SubSeq(u, 1, 1)
    BY <1>5
  <2>2. /\ SubSeq(u, 1, 1) \in Stream /\ Len(SubSeq(u, 1, 1)) = 1
        /\ SubSeq(u, 1, 1)[1] = u[1]
    <3>1. 1 \in Nat \ {0} /\ 1 \in Int /\ 1 <= Len(u) /\ 1 + 1 - 1 = 1 /\ 1 - 1 + 1 = 1
      BY <1>1
    <3>2. \A i \in 1 .. 1 - 1 + 1 : SubSeq(u, 1, 1)[i] = u[1 + i - 1]
      BY ONLY <1>1, <3>1, SubStream, SMTT(40)
    <3>3. SubSeq(u, 1, 1) \in Stream /\ Len(SubSeq(u, 1, 1)) = 1 - 1 + 1
      BY ONLY <1>1, <3>1, SubStream
    <3>4. QED BY <3>1, <3>2, <3>3
  <2>3. \A s \in Stream : Len(s) = 1 => s = <<s[1]>>
    BY DEF Stream
  <2>4. SubSeq(u, 1, 1) = <<u[1]>>
    BY <2>2, <2>3
  <2>5. QED BY <2>1, <2>2, <2>4, <1>1
<1>6. SoFar(shape, k, left, upto) = front \o (<<start_code>> \o first(upto))
  BY <1>0 DEF SoFar, Begun, u
<1>7. /\ done = 0 => SoFar(shape, k, left, done) = front
      /\ done # 0 => SoFar(shape, k, left, done) = front \o (<<start_code>> \o first(done))
  BY <1>3, StreamEmpty DEF SoFar, Begun, u
<1>8. Pieces(p) = Rejoined(p)
  BY DEF Pieces
<1>9. /\ p.start => Rejoined(p) = <<<<start_code>>, head, rest>>
      /\ ~p.start => Rejoined(p) = <<rest>>
  BY DEF Rejoined, u
<1>10. Carries(p) = FlattenSeq(Rejoined(p))
  BY <1>8 DEF Carries
<1>11. <<start_code>> \in Stream
  BY StartCode
<1> HIDE DEF head, rest, first, front
<1>12. CASE done = 0
  <2>1. FlattenSeq(<<<<start_code>>, head, rest>>) = (<<start_code>> \o head) \o rest
    BY <1>4, <1>5, <1>11, <1>12, FlattenFew
  <2>2. (<<start_code>> \o head) \o rest = <<start_code>> \o (head \o rest)
    BY <1>4, <1>5, <1>11, <1>12, StreamAssociative
  <2>3. QED BY <2>1, <2>2, <1>4, <1>5, <1>6, <1>7, <1>9, <1>10, <1>12 DEF Joins
<1>13. CASE done # 0
  <2>1. FlattenSeq(<<rest>>) = rest
    BY <1>4, FlattenFew
  <2>2. <<start_code>> \o first(done) \in Stream
    BY <1>2, <1>11, StreamConcat
  <2>3. (front \o (<<start_code>> \o first(done))) \o rest
            = front \o ((<<start_code>> \o first(done)) \o rest)
    BY <1>3, <1>4, <2>2, StreamAssociative
  <2>4. (<<start_code>> \o first(done)) \o rest = <<start_code>> \o (first(done) \o rest)
    BY <1>2, <1>4, <1>11, StreamAssociative
  <2>5. QED BY <2>1, <2>3, <2>4, <1>4, <1>6, <1>7, <1>9, <1>10, <1>13 DEF Joins
<1>14. QED BY <1>12, <1>13

----------------------------------------------------------------------------
(* Types of the live half *)

Sent == [shape : Shapes, first : Int, last : Int]

\* What is left to send is the end of the picture begun last.
Sending ==
    /\ sent \in Seq(Sent) /\ todo \in Seq(Nals) /\ at \in Nat
    /\ todo # <<>> =>
         /\ sent # <<>> /\ IsEnd(todo, sent[Len(sent)].shape)
         /\ at # 0 => at < todo[1].n
         /\ annexb => at = 0 /\ Len(todo) = Len(sent[Len(sent)].shape)
    /\ todo = <<>> => at = 0

\* What is in flight is well formed, and all of the kind the sender sends.
InFlight ==
    /\ IsFiniteSet(net) /\ Cardinality(net) <= MaxInFlight
    /\ \A p \in net : PacketOK(p) /\ (p.kind = "annexb" <=> annexb)

\* The player has found out which, or nothing.
Receiving ==
    /\ detected => (raw <=> annexb)
    /\ ~detected => ~raw /\ frame = <<>>
    /\ raw => frame = <<>>
    /\ frame \in Stream /\ Len(frame) <= frame_cap
    /\ recorded \in Seq(Stream)

Counts ==
    /\ last_seq \in 0 .. SeqSpace - 1
    /\ lost_packets \in Nat /\ gaps \in Nat
    /\ latest \in Int /\ arrived \in Seq(Int)

Booleans ==
    /\ is_h265 \in BOOLEAN /\ annexb \in BOOLEAN
    /\ detected \in BOOLEAN /\ raw \in BOOLEAN /\ have_seq \in BOOLEAN

LiveInv == Booleans /\ Sending /\ InFlight /\ Receiving /\ Counts

\* It implies the type invariant of the live half.
LEMMA LiveTypes ==
    ASSUME LiveInv
    PROVE  LiveTypeOK
<1>1. /\ is_h265 \in BOOLEAN /\ annexb \in BOOLEAN
      /\ detected \in BOOLEAN /\ raw \in BOOLEAN /\ have_seq \in BOOLEAN
  BY DEF LiveInv, Booleans
<1>2. raw => annexb /\ frame = <<>>
  BY DEF LiveInv, Receiving
<1>3. Len(frame) <= frame_cap
  BY DEF LiveInv, Receiving
<1>4. last_seq \in 0 .. SeqSpace - 1 /\ lost_packets \in Nat /\ gaps \in Nat
  BY DEF LiveInv, Counts
<1>5. Cardinality(net) <= MaxInFlight
  BY DEF LiveInv, InFlight
<1>6. QED BY ONLY <1>1, <1>2, <1>3, <1>4, <1>5 DEF LiveTypeOK

\* The numbers the constants are.
LEMMA Sizes ==
    /\ SeqSpace \in Nat \ {0} /\ frame_cap \in Nat \ {0} /\ MaxInFlight \in Nat \ {0}
    /\ MaxFragment \in Nat \ {0} /\ FirstNumber \in Nat /\ fcap \in Nat \ {0}
    /\ MaxTroubles \in Nat
BY RtpAssumption, WindowAssumption

\* The pictures a camera sends have NAL units.
LEMMA ShapeType ==
    ASSUME NEW shape \in Shapes
    PROVE  shape \in Seq(Nals) /\ shape # <<>>
BY RtpAssumption DEF Nals

\* It holds at first.
LEMMA InitLive == Init => LiveInv
<1> SUFFICES ASSUME Init PROVE LiveInv
  OBVIOUS
<1>1. RtpInit
  BY DEF Init
<1>2. Booleans
  BY <1>1 DEF RtpInit, Booleans
<1>3. Sending
  <2>1. sent = <<>> /\ todo = <<>> /\ at = 0
    BY <1>1 DEF RtpInit
  <2>2. QED BY <2>1 DEF Sending
<1>4. InFlight
  <2>1. net = {}
    BY <1>1 DEF RtpInit
  <2>2. IsFiniteSet(net) /\ Cardinality(net) = 0
    BY <2>1, FS_EmptySet
  <2>3. QED BY <2>1, <2>2, Sizes DEF InFlight
<1>5. Receiving
  <2>1. ~detected /\ ~raw /\ frame = <<>> /\ recorded = <<>>
    BY <1>1 DEF RtpInit
  <2>2. QED BY <2>1, StreamEmpty, Sizes DEF Receiving
<1>6. Counts
  <2>1. last_seq = 0 /\ lost_packets = 0 /\ gaps = 0 /\ latest = 0 /\ arrived = <<>>
    BY <1>1 DEF RtpInit
  <2>2. QED BY <2>1, Sizes DEF Counts
<1>7. QED BY <1>2, <1>3, <1>4, <1>5, <1>6 DEF LiveInv

\* All of it is kept by what changes none of these variables.
LEMMA LiveUnchanged ==
    ASSUME LiveInv, UNCHANGED <<senderVars, net, playerVars, history, recorded>>
    PROVE  LiveInv'
<1>1. /\ is_h265' = is_h265 /\ annexb' = annexb /\ sent' = sent /\ todo' = todo /\ at' = at
      /\ net' = net /\ detected' = detected /\ raw' = raw /\ have_seq' = have_seq
      /\ last_seq' = last_seq /\ frame' = frame /\ lost_packets' = lost_packets
      /\ gaps' = gaps /\ arrived' = arrived /\ latest' = latest /\ recorded' = recorded
  BY DEF senderVars, playerVars, history
<1>2. Booleans' /\ Receiving' /\ Counts'
  BY <1>1 DEF LiveInv, Booleans, Receiving, Counts
<1>3. Sending' /\ InFlight'
  BY <1>1 DEF LiveInv, Sending, InFlight
<1>4. QED BY <1>2, <1>3 DEF LiveInv

\* What the packet sent next changes of the picture it is of.
LEMMA SentAfter ==
    ASSUME Sending, sent # <<>>, NEW n, n \in Int,
           sent' = [sent EXCEPT ![Len(sent)].last = n]
    PROVE  /\ sent' \in Seq(Sent) /\ Len(sent') = Len(sent) /\ Len(sent) \in Nat \ {0}
           /\ \A k \in 1 .. Len(sent) :
                /\ sent[k] \in Sent
                /\ sent'[k].shape = sent[k].shape /\ sent'[k].first = sent[k].first
                /\ sent'[k].last = IF k = Len(sent) THEN n ELSE sent[k].last
<1>1. sent \in Seq(Sent) /\ Len(sent) \in Nat \ {0}
  BY DEF Sending
<1>2. Len(sent) \in 1 .. Len(sent)
  BY <1>1
<1>3. \A k \in 1 .. Len(sent) : sent[k] \in Sent
  BY <1>1
<1> DEFINE e == [sent[Len(sent)] EXCEPT !.last = n]
<1>4. /\ e \in Sent /\ e.shape = sent[Len(sent)].shape /\ e.first = sent[Len(sent)].first
      /\ e.last = n
  BY <1>2, <1>3 DEF Sent
<1>5. sent' = [sent EXCEPT ![Len(sent)] = e]
  OBVIOUS
<1> HIDE DEF e
<1>6. /\ sent' \in Seq(Sent) /\ Len(sent') = Len(sent)
      /\ \A k \in 1 .. Len(sent) : sent'[k] = IF k = Len(sent) THEN e ELSE sent[k]
  BY ONLY <1>1, <1>2, <1>4, <1>5, ExceptSeq, SMTT(20)
<1>7. QED BY <1>1, <1>3, <1>4, <1>6

\* A packet the sender can make, that leaves an end of the picture to send.
WellMade(kind, start, nals, left, done) ==
    /\ start \in BOOLEAN /\ nals \in Seq(Stream) /\ nals # <<>>
    /\ kind = "annexb" <=> annexb
    /\ kind \in {"annexb", "single", "aggregate", "fragment"}
    /\ kind = "fragment" => Len(nals) = 2
    /\ IsEnd(left, sent[Len(sent)].shape) /\ done \in Nat
    /\ left = <<>> => done = 0
    /\ left # <<>> => ~annexb /\ (done # 0 => done < left[1].n)

\* Sending a well-made packet keeps it.
LEMMA SendsKeepsTypes ==
    ASSUME LiveInv, todo # <<>>,
           NEW kind, NEW start, NEW nals, NEW left, NEW done,
           Sends(kind, start, nals, left, done), WellMade(kind, start, nals, left, done)
    PROVE  LiveInv'
<1>0. /\ start \in BOOLEAN /\ nals \in Seq(Stream) /\ nals # <<>>
      /\ kind = "annexb" <=> annexb
      /\ kind \in {"annexb", "single", "aggregate", "fragment"}
      /\ kind = "fragment" => Len(nals) = 2
      /\ IsEnd(left, sent[Len(sent)].shape) /\ done \in Nat
      /\ left = <<>> => done = 0
      /\ left # <<>> => ~annexb /\ (done # 0 => done < left[1].n)
  BY DEF WellMade
<1>1. Sending /\ sent # <<>>
  BY DEF LiveInv, Sending
<1> DEFINE n == sent[Len(sent)].last + 1
           p == [n |-> n, marker |-> left = <<>>, kind |-> kind, start |-> start, nals |-> nals]
<1>2. /\ Cardinality(net) < MaxInFlight /\ todo' = left /\ at' = done
      /\ sent' = [sent EXCEPT ![Len(sent)].last = n] /\ net' = net \cup {p}
      /\ UNCHANGED <<is_h265, annexb, playerVars, history, unit, recorded>>
  BY DEF Sends, k_now
<1>3. n \in Int
  <2>1. Len(sent) \in 1 .. Len(sent) /\ sent \in Seq(Sent)
    BY <1>1 DEF Sending
  <2>2. sent[Len(sent)] \in Sent
    BY <2>1
  <2>3. QED BY <2>2 DEF Sent
<1> HIDE DEF n
<1>4. /\ sent' \in Seq(Sent) /\ Len(sent') = Len(sent) /\ Len(sent) \in Nat \ {0}
      /\ sent'[Len(sent)].shape = sent[Len(sent)].shape
  <2>1. sent' = [sent EXCEPT ![Len(sent)].last = n]
    BY <1>2
  <2>2. /\ sent' \in Seq(Sent) /\ Len(sent') = Len(sent) /\ Len(sent) \in Nat \ {0}
        /\ \A k \in 1 .. Len(sent) : sent'[k].shape = sent[k].shape
    BY ONLY <1>1, <1>3, <2>1, SentAfter
  <2>3. Len(sent) \in 1 .. Len(sent)
    BY <2>2
  <2>4. QED BY <2>2, <2>3
<1>5. annexb' = annexb
  BY <1>2
<1>6. Sending'
  <2>1. left \in Seq(Nals)
    BY <1>0 DEF IsEnd
  <2>2. sent' # <<>> /\ sent'[Len(sent')].shape = sent[Len(sent)].shape
    BY <1>4
  <2>3. QED BY <1>0, <1>2, <1>4, <1>5, <2>1, <2>2 DEF Sending
<1>7. PacketOK(p)
  BY <1>0, <1>3 DEF PacketOK
<1>8. p.kind = kind
  OBVIOUS
<1>9. InFlight'
  <2>1. InFlight
    BY DEF LiveInv
  <2>2. IsFiniteSet(net') /\ Cardinality(net') <= MaxInFlight
    <3>1. IsFiniteSet(net)
      BY <2>1 DEF InFlight
    <3>2. /\ IsFiniteSet(net \cup {p})
          /\ Cardinality(net \cup {p}) = Cardinality(net)
               \/ Cardinality(net \cup {p}) = Cardinality(net) + 1
      BY <3>1, FS_AddElement
    <3>3. Cardinality(net) \in Nat
      BY <3>1, FS_CardinalityType
    <3>4. QED BY <1>2, <3>2, <3>3, Sizes
  <2> HIDE DEF p
  <2>3. \A q \in net' : PacketOK(q) /\ (q.kind = "annexb" <=> annexb')
    BY <1>0, <1>2, <1>5, <1>7, <1>8, <2>1 DEF InFlight
  <2>4. QED BY <2>2, <2>3 DEF InFlight
<1>10. Booleans' /\ Receiving' /\ Counts'
  <2>1. Booleans /\ Receiving /\ Counts
    BY DEF LiveInv
  <2>2. /\ is_h265' = is_h265 /\ annexb' = annexb
        /\ detected' = detected /\ raw' = raw /\ have_seq' = have_seq
        /\ last_seq' = last_seq /\ frame' = frame /\ lost_packets' = lost_packets
        /\ gaps' = gaps /\ arrived' = arrived /\ latest' = latest /\ recorded' = recorded
    BY <1>2 DEF playerVars, history
  <2>3. QED BY ONLY <2>1, <2>2 DEF Booleans, Receiving, Counts
<1>11. QED BY <1>6, <1>9, <1>10 DEF LiveInv

\* What the packet brings is what the picture is sent further by.
Brings(kind, start, nals, left, done) ==
    LET k     == Len(sent)
        shape == sent[k].shape
    IN  \A p : p.kind = kind /\ (p.start <=> start) /\ p.nals = nals =>
          Joins(SoFar(shape, k, left, done), SoFar(shape, k, todo, at), Carries(p))

\* The picture being sent.
LEMMA Current ==
    ASSUME LiveInv, todo # <<>>
    PROVE  /\ sent \in Seq(Sent) /\ Len(sent) \in Nat \ {0} /\ Len(sent) \in DOMAIN sent
           /\ sent[Len(sent)].shape \in Seq(Nals) /\ sent[Len(sent)].shape # <<>>
           /\ IsEnd(todo, sent[Len(sent)].shape) /\ todo \in Seq(Nals)
           /\ j_now = Here(sent[Len(sent)].shape, todo)
           /\ at \in Nat /\ (at # 0 => at < todo[1].n)
           /\ annexb => at = 0 /\ Len(todo) = Len(sent[Len(sent)].shape)
<1>1. Sending
  BY DEF LiveInv
<1>2. /\ sent \in Seq(Sent) /\ sent # <<>> /\ IsEnd(todo, sent[Len(sent)].shape)
      /\ todo \in Seq(Nals) /\ at \in Nat /\ (at # 0 => at < todo[1].n)
      /\ annexb => at = 0 /\ Len(todo) = Len(sent[Len(sent)].shape)
  BY <1>1 DEF Sending
<1>3. Len(sent) \in Nat \ {0} /\ Len(sent) \in DOMAIN sent /\ Len(sent) \in 1 .. Len(sent)
  BY <1>2
<1>4. sent[Len(sent)] \in Sent
  BY <1>2, <1>3
<1>5. sent[Len(sent)].shape \in Shapes
  BY <1>4 DEF Sent
<1>6. j_now = Here(sent[Len(sent)].shape, todo)
  BY DEF j_now, k_now, Here
<1>7. QED BY <1>2, <1>3, <1>5, <1>6, ShapeType

\* A picture is its start codes and NAL units, all of them.
LEMMA PictureIs ==
    ASSUME NEW k, k \in Nat, sent[k].shape \in Seq(Nals)
    PROVE  /\ Picture(k) = Opening(sent[k].shape, k, Len(sent[k].shape))
           /\ Picture(k) = SoFar(sent[k].shape, k, <<>>, 0)
           /\ Picture(k) \in Stream
<1>1. DOMAIN sent[k].shape = 1 .. Len(sent[k].shape) /\ Len(sent[k].shape) \in Nat
  OBVIOUS
<1>2. Picture(k) = Opening(sent[k].shape, k, Len(sent[k].shape))
  BY <1>1 DEF Picture, Opening, NalCode
<1>3. Opening(sent[k].shape, k, Len(sent[k].shape)) \in Stream
  <2>1. Len(sent[k].shape) \in 0 .. Len(sent[k].shape)
    BY <1>1
  <2>2. QED BY <2>1, OpeningNext
<1>4. SoFar(sent[k].shape, k, <<>>, 0)
          = Opening(sent[k].shape, k, Len(sent[k].shape)) \o <<>>
  <2>1. Len(sent[k].shape) - Len(<<>>) = Len(sent[k].shape)
    BY <1>1, StreamEmpty
  <2>2. QED BY <2>1 DEF SoFar, Begun
<1>5. QED BY <1>2, <1>3, <1>4, StreamEmpty

\* Nothing of a picture is sent at first.
LEMMA SoFarNothing ==
    ASSUME NEW shape, shape \in Seq(Nals), NEW k, k \in Nat, NEW left, Len(left) = Len(shape)
    PROVE  SoFar(shape, k, left, 0) = <<>>
<1>1. Len(shape) - Len(left) = 0
  OBVIOUS
<1>2. Opening(shape, k, 0) = <<>>
  BY OpeningNext
<1>3. <<>> \o <<>> = <<>>
  BY StreamEmpty
<1>4. QED BY <1>1, <1>2, <1>3 DEF SoFar, Begun

\* An Annex-B datagram brings all of the picture.
LEMMA AnnexBAdvances ==
    ASSUME LiveInv, SendAnnexB
    PROVE  \E kind, start, nals, left, done :
             /\ Sends(kind, start, nals, left, done)
             /\ WellMade(kind, start, nals, left, done)
             /\ Brings(kind, start, nals, left, done)
<1> DEFINE k == Len(sent)
           shape == sent[k].shape
<1>1. todo # <<>> /\ annexb /\ Sends("annexb", FALSE, <<Picture(k)>>, <<>>, 0)
  BY DEF SendAnnexB, k_now
<1>2. /\ k \in Nat /\ shape \in Seq(Nals) /\ at = 0 /\ Len(todo) = Len(shape)
  BY <1>1, Current
<1>3. /\ Picture(k) = SoFar(shape, k, <<>>, 0) /\ Picture(k) \in Stream
  BY <1>2, PictureIs
<1>4. WellMade("annexb", FALSE, <<Picture(k)>>, <<>>, 0)
  <2>1. <<Picture(k)>> \in Seq(Stream) /\ <<Picture(k)>> # <<>>
    BY <1>3
  <2>2. IsEnd(<<>>, shape)
    BY <1>2 DEF IsEnd
  <2>3. QED BY <1>1, <2>1, <2>2 DEF WellMade
<1>5. Brings("annexb", FALSE, <<Picture(k)>>, <<>>, 0)
  <2>1. ASSUME NEW p, p.kind = "annexb", p.nals = <<Picture(k)>> PROVE Carries(p) = Picture(k)
    BY <2>1 DEF Carries
  <2>2. SoFar(shape, k, todo, at) = <<>>
    BY <1>2, SoFarNothing
  <2>3. <<>> \o Picture(k) = Picture(k)
    BY <1>3, StreamEmpty
  <2> HIDE DEF k
  <2>4. QED BY <1>3, <2>1, <2>2, <2>3 DEF Brings, Joins, k
<1>6. QED BY <1>1, <1>4, <1>5

\* Several units less are an end too.
LEMMA EndOfEnd ==
    ASSUME NEW shape, shape \in Seq(Nals), NEW left, IsEnd(left, shape),
           NEW m, m \in Nat, m <= Len(left)
    PROVE  /\ IsEnd(SubSeq(left, m + 1, Len(left)), shape)
           /\ Len(SubSeq(left, m + 1, Len(left))) = Len(left) - m
<1>1. left \in Seq(Nals) /\ Len(left) \in Nat /\ Len(shape) \in Nat /\ Len(left) <= Len(shape)
  BY DEF IsEnd
<1> DEFINE e == SubSeq(left, m + 1, Len(left))
<1>2. /\ e \in Seq(Nals) /\ Len(e) = Len(left) - m
      /\ \A x \in 1 .. Len(left) - m : e[x] = left[m + x]
  BY <1>1
<1> HIDE DEF e
<1>3. ASSUME NEW x \in 1 .. Len(e) PROVE e[x] = shape[Len(shape) - Len(e) + x]
  <2>1. m + x \in 1 .. Len(left) /\ x \in 1 .. Len(left) - m
        /\ Len(shape) - Len(left) + (m + x) = Len(shape) - Len(e) + x
    BY <1>1, <1>2
  <2>2. left[m + x] = shape[Len(shape) - Len(left) + (m + x)]
    BY <2>1 DEF IsEnd
  <2>3. QED BY <1>2, <2>1, <2>2
<1>4. IsEnd(e, shape)
  BY <1>1, <1>2, <1>3 DEF IsEnd
<1>5. QED BY <1>2, <1>4 DEF e

NalsOf(shape, k, left, m) ==
    [x \in 1 .. m |-> NalUnit(k, Here(shape, left) + x - 1, left[x])]
AreNals(p, shape, k, left, m) ==
    /\ m \in Nat /\ m <= Len(left)
    /\ p.kind \in {"single", "aggregate"} /\ p.nals = NalsOf(shape, k, left, m)

\* So many NAL units bring the picture as many further.
LEMMA NalsCarry ==
    ASSUME NEW shape, shape \in Seq(Nals), NEW k, k \in Nat, NEW left, IsEnd(left, shape),
           NEW m, NEW p, AreNals(p, shape, k, left, m)
    PROVE  /\ NalsOf(shape, k, left, m) \in Seq(Stream)
           /\ Joins(SoFar(shape, k, SubSeq(left, m + 1, Len(left)), 0),
                    SoFar(shape, k, left, 0), Carries(p))
<1>1. left \in Seq(Nals) /\ Len(left) \in Nat /\ Len(shape) \in Nat /\ Len(left) <= Len(shape)
  BY DEF IsEnd
<1> /\ m \in Nat /\ m <= Len(left)
    /\ p.kind \in {"single", "aggregate"} /\ p.nals = NalsOf(shape, k, left, m)
  BY DEF AreNals
<1> DEFINE J == Len(shape) - Len(left)
           end == J + m
           us == NalsOf(shape, k, left, m)
<1>2. J \in 0 .. Len(shape) /\ J + m <= Len(shape) /\ J \in Nat
  BY <1>1
<1>3. ASSUME NEW x \in 1 .. m
      PROVE  us[x] = NalUnit(k, J + x, shape[J + x]) /\ us[x] \in Stream
  <2>1. x \in 1 .. Len(left) /\ J + x \in 1 .. Len(shape)
    BY <1>1, <1>2
  <2>2. left[x] = shape[J + x]
    BY <2>1 DEF IsEnd
  <2>3. Here(shape, left) + x - 1 = J + x
    BY <1>1 DEF Here
  <2>4. us[x] = NalUnit(k, J + x, shape[J + x])
    BY <2>2, <2>3 DEF NalsOf
  <2>5. QED BY <2>1, <2>4, NalCodeType
<1>4. DOMAIN us = 1 .. m /\ us = [x \in 1 .. m |-> us[x]]
  BY DEF NalsOf
<1>5. us \in Seq(Stream)
  BY <1>3, <1>4
<1>12. end = J + m
  OBVIOUS
<1> HIDE DEF J, us, end
<1>6. Opening(shape, k, end) = Opening(shape, k, J) \o FlattenSeq(FlattenSeq(Pairs(us, m)))
  <2>1. AreUnits(us, m, shape, k, J, end)
    BY <1>2, <1>3, <1>12 DEF AreUnits
  <2>2. Joins(Opening(shape, k, end), Opening(shape, k, J), FlattenSeq(FlattenSeq(Pairs(us, m))))
    BY ONLY shape \in Seq(Nals), k \in Nat, <2>1, OpeningMore
  <2>3. QED BY <2>2 DEF Joins
<1>7. Pieces(p) = FlattenSeq(Pairs(us, m))
  <2>1. Pieces(p) = FlattenSeq([x \in DOMAIN p.nals |-> <<<<start_code>>, p.nals[x]>>])
    BY DEF Pieces
  <2>2. p.nals = us
    BY DEF us
  <2>3. QED BY <2>1, <2>2, <1>4 DEF Pairs
<1>8. Carries(p) = FlattenSeq(FlattenSeq(Pairs(us, m)))
  BY <1>7 DEF Carries
<1>9. SoFar(shape, k, left, 0) = Opening(shape, k, J)
  <2>1. Opening(shape, k, J) \o <<>> = Opening(shape, k, J)
    BY <1>2, OpeningNext, StreamEmpty
  <2>2. QED BY <2>1 DEF SoFar, Begun, J
<1>10. SoFar(shape, k, SubSeq(left, m + 1, Len(left)), 0) = Opening(shape, k, end)
  <2>1. Len(SubSeq(left, m + 1, Len(left))) = Len(left) - m
    BY EndOfEnd
  <2>2. Len(shape) - Len(SubSeq(left, m + 1, Len(left))) = end
    <3>1. \A y : y = Len(left) - m => Len(shape) - y = end
      BY <1>1, <1>12 DEF J
    <3>2. QED BY ONLY <2>1, <3>1
  <2>3. end \in 0 .. Len(shape)
    BY <1>1, <1>2, <1>12
  <2>4. Opening(shape, k, end) \o <<>> = Opening(shape, k, end)
    BY <2>3, OpeningNext, StreamEmpty
  <2>5. QED BY <2>2, <2>4 DEF SoFar, Begun
<1>11. QED BY <1>5, <1>6, <1>8, <1>9, <1>10 DEF us, Joins

\* One NAL unit or several bring it on by as many.
LEMMA NalsAdvance ==
    ASSUME LiveInv, SendNals
    PROVE  \E kind, start, nals, left, done :
             /\ Sends(kind, start, nals, left, done)
             /\ WellMade(kind, start, nals, left, done)
             /\ Brings(kind, start, nals, left, done)
<1> DEFINE k == Len(sent)
           shape == sent[k].shape
           nals(m) == [x \in 1 .. m |-> NalUnit(k, j_now + x - 1, todo[x])]
           kind(m) == IF m = 1 THEN "single" ELSE "aggregate"
           left(m) == SubSeq(todo, m + 1, Len(todo))
<1>1. PICK m \in 1 .. MaxFragment :
         m <= Len(todo) /\ Sends(kind(m), FALSE, nals(m), left(m), 0)
  BY DEF SendNals, k_now
<1>2. todo # <<>> /\ ~annexb /\ at = 0
  BY DEF SendNals
<1>3. /\ k \in Nat /\ shape \in Seq(Nals) /\ IsEnd(todo, shape) /\ todo \in Seq(Nals)
      /\ j_now = Here(shape, todo)
  BY <1>2, Current
<1>4. m \in Nat /\ m # 0
  BY Sizes
<1>5. kind(m) \in {"single", "aggregate"}
  OBVIOUS
<1>6. nals(m) = NalsOf(shape, k, todo, m)
  BY <1>3 DEF NalsOf
<1> HIDE DEF nals, left, kind, k
<1>7. \A p : p.kind = kind(m) /\ p.nals = nals(m) =>
        /\ nals(m) \in Seq(Stream)
        /\ Joins(SoFar(shape, k, SubSeq(todo, m + 1, Len(todo)), 0),
                 SoFar(shape, k, todo, 0), Carries(p))
  <2> SUFFICES ASSUME NEW p, p.kind = kind(m), p.nals = nals(m)
               PROVE  /\ nals(m) \in Seq(Stream)
                      /\ Joins(SoFar(shape, k, SubSeq(todo, m + 1, Len(todo)), 0),
                               SoFar(shape, k, todo, 0), Carries(p))
    OBVIOUS
  <2>1. AreNals(p, shape, k, todo, m)
    BY <1>1, <1>4, <1>5, <1>6 DEF AreNals
  <2> HIDE DEF shape
  <2>2. QED BY ONLY <1>3, <1>6, <2>1, NalsCarry
<1>8. nals(m) \in Seq(Stream) /\ nals(m) # <<>>
  <2>1. [kind |-> kind(m), nals |-> nals(m)].kind = kind(m)
        /\ [kind |-> kind(m), nals |-> nals(m)].nals = nals(m)
    OBVIOUS
  <2>2. nals(m) \in Seq(Stream)
    BY <1>7, <2>1
  <2>3. DOMAIN nals(m) = 1 .. m /\ 1 \in 1 .. m
    BY <1>4, <1>6 DEF NalsOf
  <2>4. DOMAIN <<>> = {}
    OBVIOUS
  <2>5. QED BY <2>2, <2>3, <2>4
<1>9. IsEnd(left(m), shape)
  <2> HIDE DEF shape
  <2>1. QED BY ONLY <1>1, <1>3, <1>4, EndOfEnd DEF left
<1>10. WellMade(kind(m), FALSE, nals(m), left(m), 0)
  BY <1>2, <1>5, <1>8, <1>9 DEF WellMade, k
<1>11. Brings(kind(m), FALSE, nals(m), left(m), 0)
  BY <1>2, <1>7 DEF Brings, k, left
<1>12. QED BY <1>1, <1>10, <1>11

\* A fragment brings it on by its bytes, and the last one to the next NAL unit.
LEMMA FragmentAdvances ==
    ASSUME LiveInv, SendFragment
    PROVE  \E kind, start, nals, left, done :
             /\ Sends(kind, start, nals, left, done)
             /\ WellMade(kind, start, nals, left, done)
             /\ Brings(kind, start, nals, left, done)
<1> DEFINE k == Len(sent)
           shape == sent[k].shape
           nal == todo[1]
           u == NextUnit(shape, k, todo)
           head == <<<<nal.t, k, Here(shape, todo), 0>>>>
           rest(m) == SubSeq(u, at + 2, at + m + 1)
           left(m) == IF at + m = nal.n THEN Tail(todo) ELSE todo
           done(m) == IF at + m = nal.n THEN 0 ELSE at + m
<1>1. todo # <<>> /\ ~annexb
  BY DEF SendFragment
<1>2. /\ k \in Nat /\ shape \in Seq(Nals) /\ IsEnd(todo, shape) /\ todo \in Seq(Nals)
      /\ j_now = Here(shape, todo) /\ at \in Nat /\ (at # 0 => at < nal.n)
  BY <1>1, Current
<1>3. Head(todo) = nal
  BY <1>1, <1>2
<1>4. NalUnit(k_now, j_now, Head(todo)) = u
  BY <1>2, <1>3 DEF k_now, NextUnit
<1>5. PICK m \in 1 .. MaxFragment :
         /\ at + m <= nal.n /\ m < nal.n
         /\ Sends("fragment", at = 0, <<rest(m), head>>, left(m), done(m))
  <2>1. k_now = k
    BY DEF k_now
  <2>2. PICK m \in 1 .. MaxFragment :
           /\ at + m <= Head(todo).n /\ m < Head(todo).n
           /\ Sends("fragment", at = 0,
                  <<SubSeq(NalUnit(k_now, j_now, Head(todo)), at + 2, at + m + 1),
                    <<<<Head(todo).t, k_now, j_now, 0>>>>>>,
                  IF at + m = Head(todo).n THEN Tail(todo) ELSE todo,
                  IF at + m = Head(todo).n THEN 0 ELSE at + m)
    BY DEF SendFragment
  <2>3. /\ at + m <= nal.n /\ m < nal.n
        /\ Sends("fragment", at = 0,
                  <<SubSeq(u, at + 2, at + m + 1),
                    <<<<nal.t, k, Here(shape, todo), 0>>>>>>,
                  IF at + m = nal.n THEN Tail(todo) ELSE todo,
                  IF at + m = nal.n THEN 0 ELSE at + m)
    BY <1>2, <1>3, <1>4, <2>1, <2>2
  <2>4. QED BY <2>3
<1>6. m \in Nat \ {0} /\ m \in Nat /\ m # 0
  BY Sizes
<1>7. /\ u \in Stream /\ Len(u) = nal.n + 1 /\ nal.n \in Nat /\ nal \in Nals
      /\ Here(shape, todo) \in Nat
  <2> HIDE DEF k, shape
  <2>1. /\ Here(shape, todo) \in 1 .. Len(shape) /\ nal.n \in Nat
        /\ u \in Stream /\ Len(u) = nal.n + 1
    BY ONLY <1>1, <1>2, NextUnitType
  <2>2. 1 \in 1 .. Len(todo)
    BY <1>1, <1>2
  <2>3. nal \in Nals
    BY <1>2, <2>2
  <2>4. QED BY <2>1, <2>3
<1>8. rest(m) \in Stream
  <2> HIDE DEF u, nal
  <2>1. at + 2 \in Nat \ {0} /\ at + m + 1 \in Int /\ at + m + 1 <= Len(u)
    BY ONLY <1>2, <1>5, <1>6, <1>7
  <2>2. QED BY ONLY <1>7, <2>1, SubStream
<1>9. head \in Stream
  <2>1. <<nal.t, k, Here(shape, todo), 0>> \in Symbol
    BY <1>2, <1>7 DEF Symbol, Nals
  <2> HIDE DEF nal, k
  <2>2. QED BY <2>1 DEF Stream
<1> HIDE DEF u, head, rest, nal, k, shape
<1>10. IsEnd(left(m), shape)
  BY <1>1, <1>2, BegunAll
<1>11. /\ done(m) \in Nat /\ (left(m) = <<>> => done(m) = 0)
       /\ (done(m) # 0 => done(m) < left(m)[1].n)
  <2>1. nal.n \in Nat /\ (at + m # nal.n => at + m < nal.n)
    <3>1. at \in Nat /\ m \in Nat /\ nal.n \in Nat /\ at + m <= nal.n
      BY <1>2, <1>5, <1>6, <1>7
    <3>2. QED BY ONLY <3>1
  <2>2. CASE at + m = nal.n
    BY <2>2
  <2>3. CASE at + m # nal.n
    <3>1. left(m) = todo /\ done(m) = at + m /\ at + m \in Nat
      BY <1>2, <1>6, <2>3
    <3>2. QED BY ONLY <3>1, <2>1, <2>3, <1>1 DEF nal
  <2>4. QED BY <2>2, <2>3
<1>12. WellMade("fragment", at = 0, <<rest(m), head>>, left(m), done(m))
  <2>1. /\ <<rest(m), head>> \in Seq(Stream) /\ <<rest(m), head>> # <<>>
        /\ Len(<<rest(m), head>>) = 2
    BY <1>8, <1>9
  <2>2. IsEnd(left(m), sent[Len(sent)].shape)
    BY <1>10 DEF shape, k
  <2> HIDE DEF left, done
  <2>3. (at = 0) \in BOOLEAN
    OBVIOUS
  <2>4. QED BY <1>1, <1>11, <2>1, <2>2, <2>3 DEF WellMade
<1>13. SoFar(shape, k, left(m), done(m)) = SoFar(shape, k, todo, at + m)
  <2>1. CASE at + m = nal.n
    <3>1. nal.n # 0
      BY <1>2, <1>6, <2>1
    <3>2. SoFar(shape, k, Tail(todo), 0) = SoFar(shape, k, todo, nal.n)
      BY ONLY <1>1, <1>2, <3>1, BegunAll DEF nal
    <3>3. QED BY <2>1, <3>2
  <2>2. CASE at + m # nal.n
    BY <2>2
  <2>3. QED BY <2>1, <2>2
<1>14. ASSUME NEW p, p.kind = "fragment", p.start <=> (at = 0), p.nals = <<rest(m), head>>
       PROVE  Joins(SoFar(shape, k, todo, at + m), SoFar(shape, k, todo, at), Carries(p))
  <2>1. p.nals[1] = rest(m) /\ p.nals[2] = head
    BY <1>14
  <2>2. p.nals[1] = SubSeq(NextUnit(shape, k, todo), at + 2, at + m + 1)
    BY <2>1 DEF rest, u
  <2>3. p.nals[2] = <<<<todo[1].t, k, Here(shape, todo), 0>>>>
    BY <2>1 DEF head, nal
  <2>4. at + m <= todo[1].n
    BY <1>5 DEF nal
  <2>5. p.kind = "fragment" /\ (p.start <=> (at = 0))
    BY <1>14
  <2> DEFINE upto == at + m
  <2>6. upto \in Nat /\ at < upto
    BY ONLY <1>2, <1>6
  <2>7. IsFragment(p, shape, k, todo, at, upto)
    BY ONLY <1>2, <2>2, <2>3, <2>4, <2>5, <2>6 DEF IsFragment
  <2>8. upto = at + m
    OBVIOUS
  <2> HIDE DEF upto
  <2>9. Joins(SoFar(shape, k, todo, upto), SoFar(shape, k, todo, at), Carries(p))
    BY ONLY <1>1, <1>2, <2>7, FragmentCarries
  <2>10. QED BY ONLY <2>8, <2>9
<1> HIDE DEF left, done
<1>15. Brings("fragment", at = 0, <<rest(m), head>>, left(m), done(m))
  <2> SUFFICES ASSUME NEW p, p.kind = "fragment", p.start <=> (at = 0),
                      p.nals = <<rest(m), head>>
               PROVE  Joins(SoFar(shape, k, left(m), done(m)), SoFar(shape, k, todo, at), Carries(p))
    BY DEF Brings, shape, k
  <2>1. QED BY <1>13, <1>14
<1>16. QED BY <1>5, <1>12, <1>15

\* Whatever is sent is well made and brings the picture on by what it carries.
LEMMA SendAdvances ==
    ASSUME LiveInv, SendAnnexB \/ SendNals \/ SendFragment
    PROVE  /\ todo # <<>>
           /\ \E kind, start, nals, left, done :
                /\ Sends(kind, start, nals, left, done)
                /\ WellMade(kind, start, nals, left, done)
                /\ Brings(kind, start, nals, left, done)
<1>1. todo # <<>>
  BY DEF SendAnnexB, SendNals, SendFragment
<1>2. CASE SendAnnexB
  BY <1>1, <1>2, AnnexBAdvances
<1>3. CASE SendNals
  BY <1>1, <1>3, NalsAdvance
<1>4. CASE SendFragment
  BY <1>1, <1>4, FragmentAdvances
<1>5. QED BY <1>2, <1>3, <1>4

\* The number of the packet sent last.
LastSent == IF sent = <<>> THEN FirstNumber - 1 ELSE sent[Len(sent)].last

\* The picture begun is the last of those begun.
LEMMA BeginAppends ==
    ASSUME LiveInv, BeginPicture
    PROVE  \E shape \in Shapes :
             /\ sent' = Append(sent, [shape |-> shape, first |-> LastSent + 1, last |-> LastSent])
             /\ [shape |-> shape, first |-> LastSent + 1, last |-> LastSent] \in Sent
             /\ todo' = shape /\ at' = 0 /\ todo = <<>> /\ LastSent \in Int
<1>1. PICK shape \in Shapes :
         /\ sent' = Append(sent, [shape |-> shape, first |-> LastSent + 1, last |-> LastSent])
         /\ todo' = shape
  BY DEF BeginPicture, LastSent, k_now
<1>2. sent \in Seq(Sent)
  BY DEF LiveInv, Sending
<1>3. LastSent \in Int
  <2>1. CASE sent = <<>>
    BY <2>1, Sizes DEF LastSent
  <2>2. CASE sent # <<>>
    <3>1. Len(sent) \in 1 .. Len(sent)
      BY <1>2, <2>2
    <3>2. sent[Len(sent)] \in Sent
      BY <1>2, <3>1
    <3>3. sent[Len(sent)].last \in Int
      BY <3>2 DEF Sent
    <3>4. QED BY <2>2, <3>3 DEF LastSent
  <2>3. QED BY <2>1, <2>2
<1>4. [shape |-> shape, first |-> LastSent + 1, last |-> LastSent] \in Sent
  BY <1>3 DEF Sent
<1>5. at' = 0 /\ todo = <<>>
  BY DEF BeginPicture
<1>6. QED BY <1>1, <1>3, <1>4, <1>5

\* The other steps of the live half keep the types.
LEMMA BeginKeepsTypes ==
    ASSUME LiveInv, BeginPicture
    PROVE  LiveInv'
<1>1. PICK shape \in Shapes, e \in Sent :
         /\ sent' = Append(sent, e) /\ e.shape = shape
         /\ todo' = shape /\ at' = 0
  <2>1. PICK shape \in Shapes :
          /\ sent' = Append(sent, [shape |-> shape, first |-> LastSent + 1, last |-> LastSent])
          /\ [shape |-> shape, first |-> LastSent + 1, last |-> LastSent] \in Sent
          /\ todo' = shape /\ at' = 0
    BY BeginAppends
  <2>2. [shape |-> shape, first |-> LastSent + 1, last |-> LastSent].shape = shape
    OBVIOUS
  <2>3. QED BY <2>1, <2>2
<1>2. Sending /\ sent \in Seq(Sent)
  BY DEF LiveInv, Sending
<1>3. /\ sent' \in Seq(Sent) /\ sent' # <<>> /\ Len(sent') = Len(sent) + 1
      /\ sent'[Len(sent')] = e
  BY <1>1, <1>2, AppendProperties
<1>4. shape \in Seq(Nals) /\ shape # <<>>
  BY ShapeType
<1>5. IsEnd(shape, shape)
  <2>1. Len(shape) \in Nat
    BY <1>4
  <2>2. QED BY <1>4, <2>1 DEF IsEnd
<1>6. Sending'
  BY <1>1, <1>3, <1>4, <1>5 DEF Sending
<1>7. UNCHANGED <<is_h265, annexb, net, playerVars, history, unit, recorded>>
  BY DEF BeginPicture
<1>8. Booleans' /\ Receiving' /\ Counts'
  <2>1. Booleans /\ Receiving /\ Counts
    BY DEF LiveInv
  <2>2. /\ is_h265' = is_h265 /\ annexb' = annexb
        /\ detected' = detected /\ raw' = raw /\ have_seq' = have_seq
        /\ last_seq' = last_seq /\ frame' = frame /\ lost_packets' = lost_packets
        /\ gaps' = gaps /\ arrived' = arrived /\ latest' = latest /\ recorded' = recorded
    BY <1>7 DEF playerVars, history
  <2>3. QED BY ONLY <2>1, <2>2 DEF Booleans, Receiving, Counts
<1>9. InFlight'
  BY <1>7 DEF LiveInv, InFlight
<1>10. QED BY <1>6, <1>8, <1>9 DEF LiveInv

\* A packet less in flight.
LEMMA TakesOne ==
    ASSUME InFlight, NEW p \in net, net' = net \ {p}, annexb' = annexb
    PROVE  InFlight' /\ PacketOK(p) /\ (p.kind = "annexb" <=> annexb)
<1>1. IsFiniteSet(net) /\ Cardinality(net) \in Nat /\ Cardinality(net) <= MaxInFlight
  BY FS_CardinalityType DEF InFlight
<1>2. IsFiniteSet(net \ {p}) /\ Cardinality(net \ {p}) <= Cardinality(net)
  <2>1. IsFiniteSet(net \ {p}) /\ Cardinality(net \ {p}) = Cardinality(net) - 1
    BY <1>1, FS_RemoveElement, Zenon
  <2>2. QED BY <1>1, <2>1
<1>3. Cardinality(net \ {p}) \in Nat
  BY <1>2, FS_CardinalityType
<1>4. Cardinality(net \ {p}) <= MaxInFlight
  BY <1>1, <1>2, <1>3, Sizes
<1>5. \A q \in net \ {p} : PacketOK(q) /\ (q.kind = "annexb" <=> annexb)
  BY DEF InFlight
<1>6. QED BY <1>2, <1>4, <1>5 DEF InFlight

\* What is lost leaves the types alone.
LEMMA LoseKeepsTypes ==
    ASSUME LiveInv, Lose
    PROVE  LiveInv'
<1>1. PICK p \in net : net' = net \ {p}
  BY DEF Lose
<1>2. /\ is_h265' = is_h265 /\ annexb' = annexb /\ sent' = sent /\ todo' = todo /\ at' = at
      /\ detected' = detected /\ raw' = raw /\ have_seq' = have_seq
      /\ last_seq' = last_seq /\ frame' = frame /\ lost_packets' = lost_packets
      /\ gaps' = gaps /\ arrived' = arrived /\ latest' = latest /\ recorded' = recorded
  BY DEF Lose, senderVars, playerVars, history
<1>3. Booleans /\ Sending /\ InFlight /\ Receiving /\ Counts
  BY DEF LiveInv
<1>4. InFlight'
  BY <1>1, <1>2, <1>3, TakesOne
<1>5. Sending'
  BY ONLY <1>2, <1>3 DEF Sending
<1>6. Booleans' /\ Receiving' /\ Counts'
  BY ONLY <1>2, <1>3 DEF Booleans, Receiving, Counts
<1>7. QED BY <1>4, <1>5, <1>6 DEF LiveInv

\* What is handed on is recorded whole or not at all.
LEMMA HandsRecords ==
    ASSUME recorded \in Seq(Stream), NEW data, data \in Stream, NEW from, Hands(data, from)
    PROVE  recorded' \in Seq(Stream) /\ unit' = [data |-> data, from |-> from]
<1>1. recorded' = recorded \/ recorded' = Append(recorded, data)
  BY DEF Hands
<1>2. Append(recorded, data) \in Seq(Stream)
  BY AppendProperties
<1>3. QED BY <1>1, <1>2 DEF Hands

\* A packet that is taken for Annex-B is.
LEMMA RawIsAnnexB ==
    ASSUME LiveInv, NEW p, p.kind = "annexb" <=> annexb
    PROVE  IsRaw(p) <=> annexb
<1>1. Receiving /\ Booleans
  BY DEF LiveInv
<1>2. detected => (raw <=> annexb)
  BY <1>1 DEF Receiving
<1>3. IsRaw(p) <=> (detected /\ raw) \/ (~detected /\ p.kind = "annexb")
  BY <1>1 DEF IsRaw, Booleans
<1>4. QED BY ONLY <1>2, <1>3, p.kind = "annexb" <=> annexb

\* An Annex-B datagram is a unit as it is.
LEMMA FeedRawKeepsTypes ==
    ASSUME LiveInv, FeedRaw
    PROVE  LiveInv'
<1>1. PICK p \in net :
         /\ net' = net \ {p} /\ IsRaw(p) /\ detected' = TRUE /\ raw' = TRUE
         /\ Hands(p.nals[1], <<p.n>>)
         /\ UNCHANGED <<senderVars, have_seq, last_seq, frame, lost_packets, history>>
  BY DEF FeedRaw
<1>2. Booleans /\ Sending /\ InFlight /\ Receiving /\ Counts
  BY DEF LiveInv
<1>3. /\ is_h265' = is_h265 /\ annexb' = annexb /\ sent' = sent /\ todo' = todo /\ at' = at
      /\ have_seq' = have_seq
      /\ last_seq' = last_seq /\ frame' = frame /\ lost_packets' = lost_packets
      /\ gaps' = gaps /\ arrived' = arrived /\ latest' = latest
  BY <1>1 DEF senderVars, history
<1>4. InFlight' /\ PacketOK(p) /\ (p.kind = "annexb" <=> annexb)
  BY <1>1, <1>2, <1>3, TakesOne
<1>5. annexb
  BY <1>1, <1>4, RawIsAnnexB
<1>6. frame = <<>>
  <2>1. detected => raw
    BY ONLY <1>1 DEF IsRaw
  <2>2. QED BY ONLY <1>2, <2>1 DEF Receiving
<1>7. p.nals[1] \in Stream
  <2>1. p.nals \in Seq(Stream) /\ p.nals # <<>>
    BY <1>4 DEF PacketOK
  <2>2. 1 \in 1 .. Len(p.nals)
    BY <2>1
  <2>3. QED BY <2>1, <2>2, ElementOfSeq
<1>8. recorded' \in Seq(Stream)
  <2>1. recorded \in Seq(Stream)
    BY <1>2 DEF Receiving
  <2>2. QED BY <1>1, <1>7, <2>1, HandsRecords
<1>9. Receiving'
  <2>1. frame \in Stream /\ Len(frame) <= frame_cap
    BY <1>2 DEF Receiving
  <2>2. QED BY ONLY <1>1, <1>3, <1>5, <1>6, <1>8, <2>1 DEF Receiving
<1>10. Booleans' /\ Sending' /\ Counts'
  <2>1. Booleans' /\ Counts'
    BY ONLY <1>1, <1>2, <1>3 DEF Booleans, Counts
  <2>2. Sending'
    BY ONLY <1>2, <1>3 DEF Sending
  <2>3. QED BY <2>1, <2>2
<1>11. QED BY <1>4, <1>9, <1>10 DEF LiveInv

\* An RTP packet leaves a frame that fits.
LEMMA FeedRtpKeepsTypes ==
    ASSUME LiveInv, FeedRtp
    PROVE  LiveInv'
<1>1. PICK p \in net :
         /\ net' = net \ {p} /\ ~IsRaw(p)
         /\ detected' = TRUE /\ raw' = FALSE
         /\ lost_packets' = lost_packets + (IF IsGap(p) THEN 1 ELSE 0)
         /\ have_seq' = TRUE /\ last_seq' = seq(p)
         /\ frame' = FrameLeft(p)
         /\ IF p.marker /\ Depacketized(p) # <<>>
            THEN Hands(Depacketized(p), Append(arrived, p.n))
            ELSE UNCHANGED <<unit, recorded>>
         /\ gaps' = gaps + (IF have_seq /\ p.n # latest + 1 THEN 1 ELSE 0)
         /\ latest' = p.n
         /\ arrived' = (IF p.marker THEN <<>> ELSE Append(arrived, p.n))
         /\ UNCHANGED senderVars
  BY DEF FeedRtp
<1>2. Booleans /\ Sending /\ InFlight /\ Receiving /\ Counts
  BY DEF LiveInv
<1>3. /\ is_h265' = is_h265 /\ annexb' = annexb /\ sent' = sent /\ todo' = todo /\ at' = at
  BY <1>1 DEF senderVars
<1>4. InFlight' /\ PacketOK(p) /\ (p.kind = "annexb" <=> annexb)
  BY <1>1, <1>2, <1>3, TakesOne
<1>5. ~annexb
  BY <1>1, <1>4, RawIsAnnexB
<1>6. p.n \in Int
  BY <1>4 DEF PacketOK
<1>7. /\ Depacketized(p) \in Stream /\ Len(Depacketized(p)) <= frame_cap
  <2>1. frame \in Stream /\ Len(frame) <= frame_cap
    BY <1>2 DEF Receiving
  <2>2. QED BY <1>4, <2>1, DepacketizedFits
<1>8. frame' \in Stream /\ Len(frame') <= frame_cap
  BY <1>1, <1>7, StreamEmpty, Sizes DEF FrameLeft
<1>9. recorded' \in Seq(Stream)
  <2>1. recorded \in Seq(Stream)
    BY <1>2 DEF Receiving
  <2>2. CASE p.marker /\ Depacketized(p) # <<>>
    <3>1. Hands(Depacketized(p), Append(arrived, p.n))
      BY <1>1, <2>2
    <3>2. QED BY ONLY <1>7, <2>1, <3>1, HandsRecords
  <2>3. CASE ~(p.marker /\ Depacketized(p) # <<>>)
    BY <1>1, <2>1, <2>3
  <2>4. QED BY <2>2, <2>3
<1>10. Receiving'
  <2>1. detected' /\ ~raw' /\ ~annexb'
    BY <1>1, <1>3, <1>5
  <2>2. QED BY ONLY <1>8, <1>9, <2>1 DEF Receiving
<1>11. Counts'
  <2>1. last_seq \in Int /\ lost_packets \in Nat /\ gaps \in Nat /\ arrived \in Seq(Int)
    BY <1>2, Sizes DEF Counts
  <2>2. last_seq' \in 0 .. SeqSpace - 1
    BY <1>1, <1>6, Sizes DEF seq
  <2>3. lost_packets' \in Nat /\ gaps' \in Nat /\ latest' \in Int
    BY <1>1, <1>6, <2>1
  <2>4. arrived' \in Seq(Int)
    <3>1. Append(arrived, p.n) \in Seq(Int) /\ <<>> \in Seq(Int)
      BY <1>6, <2>1, AppendProperties, EmptySeq
    <3>2. QED BY <1>1, <3>1
  <2>5. QED BY <2>2, <2>3, <2>4 DEF Counts
<1>12. Booleans'
  BY <1>1, <1>2, <1>3 DEF Booleans
<1>13. Sending'
  BY ONLY <1>2, <1>3 DEF Sending
<1>14. QED BY <1>4, <1>10, <1>11, <1>12, <1>13 DEF LiveInv

\* So every step of the live half does.
LEMMA LiveKeepsTypes == LiveInv /\ Live => LiveInv'
<1> SUFFICES ASSUME LiveInv, Live PROVE LiveInv'
  OBVIOUS
<1>1. CASE BeginPicture
  BY <1>1, BeginKeepsTypes
<1>2. CASE SendAnnexB \/ SendNals \/ SendFragment
  BY <1>2, SendAdvances, SendsKeepsTypes
<1>3. CASE Lose
  BY <1>3, LoseKeepsTypes
<1>4. CASE FeedRaw
  BY <1>4, FeedRawKeepsTypes
<1>5. CASE FeedRtp
  BY <1>5, FeedRtpKeepsTypes
<1>6. QED BY <1>1, <1>2, <1>3, <1>4, <1>5 DEF Live

----------------------------------------------------------------------------
(* What was sent under which number *)

\* The packets' symbols by their numbers: of those in a list, and of those from
\* one number to another.
Contents == [Int -> Stream]
RunOf(C, from) == FlattenSeq([x \in 1 .. Len(from) |-> C[from[x]]])
Numbers(first, last) == [x \in 1 .. last - first + 1 |-> first + x - 1]

\* The contents of listed numbers, put together, are a stream.
LEMMA ListOf ==
    ASSUME NEW C, C \in Contents, NEW from, from \in Seq(Int)
    PROVE  /\ [x \in 1 .. Len(from) |-> C[from[x]]] \in Seq(Stream)
           /\ Len([x \in 1 .. Len(from) |-> C[from[x]]]) = Len(from)
           /\ RunOf(C, from) \in Stream
<1>1. \A x \in 1 .. Len(from) : C[from[x]] \in Stream
  BY DEF Contents
<1>2. Len(from) \in Nat
  OBVIOUS
<1>3. /\ [x \in 1 .. Len(from) |-> C[from[x]]] \in Seq(Stream)
      /\ Len([x \in 1 .. Len(from) |-> C[from[x]]]) = Len(from)
  BY <1>1, <1>2
<1>4. QED BY <1>3, StreamFlatten DEF RunOf

\* No number carries anything.
LEMMA RunOfNothing == \A C : RunOf(C, <<>>) = <<>>
<1> SUFFICES ASSUME NEW C PROVE RunOf(C, <<>>) = <<>>
  OBVIOUS
<1>1. [x \in 1 .. Len(<<>>) |-> C[<<>>[x]]] = <<>>
  OBVIOUS
<1>2. QED BY <1>1, FlattenEmpty DEF RunOf

\* One number more.
LEMMA RunOfAppend ==
    ASSUME NEW C, C \in Contents, NEW from, from \in Seq(Int), NEW n, n \in Int
    PROVE  Joins(RunOf(C, Append(from, n)), RunOf(C, from), C[n])
<1> DEFINE s == [x \in 1 .. Len(from) |-> C[from[x]]]
           t == [x \in 1 .. Len(Append(from, n)) |-> C[Append(from, n)[x]]]
<1>1. /\ Append(from, n) \in Seq(Int) /\ Len(Append(from, n)) = Len(from) + 1
      /\ \A i \in 1 .. Len(from) : Append(from, n)[i] = from[i]
      /\ Append(from, n)[Len(from) + 1] = n
  BY AppendProperties
<1>2. s \in Seq(Stream) /\ Len(s) = Len(from)
  BY ListOf
<1>3. t \in Seq(Stream) /\ Len(t) = Len(Append(from, n))
  BY <1>1, ListOf
<1>4. Len(from) \in Nat
  OBVIOUS
<1>5. \A i \in 1 .. Len(from) : t[i] = s[i]
  <2> SUFFICES ASSUME NEW i \in 1 .. Len(from) PROVE t[i] = s[i]
    OBVIOUS
  <2>1. i \in 1 .. Len(Append(from, n))
    BY <1>1, <1>4
  <2>2. QED BY <1>1, <2>1
<1>6. t[Len(from) + 1] = C[n]
  <2>1. Len(from) + 1 \in 1 .. Len(Append(from, n))
    BY <1>1, <1>4
  <2>2. QED BY <1>1, <2>1
<1>7. RunOf(C, Append(from, n)) = FlattenSeq(t) /\ RunOf(C, from) = FlattenSeq(s)
  BY DEF RunOf
<1> HIDE DEF s, t
<1>8. /\ Len(t) = Len(s) + 1 /\ \A i \in 1 .. Len(s) : t[i] = s[i]
      /\ t[Len(t)] = C[n]
  BY <1>1, <1>2, <1>3, <1>5, <1>6
<1>9. FlattenSeq(t) = FlattenSeq(s) \o t[Len(t)]
  BY ONLY <1>2, <1>3, <1>8, StreamFlattenLonger, ZenonT(30)
<1>10. QED BY <1>7, <1>8, <1>9 DEF Joins

\* The symbols of other numbers do not matter.
LEMMA RunOfSame ==
    ASSUME NEW C, NEW D, NEW from, \A x \in 1 .. Len(from) : C[from[x]] = D[from[x]]
    PROVE  RunOf(C, from) = RunOf(D, from)
<1>1. [x \in 1 .. Len(from) |-> C[from[x]]] = [x \in 1 .. Len(from) |-> D[from[x]]]
  OBVIOUS
<1>2. QED BY <1>1 DEF RunOf

\* The numbers in a row, and one more.
LEMMA NumbersAre ==
    ASSUME NEW first, first \in Int, NEW last, last \in Int, first - 1 <= last
    PROVE  /\ Numbers(first, last) \in Seq(Int) /\ Len(Numbers(first, last)) = last - first + 1
           /\ \A x \in 1 .. Len(Numbers(first, last)) :
                /\ Numbers(first, last)[x] \in Int /\ Numbers(first, last)[x] <= last
           /\ Numbers(first, last + 1) = Append(Numbers(first, last), last + 1)
           /\ Numbers(first, first - 1) = <<>>
<1>1. last - first + 1 \in Nat
  OBVIOUS
<1>2. /\ Numbers(first, last) \in Seq(Int) /\ Len(Numbers(first, last)) = last - first + 1
      /\ \A x \in 1 .. last - first + 1 : Numbers(first, last)[x] = first + x - 1
  BY <1>1 DEF Numbers
<1>3. /\ Numbers(first, last + 1) \in Seq(Int)
      /\ Len(Numbers(first, last + 1)) = last - first + 2
      /\ \A x \in 1 .. last - first + 2 : Numbers(first, last + 1)[x] = first + x - 1
  <2>1. (last + 1) - first + 1 = last - first + 2 /\ last - first + 2 \in Nat
    BY <1>1
  <2>2. QED BY <2>1 DEF Numbers
<1>4. ASSUME NEW x \in 1 .. Len(Numbers(first, last))
      PROVE  Numbers(first, last)[x] \in Int /\ Numbers(first, last)[x] <= last
  BY <1>1, <1>2
<1>5. Numbers(first, last + 1) = Append(Numbers(first, last), last + 1)
  <2> DEFINE s == Numbers(first, last + 1)
             t == Append(Numbers(first, last), last + 1)
  <2>1. /\ t \in Seq(Int) /\ Len(t) = last - first + 2
        /\ \A i \in 1 .. last - first + 1 : t[i] = Numbers(first, last)[i]
        /\ t[last - first + 2] = last + 1
    <3>1. last + 1 \in Int /\ (last - first + 1) + 1 = last - first + 2
      OBVIOUS
    <3>2. /\ t \in Seq(Int) /\ Len(t) = Len(Numbers(first, last)) + 1
          /\ \A i \in 1 .. Len(Numbers(first, last)) : t[i] = Numbers(first, last)[i]
          /\ t[Len(Numbers(first, last)) + 1] = last + 1
      BY <1>2, <3>1, AppendProperties
    <3>3. QED BY <1>2, <3>1, <3>2
  <2>2. ASSUME NEW i \in 1 .. Len(s) PROVE s[i] = t[i]
    <3>1. i \in 1 .. last - first + 2
      BY <1>3
    <3>2. CASE i = last - first + 2
      BY <1>3, <2>1, <3>1, <3>2
    <3>3. CASE i # last - first + 2
      <4>1. i \in 1 .. last - first + 1
        BY <3>1, <3>3
      <4>2. QED BY <1>2, <1>3, <2>1, <3>1, <4>1
    <3>4. QED BY <3>2, <3>3
  <2> HIDE DEF s, t
  <2>3. s \in Seq(Int) /\ Len(s) = Len(t)
    BY <1>3, <2>1 DEF s
  <2>4. s = t
    BY <2>1, <2>2, <2>3, SeqEqual
  <2>5. QED BY <2>4 DEF s, t
<1>6. Numbers(first, first - 1) = <<>>
  <2>1. (first - 1) - first + 1 = 0
    OBVIOUS
  <2>2. QED BY <2>1 DEF Numbers
<1>7. QED BY <1>2, <1>4, <1>5, <1>6

\* What was made of these packets, all sent by then, is their symbols, if there
\* was room for them.
Holds(C, from, data, last) ==
    /\ from \in Seq(Int) /\ \A x \in 1 .. Len(from) : from[x] <= last
    /\ Len(RunOf(C, from)) <= frame_cap => data = RunOf(C, from)

PictureOf(shape, k) == Opening(shape, k, Len(shape))
NumbersOf(s, k) == Numbers(s[k].first, s[k].last)

\* The packets in flight, the pictures begun, and the frame and the unit.
CarriedRight(C) == \A p \in net : p.n <= LastSent /\ C[p.n] = Carries(p)
SentRight(C) ==
    /\ \A k \in 1 .. Len(sent) :
         sent[k].first - 1 <= sent[k].last /\ sent[k].last <= LastSent
    /\ \A k \in 1 .. Len(sent) - 1 :
         RunOf(C, NumbersOf(sent, k)) = PictureOf(sent[k].shape, k)
    /\ sent # <<>> => RunOf(C, NumbersOf(sent, Len(sent)))
                          = SoFar(sent[Len(sent)].shape, Len(sent), todo, at)
FedRight(C) ==
    Holds(C, arrived, frame, LastSent) /\ Holds(C, unit.from, unit.data, LastSent)

Right(C) == C \in Contents /\ CarriedRight(C) /\ SentRight(C) /\ FedRight(C)

\* There was a content for every number, which everything agrees with.
PicturesInv == phase = "live" => \E C : Right(C)

\* What is sent later does not matter.
LEMMA HoldsLater ==
    ASSUME NEW C, NEW D, NEW from, NEW data, NEW last, last \in Int,
           Holds(C, from, data, last), \A n \in Int : n <= last => D[n] = C[n]
    PROVE  Holds(D, from, data, last) /\ Holds(D, from, data, last + 1)
<1>1. from \in Seq(Int) /\ \A x \in 1 .. Len(from) : from[x] \in Int /\ from[x] <= last
  BY DEF Holds
<1>2. \A x \in 1 .. Len(from) : D[from[x]] = C[from[x]]
  BY <1>1
<1>3. RunOf(D, from) = RunOf(C, from)
  BY <1>2, RunOfSame
<1>4. \A x \in 1 .. Len(from) : from[x] <= last + 1
  BY <1>1
<1>5. Len(RunOf(D, from)) <= frame_cap => data = RunOf(D, from)
  BY <1>3 DEF Holds
<1>6. QED BY <1>1, <1>4, <1>5 DEF Holds

\* The types of the history of what was sent.
LEMMA LastSentType ==
    ASSUME LiveInv
    PROVE  /\ LastSent \in Int
           /\ \A k \in 1 .. Len(sent) :
                /\ sent[k].first \in Int /\ sent[k].last \in Int
                /\ sent[k].shape \in Seq(Nals) /\ sent[k].shape # <<>>
           /\ Len(sent) \in Nat
<1>1. sent \in Seq(Sent)
  BY DEF LiveInv, Sending
<1>2. ASSUME NEW k \in 1 .. Len(sent)
      PROVE  /\ sent[k].first \in Int /\ sent[k].last \in Int
             /\ sent[k].shape \in Seq(Nals) /\ sent[k].shape # <<>>
  <2>1. sent[k] \in Sent
    BY <1>1
  <2>2. sent[k].shape \in Shapes /\ sent[k].first \in Int /\ sent[k].last \in Int
    BY <2>1 DEF Sent
  <2>3. QED BY <2>2, ShapeType
<1>3. LastSent \in Int
  <2>1. CASE sent = <<>>
    BY <2>1, Sizes DEF LastSent
  <2>2. CASE sent # <<>>
    <3>1. Len(sent) \in 1 .. Len(sent)
      BY <1>1, <2>2
    <3>2. sent[Len(sent)].last \in Int
      BY <1>2, <3>1
    <3>3. QED BY <2>2, <3>2 DEF LastSent
  <2>3. QED BY <2>1, <2>2
<1>4. QED BY <1>1, <1>2, <1>3

\* One packet's pieces more.
LEMMA PacketHolds ==
    ASSUME LiveInv, NEW C, C \in Contents, NEW p, PacketOK(p), p.kind # "annexb",
           C[p.n] = Carries(p), p.n <= LastSent, Holds(C, arrived, frame, LastSent)
    PROVE  Holds(C, Append(arrived, p.n), Depacketized(p), LastSent)
<1>1. p.n \in Int /\ LastSent \in Int
  BY LastSentType DEF PacketOK
<1>2. arrived \in Seq(Int) /\ \A x \in 1 .. Len(arrived) : arrived[x] <= LastSent
  BY DEF Holds
<1>3. /\ Append(arrived, p.n) \in Seq(Int)
      /\ \A x \in 1 .. Len(Append(arrived, p.n)) : Append(arrived, p.n)[x] <= LastSent
  <2>1. /\ Append(arrived, p.n) \in Seq(Int) /\ Len(Append(arrived, p.n)) = Len(arrived) + 1
        /\ \A i \in 1 .. Len(arrived) : Append(arrived, p.n)[i] = arrived[i]
        /\ Append(arrived, p.n)[Len(arrived) + 1] = p.n
    BY <1>1, <1>2, AppendProperties
  <2>2. Len(arrived) \in Nat
    BY <1>2
  <2>3. \A x \in 1 .. Len(arrived) + 1 : x \in 1 .. Len(arrived) \/ x = Len(arrived) + 1
    BY <2>2
  <2>4. QED BY <1>2, <2>1, <2>3
<1>4. RunOf(C, Append(arrived, p.n)) = RunOf(C, arrived) \o Carries(p)
  <2>1. Joins(RunOf(C, Append(arrived, p.n)), RunOf(C, arrived), C[p.n])
    BY <1>1, <1>2, RunOfAppend
  <2>2. QED BY <2>1 DEF Joins
<1>5. RunOf(C, arrived) \in Stream /\ Carries(p) \in Stream
  BY <1>2, ListOf, PiecesType
<1>6. frame \in Stream /\ Len(frame) <= frame_cap
  BY DEF LiveInv, Receiving
<1>7. ASSUME Len(RunOf(C, Append(arrived, p.n))) <= frame_cap
      PROVE  Depacketized(p) = RunOf(C, Append(arrived, p.n))
  <2>1. /\ Len(RunOf(C, arrived)) \in Nat /\ Len(Carries(p)) \in Nat
        /\ Len(RunOf(C, arrived) \o Carries(p)) = Len(RunOf(C, arrived)) + Len(Carries(p))
    BY <1>5, StreamConcat
  <2>2. Len(RunOf(C, arrived)) + Len(Carries(p)) <= frame_cap
    BY <1>4, <1>7, <2>1
  <2>3. Len(RunOf(C, arrived)) <= frame_cap
    BY <2>1, <2>2, Sizes
  <2>4. frame = RunOf(C, arrived)
    BY <2>3 DEF Holds
  <2>5. Len(frame) + Len(Carries(p)) <= frame_cap
    BY <2>2, <2>4
  <2>6. Depacketized(p) = frame \o Carries(p)
    BY <1>6, <2>5, DepacketizedFits
  <2>7. QED BY <1>4, <2>4, <2>6
<1>8. QED BY <1>3, <1>7 DEF Holds

\* Nothing has been sent at first, and every content is right.
LEMMA InitRight == Init => PicturesInv
<1> SUFFICES ASSUME Init PROVE \E C : Right(C)
  BY DEF PicturesInv
<1> DEFINE C == [n \in Int |-> <<>>]
<1>1. /\ sent = <<>> /\ net = {} /\ arrived = <<>> /\ frame = <<>>
      /\ unit.from = <<>> /\ unit.data = <<>>
  BY DEF Init, RtpInit, NoUnit
<1>2. C \in Contents
  BY StreamEmpty DEF Contents
<1> HIDE DEF C
<1>3. CarriedRight(C)
  BY <1>1 DEF CarriedRight
<1>4. SentRight(C)
  BY <1>1 DEF SentRight
<1>5. Holds(C, <<>>, <<>>, LastSent)
  BY RunOfNothing DEF Holds
<1>6. QED BY <1>1, <1>2, <1>3, <1>4, <1>5 DEF Right, FedRight

\* An Annex-B datagram is fed as it is.
LEMMA FeedRawKeepsRight ==
    ASSUME LiveInv, FeedRaw, NEW C, Right(C)
    PROVE  Right(C)'
<1>1. PICK p \in net :
         /\ net' = net \ {p} /\ IsRaw(p) /\ Hands(p.nals[1], <<p.n>>)
         /\ sent' = sent /\ todo' = todo /\ at' = at /\ frame' = frame /\ arrived' = arrived
  BY DEF FeedRaw, senderVars, history
<1>2. PacketOK(p) /\ (p.kind = "annexb" <=> annexb)
  BY DEF LiveInv, InFlight
<1>3. p.kind = "annexb"
  BY <1>1, <1>2, RawIsAnnexB
<1>4. p.n \in Int /\ p.n <= LastSent /\ C[p.n] = p.nals[1]
  BY <1>2, <1>3 DEF Right, CarriedRight, Carries, PacketOK
<1>5. LastSent' = LastSent
  BY <1>1 DEF LastSent
<1>6. CarriedRight(C)'
  BY <1>1, <1>5 DEF Right, CarriedRight
<1>7. SentRight(C)'
  <2>1. SentRight(C)
    BY DEF Right
  <2>2. QED BY ONLY <1>1, <1>5, <2>1 DEF SentRight
<1>8. FedRight(C)'
  <2>1. unit'.data = p.nals[1] /\ unit'.from = <<p.n>>
    BY <1>1 DEF Hands
  <2>2. Holds(C, arrived, frame, LastSent)
    BY DEF Right, FedRight
  <2>3. Holds(C, <<p.n>>, p.nals[1], LastSent)
    <3>1. C \in Contents /\ <<>> \in Seq(Int)
      BY DEF Right
    <3>2. Joins(RunOf(C, Append(<<>>, p.n)), RunOf(C, <<>>), C[p.n])
      BY <1>4, <3>1, RunOfAppend
    <3>3. Append(<<>>, p.n) = <<p.n>>
      OBVIOUS
    <3>4. C[p.n] \in Stream
      BY <1>4, <3>1 DEF Contents
    <3>5. RunOf(C, <<p.n>>) = C[p.n]
      BY <3>2, <3>3, <3>4, RunOfNothing, StreamEmpty DEF Joins
    <3>6. /\ <<p.n>> \in Seq(Int)
          /\ \A x \in 1 .. Len(<<p.n>>) : <<p.n>>[x] <= LastSent
      BY <1>4
    <3>7. QED BY <1>4, <3>5, <3>6 DEF Holds
  <2>4. QED BY <1>1, <1>5, <2>1, <2>2, <2>3 DEF FedRight
<1>9. QED BY <1>6, <1>7, <1>8 DEF Right

\* An RTP packet is appended, and its marker hands the frame on.
LEMMA FeedRtpKeepsRight ==
    ASSUME LiveInv, FeedRtp, NEW C, Right(C)
    PROVE  Right(C)'
<1>1. PICK p \in net :
         /\ net' = net \ {p} /\ ~IsRaw(p) /\ frame' = FrameLeft(p)
         /\ IF p.marker /\ Depacketized(p) # <<>>
            THEN Hands(Depacketized(p), Append(arrived, p.n))
            ELSE UNCHANGED <<unit, recorded>>
         /\ arrived' = (IF p.marker THEN <<>> ELSE Append(arrived, p.n))
         /\ sent' = sent /\ todo' = todo /\ at' = at
  BY DEF FeedRtp, senderVars
<1>2. PacketOK(p) /\ (p.kind = "annexb" <=> annexb)
  BY DEF LiveInv, InFlight
<1>3. p.kind # "annexb"
  BY <1>1, <1>2, RawIsAnnexB
<1>4. C \in Contents /\ p.n <= LastSent /\ C[p.n] = Carries(p)
  BY DEF Right, CarriedRight
<1>5. LastSent' = LastSent
  BY <1>1 DEF LastSent
<1>6. CarriedRight(C)'
  BY <1>1, <1>5 DEF Right, CarriedRight
<1>7. SentRight(C)'
  <2>1. SentRight(C)
    BY DEF Right
  <2>2. QED BY ONLY <1>1, <1>5, <2>1 DEF SentRight
<1>8. /\ Holds(C, arrived, frame, LastSent) /\ Holds(C, unit.from, unit.data, LastSent)
      /\ Holds(C, <<>>, <<>>, LastSent)
      /\ Holds(C, Append(arrived, p.n), Depacketized(p), LastSent)
  <2>1. Holds(C, arrived, frame, LastSent) /\ Holds(C, unit.from, unit.data, LastSent)
    BY DEF Right, FedRight
  <2>2. Holds(C, <<>>, <<>>, LastSent)
    BY RunOfNothing DEF Holds
  <2>3. Holds(C, Append(arrived, p.n), Depacketized(p), LastSent)
    BY <1>2, <1>3, <1>4, <2>1, PacketHolds
  <2>4. QED BY <2>1, <2>2, <2>3
<1>9. Holds(C, arrived', frame', LastSent)
  BY <1>1, <1>8 DEF FrameLeft
<1>10. Holds(C, unit'.from, unit'.data, LastSent)
  <2>1. CASE p.marker /\ Depacketized(p) # <<>>
    <3>1. Hands(Depacketized(p), Append(arrived, p.n))
      BY <1>1, <2>1
    <3>2. unit'.data = Depacketized(p) /\ unit'.from = Append(arrived, p.n)
      BY <3>1 DEF Hands
    <3>3. QED BY <1>8, <3>2
  <2>2. CASE ~(p.marker /\ Depacketized(p) # <<>>)
    <3>1. unit' = unit
      BY <1>1, <2>2
    <3>2. QED BY <1>8, <3>1
  <2>3. QED BY <2>1, <2>2
<1>11. FedRight(C)'
  BY <1>5, <1>9, <1>10 DEF FedRight
<1>12. QED BY <1>4, <1>6, <1>7, <1>11 DEF Right

\* What is lost is missed by nothing that holds.
LEMMA LoseKeepsRight ==
    ASSUME Lose, NEW C, Right(C)
    PROVE  Right(C)'
<1>1. /\ \A p \in net' : p \in net
      /\ sent' = sent /\ todo' = todo /\ at' = at /\ frame' = frame /\ arrived' = arrived
      /\ unit' = unit
  BY DEF Lose, senderVars, playerVars, history
<1>2. LastSent' = LastSent
  BY <1>1 DEF LastSent
<1>3. C \in Contents /\ CarriedRight(C) /\ SentRight(C) /\ FedRight(C)
  BY DEF Right
<1>4. CarriedRight(C)'
  BY <1>1, <1>2, <1>3 DEF CarriedRight
<1>5. SentRight(C)'
  BY ONLY <1>1, <1>2, <1>3 DEF SentRight
<1>6. FedRight(C)'
  BY <1>1, <1>2, <1>3 DEF FedRight
<1>7. QED BY <1>3, <1>4, <1>5, <1>6 DEF Right

\* A picture that begins has no packets yet.
LEMMA BeginKeepsRight ==
    ASSUME LiveInv, BeginPicture, NEW C, Right(C)
    PROVE  Right(C)'
<1>1. PICK shape \in Shapes :
         /\ sent' = Append(sent, [shape |-> shape, first |-> LastSent + 1, last |-> LastSent])
         /\ [shape |-> shape, first |-> LastSent + 1, last |-> LastSent] \in Sent
         /\ todo' = shape /\ at' = 0 /\ todo = <<>> /\ LastSent \in Int
  BY BeginAppends
<1> DEFINE e == [shape |-> shape, first |-> LastSent + 1, last |-> LastSent]
           N == Len(sent)
<1>2. e.shape = shape /\ e.first = LastSent + 1 /\ e.last = LastSent
  OBVIOUS
<1>3. sent \in Seq(Sent) /\ (sent # <<>> => at = 0) /\ N \in Nat
  <2>1. Sending
    BY DEF LiveInv
  <2>2. sent \in Seq(Sent) /\ at = 0
    BY <1>1, <2>1 DEF Sending
  <2>3. QED BY <2>2
<1> HIDE DEF e, N
<1>4. /\ Len(sent') = N + 1 /\ sent' # <<>> /\ sent'[N + 1] = e
      /\ \A k \in 1 .. N : sent'[k] = sent[k]
  BY <1>1, <1>3, AppendProperties DEF e, N
<1>5. LastSent' = LastSent
  BY <1>2, <1>4 DEF LastSent
<1>6. /\ net' = net /\ frame' = frame /\ arrived' = arrived /\ unit' = unit
  BY DEF BeginPicture, playerVars, history
<1>7. C \in Contents /\ CarriedRight(C) /\ SentRight(C) /\ FedRight(C)
  BY DEF Right
<1>8. CarriedRight(C)' /\ FedRight(C)'
  BY <1>5, <1>6, <1>7 DEF CarriedRight, FedRight
<1>9. ASSUME NEW k \in 1 .. N
      PROVE  RunOf(C, NumbersOf(sent, k)) = PictureOf(sent[k].shape, k)
  <2>1. CASE k \in 1 .. N - 1
    BY <1>7, <2>1 DEF SentRight, N
  <2>2. CASE k = N
    <3>1. sent # <<>>
      BY <1>3, <1>9 DEF N
    <3>2. RunOf(C, NumbersOf(sent, N)) = SoFar(sent[N].shape, N, <<>>, 0)
      BY <1>1, <1>3, <1>7, <3>1 DEF SentRight, N
    <3>3. sent[N].shape \in Seq(Nals)
      BY <1>9, <2>2, LastSentType DEF N
    <3>4. SoFar(sent[N].shape, N, <<>>, 0) = PictureOf(sent[N].shape, N)
      BY <1>3, <3>3, PictureIs DEF PictureOf
    <3>5. QED BY <2>2, <3>2, <3>4
  <2>3. QED BY <1>3, <2>1, <2>2
<1>10. SentRight(C)'
  <2>1. ASSUME NEW k \in 1 .. N + 1
        PROVE  sent'[k].first - 1 <= sent'[k].last /\ sent'[k].last <= LastSent
    <3>1. CASE k \in 1 .. N
      BY <1>4, <1>7, <3>1 DEF SentRight, N
    <3>2. CASE k = N + 1
      BY <1>1, <1>2, <1>4, <3>2
    <3>3. QED BY <1>3, <3>1, <3>2
  <2>2. ASSUME NEW k \in 1 .. (N + 1) - 1
        PROVE  RunOf(C, NumbersOf(sent', k)) = PictureOf(sent'[k].shape, k)
    <3>1. k \in 1 .. N
      BY <1>3
    <3>2. sent'[k] = sent[k]
      BY <1>4, <3>1
    <3>3. QED BY <1>9, <3>1, <3>2 DEF NumbersOf
  <2>3. RunOf(C, NumbersOf(sent', N + 1)) = SoFar(sent'[N + 1].shape, N + 1, todo', at')
    <3>1. NumbersOf(sent', N + 1) = <<>>
      <4>1. LastSent + 1 \in Int /\ LastSent = (LastSent + 1) - 1 /\ (LastSent + 1) - 1 <= LastSent
        BY <1>1
      <4>2. Numbers(LastSent + 1, (LastSent + 1) - 1) = <<>>
        BY <1>1, <4>1, NumbersAre
      <4>3. QED BY <1>2, <1>4, <4>1, <4>2 DEF NumbersOf
    <3>2. shape \in Seq(Nals) /\ N + 1 \in Nat
      BY <1>3, ShapeType
    <3>3. SoFar(shape, N + 1, shape, 0) = <<>>
      BY <3>2, SoFarNothing
    <3>4. QED BY <1>1, <1>2, <1>4, <3>1, <3>3, RunOfNothing
  <2>4. QED BY <1>4, <1>5, <2>1, <2>2, <2>3 DEF SentRight
<1>11. QED BY <1>7, <1>8, <1>10 DEF Right

\* A packet more sent: what it carries is under its number.
LEMMA SendsKeepsRight ==
    ASSUME LiveInv, todo # <<>>,
           NEW kind, NEW start, NEW nals, NEW left, NEW done,
           Sends(kind, start, nals, left, done), WellMade(kind, start, nals, left, done),
           Brings(kind, start, nals, left, done), NEW C, Right(C)
    PROVE  \E D : Right(D)'
<1> DEFINE N == Len(sent)
           n == LastSent + 1
           p == [n |-> n, marker |-> left = <<>>, kind |-> kind, start |-> start, nals |-> nals]
<1>1. Sending /\ sent # <<>>
  BY DEF LiveInv, Sending
<1>2. sent[N].last = LastSent /\ LastSent \in Int /\ n \in Int
  BY <1>1, LastSentType DEF LastSent
<1>3. /\ todo' = left /\ at' = done /\ net' = net \cup {p}
      /\ sent' = [sent EXCEPT ![N].last = n]
      /\ frame' = frame /\ arrived' = arrived /\ unit' = unit
  BY <1>2 DEF Sends, k_now, playerVars, history
<1>4. PacketOK(p)
  BY <1>2 DEF WellMade, PacketOK
<1>5. Carries(p) \in Stream
  BY <1>4, PiecesType
<1>6. p.n = n /\ p.kind = kind /\ (p.start <=> start) /\ p.nals = nals
  OBVIOUS
<1> HIDE DEF p, n
<1>7. /\ sent' \in Seq(Sent) /\ Len(sent') = N /\ N \in Nat \ {0}
      /\ \A k \in 1 .. N :
           /\ sent'[k].shape = sent[k].shape /\ sent'[k].first = sent[k].first
           /\ sent'[k].last = IF k = N THEN n ELSE sent[k].last
  <2>1. sent' = [sent EXCEPT ![Len(sent)].last = n]
    BY <1>3
  <2>2. QED BY ONLY <1>1, <1>2, <2>1, SentAfter
<1> HIDE DEF N
<1>8. LastSent' = n
  <2>1. N \in 1 .. N /\ sent' # <<>>
    BY <1>7
  <2>2. QED BY <1>7, <2>1 DEF LastSent
<1>9. C \in Contents /\ CarriedRight(C) /\ SentRight(C) /\ FedRight(C)
  BY DEF Right
<1>10. PICK D : /\ D \in Contents /\ D[n] = Carries(p)
                /\ \A m \in Int : m <= LastSent => D[m] = C[m]
  <2> DEFINE E == [C EXCEPT ![n] = Carries(p)]
  <2>1. E \in Contents /\ E[n] = Carries(p) /\ \A m \in Int : m <= LastSent => E[m] = C[m]
    BY <1>2, <1>5, <1>9 DEF Contents, n
  <2>2. QED BY <2>1
<1>11. CarriedRight(D)'
  <2>1. ASSUME NEW q \in net PROVE q.n <= n /\ D[q.n] = Carries(q)
    <3>1. q.n \in Int
      BY DEF LiveInv, InFlight, PacketOK
    <3>2. q.n <= LastSent /\ C[q.n] = Carries(q)
      BY <1>9 DEF CarriedRight
    <3>3. QED BY <1>2, <1>10, <3>1, <3>2 DEF n
  <2>2. p.n <= n /\ D[p.n] = Carries(p)
    BY <1>2, <1>6, <1>10
  <2>3. QED BY <1>3, <1>8, <2>1, <2>2 DEF CarriedRight
<1>12. FedRight(D)'
  <2>1. Holds(C, arrived, frame, LastSent) /\ Holds(C, unit.from, unit.data, LastSent)
    BY <1>9 DEF FedRight
  <2>2. Holds(D, arrived, frame, n) /\ Holds(D, unit.from, unit.data, n)
    BY ONLY <1>2, <1>10, <2>1, HoldsLater DEF n
  <2>3. QED BY <1>3, <1>8, <2>2 DEF FedRight
<1>13. ASSUME NEW k \in 1 .. N
       PROVE  /\ sent[k].first \in Int /\ sent[k].last \in Int
              /\ sent[k].first - 1 <= sent[k].last /\ sent[k].last <= LastSent
              /\ RunOf(D, NumbersOf(sent, k)) = RunOf(C, NumbersOf(sent, k))
  <2>1. sent[k].first \in Int /\ sent[k].last \in Int
    BY LastSentType DEF N
  <2>2. sent[k].first - 1 <= sent[k].last /\ sent[k].last <= LastSent
    BY <1>9 DEF SentRight, N
  <2>3. \A x \in 1 .. Len(NumbersOf(sent, k)) :
          NumbersOf(sent, k)[x] \in Int /\ NumbersOf(sent, k)[x] <= LastSent
    <3>1. \A x \in 1 .. Len(NumbersOf(sent, k)) :
          NumbersOf(sent, k)[x] \in Int /\ NumbersOf(sent, k)[x] <= sent[k].last
      BY <2>1, <2>2, NumbersAre DEF NumbersOf
    <3>2. QED BY <1>2, <2>1, <2>2, <3>1
  <2>4. \A x \in 1 .. Len(NumbersOf(sent, k)) :
          D[NumbersOf(sent, k)[x]] = C[NumbersOf(sent, k)[x]]
    BY <1>10, <2>3
  <2>5. QED BY <2>1, <2>2, <2>4, RunOfSame
<1>14. ASSUME NEW k \in 1 .. N
       PROVE  sent'[k].first - 1 <= sent'[k].last /\ sent'[k].last <= n
  BY <1>2, <1>7, <1>13 DEF n
<1>15. ASSUME NEW k \in 1 .. N - 1
       PROVE  RunOf(D, NumbersOf(sent', k)) = PictureOf(sent'[k].shape, k)
  <2>1. k \in 1 .. N /\ k # N
    BY <1>7
  <2>2. NumbersOf(sent', k) = NumbersOf(sent, k) /\ sent'[k].shape = sent[k].shape
    BY <1>7, <2>1 DEF NumbersOf
  <2>3. RunOf(C, NumbersOf(sent, k)) = PictureOf(sent[k].shape, k)
    BY <1>9 DEF SentRight, N
  <2>4. QED BY <1>13, <2>1, <2>2, <2>3
<1>16. RunOf(D, NumbersOf(sent', N)) = SoFar(sent'[N].shape, N, todo', at')
  <2>1. N \in 1 .. N
    BY <1>7
  <2>2. /\ sent'[N].first = sent[N].first /\ sent'[N].last = LastSent + 1
        /\ sent'[N].shape = sent[N].shape
    BY <1>7, <2>1 DEF n
  <2>3. NumbersOf(sent', N) = Append(NumbersOf(sent, N), n) /\ NumbersOf(sent, N) \in Seq(Int)
    <3>1. sent[N].first \in Int /\ LastSent \in Int /\ sent[N].first - 1 <= LastSent
      BY <1>2, <1>13, <2>1
    <3>2. /\ Numbers(sent[N].first, LastSent + 1)
                = Append(Numbers(sent[N].first, LastSent), LastSent + 1)
          /\ Numbers(sent[N].first, LastSent) \in Seq(Int)
      BY <3>1, NumbersAre
    <3>3. QED BY <1>2, <2>2, <3>2 DEF NumbersOf, n, N
  <2>4. Joins(RunOf(D, Append(NumbersOf(sent, N), n)), RunOf(D, NumbersOf(sent, N)), D[n])
    BY <1>2, <1>10, <2>3, RunOfAppend
  <2>5. RunOf(D, NumbersOf(sent, N)) = SoFar(sent[N].shape, N, todo, at)
    BY <1>1, <1>9, <1>13, <2>1 DEF SentRight, N
  <2>6. Joins(SoFar(sent[N].shape, N, left, done), SoFar(sent[N].shape, N, todo, at), Carries(p))
    BY <1>6 DEF Brings, N
  <2>7. QED BY <1>3, <1>10, <2>2, <2>3, <2>4, <2>5, <2>6 DEF Joins
<1>17. SentRight(D)'
  BY <1>7, <1>8, <1>14, <1>15, <1>16 DEF SentRight
<1>18. Right(D)'
  BY <1>10, <1>11, <1>12, <1>17 DEF Right
<1>19. QED BY <1>18

\* Every step of the live half leaves a content that is right.
LEMMA LiveKeepsRight ==
    ASSUME LiveInv, Live, NEW C, Right(C)
    PROVE  \E D : Right(D)'
<1>1. CASE BeginPicture
  BY <1>1, BeginKeepsRight
<1>2. CASE SendAnnexB \/ SendNals \/ SendFragment
  <2>1. todo # <<>>
    BY <1>2, SendAdvances
  <2>2. PICK kind, start, nals, left, done :
                /\ Sends(kind, start, nals, left, done)
                /\ WellMade(kind, start, nals, left, done)
                /\ Brings(kind, start, nals, left, done)
    BY <1>2, SendAdvances
  <2>3. QED BY <2>1, <2>2, SendsKeepsRight
<1>3. CASE Lose
  BY <1>3, LoseKeepsRight
<1>4. CASE FeedRaw
  BY <1>4, FeedRawKeepsRight
<1>5. CASE FeedRtp
  BY <1>5, FeedRtpKeepsRight
<1>6. QED BY <1>1, <1>2, <1>3, <1>4, <1>5 DEF Live

----------------------------------------------------------------------------
(* Remainders *)

\* The remainder of a division is the only one in range.
LEMMA ModUnique ==
    ASSUME NEW N, N \in Nat \ {0}, NEW a, a \in Int, NEW q, q \in Int,
           NEW r, r \in 0 .. N - 1, a = N * q + r
    PROVE  a % N = r
<1> DEFINE p == a \div N
           m == a % N
<1>1. N \in Nat /\ N > 0
  OBVIOUS
<1>2. p \in Int /\ m \in Int /\ 0 <= m /\ m < N /\ a = N * p + m
  BY <1>1
<1>3. r \in Int /\ 0 <= r /\ r < N
  BY <1>1
<1> HIDE DEF p, m
<1>4. N * (q - p) = m - r
  <2>1. N * (q - p) = N * q - N * p
    BY <1>1, <1>2
  <2>2. N * q \in Int /\ N * p \in Int
    BY <1>1, <1>2
  <2>3. QED BY <2>1, <2>2, <1>2, <1>3
<1>5. CASE q - p >= 1
  <2>1. N * (q - p) >= N
    BY <1>1, <1>2, <1>5
  <2>2. QED BY <2>1, <1>1, <1>2, <1>3, <1>4
<1>6. CASE q - p <= -1
  <2>1. N * (q - p) <= -N
    BY <1>1, <1>2, <1>6
  <2>2. QED BY <2>1, <1>1, <1>2, <1>3, <1>4
<1>7. CASE q = p
  <2>1. N * (q - p) = 0
    BY <1>1, <1>2, <1>7
  <2>2. m = r
    BY <2>1, <1>2, <1>3, <1>4
  <2>3. QED BY <2>2 DEF m
<1>8. QED BY <1>2, <1>5, <1>6, <1>7

\* What % and \div are.
LEMMA ModRange ==
    ASSUME NEW N, N \in Nat \ {0}, NEW a, a \in Int
    PROVE  /\ a % N \in 0 .. N - 1 /\ a \div N \in Int /\ N * (a \div N) \in Int
           /\ a = N * (a \div N) + (a % N)
OBVIOUS

\* A number in range is its own remainder.
LEMMA ModSmall ==
    ASSUME NEW N, N \in Nat \ {0}, NEW a, a \in 0 .. N - 1
    PROVE  a % N = a
<1>1. a \in Int /\ 0 \in Int /\ a = N * 0 + a
  OBVIOUS
<1>2. QED BY <1>1, ModUnique

\* What leaves the same remainder does so with as much added to it.
LEMMA ModAdd ==
    ASSUME NEW N, N \in Nat \ {0}, NEW a, a \in Int, NEW b, b \in Int, NEW y, y \in Int,
           a % N = b % N
    PROVE  (a + y) % N = (b + y) % N
<1> DEFINE p == a \div N
           q == b \div N
           s == (b + y) \div N
           r == (b + y) % N
           m == a % N
<1>1. p \in Int /\ m \in Int /\ N * p \in Int /\ a = N * p + m
  BY ModRange
<1>2. q \in Int /\ N * q \in Int /\ b = N * q + m
  BY ModRange
<1>3. b + y \in Int /\ a + y \in Int
  OBVIOUS
<1>4. s \in Int /\ r \in 0 .. N - 1 /\ N * s \in Int /\ b + y = N * s + r
  BY <1>3, ModRange
<1> HIDE DEF p, q, s, m, r
<1>5. N * (s + p - q) = N * s + N * p - N * q /\ s + p - q \in Int
  BY <1>1, <1>2, <1>4
<1>6. r \in Int
  BY <1>4
<1>7. a + y = N * (s + p - q) + r
  BY <1>1, <1>2, <1>4, <1>5, <1>6
<1>8. (a + y) % N = r
  BY ONLY <1>3, <1>4, <1>5, <1>7, N \in Nat \ {0}, ModUnique
<1>9. QED BY <1>8 DEF r

\* A whole turn changes no remainder.
LEMMA ModPlus ==
    ASSUME NEW N, N \in Nat \ {0}, NEW a, a \in Int
    PROVE  (a + N) % N = a % N
<1> DEFINE q == a \div N
           r == a % N
<1>1. q \in Int /\ r \in 0 .. N - 1 /\ N * q \in Int /\ a = N * q + r
  BY ModRange
<1> HIDE DEF q, r
<1>2. N * (q + 1) = N * q + N /\ q + 1 \in Int /\ a + N \in Int /\ r \in Int
  BY <1>1
<1>3. a + N = N * (q + 1) + r
  BY <1>1, <1>2
<1>4. (a + N) % N = r
  BY ONLY <1>1, <1>2, <1>3, N \in Nat \ {0}, ModUnique
<1>5. QED BY <1>4 DEF r

\* A remainder is its own remainder.
LEMMA ModMod ==
    ASSUME NEW N, N \in Nat \ {0}, NEW a, a \in Int
    PROVE  (a % N) % N = a % N
BY ModRange, ModSmall

----------------------------------------------------------------------------
(* The end of an access unit *)

\* It is in the window, and not before it.
LEMMA UnitInWindow ==
    ASSUME NEW b, b \in Stream, b # <<>>, NEW h, NEW junk
    PROVE  au_end(b, h, junk) \in 1 .. Len(b)
<1> DEFINE Type(i)     == TypeAt(b, i, h, junk)
           codes       == {i \in 1 .. Len(b) - 1 : b[i] = start_code}
           seen(i)     == \E j \in codes : j < i /\ vcl(Type(j))
           starts      == {i \in codes \ {1} : starts_au(Type(i), seen(i), h)}
           least       == CHOOSE i \in starts : \A j \in starts : i <= j
<1>1. au_end(b, h, junk) = IF starts = {} THEN Len(b) ELSE least - 1
  BY DEF au_end
<1>2. Len(b) \in Nat \ {0}
  BY EmptySeq DEF Stream
<1>3. starts \subseteq 2 .. Len(b) - 1
  <2>1. codes \ {1} \subseteq 2 .. Len(b) - 1
    BY <1>2
  <2>2. starts \subseteq codes \ {1}
    <3> HIDE DEF codes, Type, seen
    <3>1. QED OBVIOUS
  <2>3. QED BY <2>1, <2>2
<1> HIDE DEF starts
<1>4. CASE starts = {}
  BY <1>1, <1>2, <1>4
<1>5. CASE starts # {}
  <2>1. starts \in SUBSET Nat
    BY <1>2, <1>3
  <2>2. \E i \in starts : \A j \in starts : i <= j
    BY <1>5, <2>1, Least
  <2>3. least \in starts
    BY <2>2
  <2>4. least \in 2 .. Len(b) - 1
    BY <1>3, <2>3
  <2> HIDE DEF least
  <2>5. QED BY <1>1, <1>2, <1>5, <2>4
<1>6. QED BY <1>4, <1>5

----------------------------------------------------------------------------
(* The window over the file *)

\* The symbol at this place of a tape that begins again behind its end.
Along(t, a) == t[(a % Len(t)) + 1]

\* Places that leave the same remainder are one place, and so are those the
\* same distance behind them.
Alike(n, c, d) ==
    \E a, b, y \in Int : a % n = b % n /\ c = a + y /\ d = b + y

\* They are one place.
LEMMA AlongSame ==
    ASSUME NEW t, t \in Stream, t # <<>>, NEW c, NEW d, Alike(Len(t), c, d)
    PROVE  Along(t, c) = Along(t, d)
<1>0. PICK a \in Int, b \in Int, y \in Int :
         a % Len(t) = b % Len(t) /\ c = a + y /\ d = b + y
  BY DEF Alike
<1>1. Len(t) \in Nat \ {0}
  BY EmptySeq DEF Stream
<1>2. (a + y) % Len(t) = (b + y) % Len(t)
  BY ONLY <1>0, <1>1, ModAdd
<1>3. c % Len(t) = d % Len(t)
  BY <1>0, <1>2
<1>4. QED BY <1>3 DEF Along

\* Up to its end, and once around.
LEMMA AlongOnce ==
    ASSUME NEW t, t \in Stream, t # <<>>, NEW a, a \in Int
    PROVE  /\ a \in 0 .. Len(t) - 1 => Along(t, a) = t[a + 1]
           /\ a \in Len(t) .. Len(t) + Len(t) - 1 => Along(t, a) = t[a - Len(t) + 1]
<1>1. Len(t) \in Nat \ {0}
  BY EmptySeq DEF Stream
<1>2. ASSUME a \in 0 .. Len(t) - 1 PROVE Along(t, a) = t[a + 1]
  <2>1. a % Len(t) = a
    BY <1>1, <1>2, ModSmall
  <2>2. QED BY <2>1 DEF Along
<1>3. ASSUME a \in Len(t) .. Len(t) + Len(t) - 1
      PROVE  Along(t, a) = t[a - Len(t) + 1]
  <2>1. a - Len(t) \in 0 .. Len(t) - 1 /\ a = Len(t) * 1 + (a - Len(t)) /\ 1 \in Int
    BY <1>1, <1>3
  <2>2. a % Len(t) = a - Len(t)
    BY ONLY <1>1, a \in Int, <2>1, ModUnique
  <2>3. QED BY <2>2 DEF Along
<1>4. QED BY <1>2, <1>3

\* The part p of a stream, from behind m up to n.
IsPart(p, s, m, n) ==
    p \in Stream /\ Len(p) = n - m /\ \A x \in 1 .. n - m : p[x] = s[m + x]

\* That is what SubSeq returns.
LEMMA PartOf ==
    ASSUME NEW s, s \in Stream, NEW m, m \in Nat, NEW n, n \in Nat, n <= Len(s), m <= n
    PROVE  IsPart(SubSeq(s, m + 1, n), s, m, n)
<1>1. s \in Seq(Symbol) /\ Len(s) \in Nat
  BY DEF Stream
<1>2. \A i \in m + 1 .. n : s[i] \in Symbol
  BY <1>1
<1>3. /\ SubSeq(s, m + 1, n) \in Seq(Symbol)
      /\ Len(SubSeq(s, m + 1, n)) = IF m + 1 <= n THEN n - (m + 1) + 1 ELSE 0
      /\ \A i \in 1 .. n - (m + 1) + 1 : SubSeq(s, m + 1, n)[i] = s[(m + 1) + i - 1]
  <2>1. m + 1 \in 1 .. Len(s) + 1 /\ n \in m + 1 - 1 .. Len(s)
    BY <1>1
  <2>2. QED BY <1>1, <2>1, SubSeqProperties
<1>4. ASSUME NEW x \in 1 .. n - m PROVE SubSeq(s, m + 1, n)[x] = s[m + x]
  <2>1. x \in 1 .. n - (m + 1) + 1 /\ (m + 1) + x - 1 = m + x
    BY ONLY n \in Nat, m \in Nat, x \in 1 .. n - m
  <2>2. QED BY <1>3, <2>1
<1>5. Len(SubSeq(s, m + 1, n)) = n - m
  BY <1>3
<1>6. QED BY <1>3, <1>4, <1>5 DEF Stream, IsPart

\* The file and how much of it is in the window.
OnTape ==
    /\ file \in Stream /\ file # <<>> /\ fd \in 0 .. Len(file)
    /\ win \in Stream /\ Len(win) <= fcap /\ fpos \in 0 .. Len(win)
    /\ next \in 0 .. Len(file) - 1

\* The symbols not yet fed are those of the file from next on, and the file is
\* read up to where they end.
Ahead ==
    /\ \A x \in 1 .. Len(win) - fpos : win[fpos + x] = Along(file, next + (x - 1))
    /\ (next + (Len(win) - fpos)) % Len(file) = fd % Len(file)

\* Played once, the file does not begin again.
Once ==
    ~loop => \/ next + (Len(win) - fpos) = fd
             \/ fd = Len(file) /\ next = 0 /\ Len(win) = fpos

\* The numbers in it are numbers.
LEMMA TapeSizes ==
    ASSUME OnTape
    PROVE  /\ Len(file) \in Nat \ {0} /\ Len(win) \in Nat /\ fd \in Nat /\ fd <= Len(file)
           /\ fpos \in Nat /\ fpos <= Len(win) /\ Len(win) <= fcap /\ fcap \in Nat \ {0}
           /\ next \in Nat /\ next < Len(file)
<1>1. file \in Seq(Symbol) /\ file # <<>> /\ win \in Seq(Symbol)
  BY DEF OnTape, Stream
<1>2. Len(file) \in Nat \ {0} /\ Len(win) \in Nat
  BY <1>1, EmptySeq
<1>3. QED BY <1>2, Sizes DEF OnTape

\* What the reads can find is the file from fd on, at most once around.
LEMMA SupplyIs ==
    ASSUME OnTape
    PROVE  /\ ToEnd \in Stream /\ Len(ToEnd) = Len(file) - fd
           /\ Supply \in Stream
           /\ Len(Supply) = Len(ToEnd) + (IF loop THEN Len(file) ELSE 0)
           /\ \A y \in 1 .. Len(Supply) : Supply[y] = Along(file, fd + (y - 1))
<1>1. /\ Len(file) \in Nat \ {0} /\ fd \in Nat /\ fd <= Len(file) /\ file \in Stream
      /\ file # <<>>
  BY TapeSizes DEF OnTape
<1>2. /\ ToEnd \in Stream /\ Len(ToEnd) = Len(file) - fd
      /\ \A x \in 1 .. Len(file) - fd : ToEnd[x] = file[fd + x]
  <2>1. Len(file) \in Nat /\ Len(file) <= Len(file)
    BY <1>1
  <2>2. IsPart(SubSeq(file, fd + 1, Len(file)), file, fd, Len(file))
    BY ONLY <1>1, <2>1, PartOf
  <2>3. QED BY <2>2 DEF IsPart, ToEnd
<1>3. ASSUME NEW y \in 1 .. Len(file) - fd PROVE ToEnd[y] = Along(file, fd + (y - 1))
  <2>1. fd + (y - 1) \in 0 .. Len(file) - 1 /\ fd + (y - 1) \in Int /\ fd + (y - 1) + 1 = fd + y
    BY <1>1
  <2>2. Along(file, fd + (y - 1)) = file[fd + (y - 1) + 1]
    BY <1>1, <2>1, AlongOnce
  <2>3. QED BY <1>2, <2>1, <2>2
<1>4. CASE ~loop
  <2>1. Supply = ToEnd
    BY <1>4 DEF Supply
  <2>2. QED BY <1>1, <1>2, <1>3, <1>4, <2>1
<1>5. CASE loop
  <2>1. Supply = ToEnd \o file
    BY <1>5 DEF Supply
  <2>2. /\ ToEnd \o file \in Stream /\ Len(ToEnd \o file) = Len(ToEnd) + Len(file)
        /\ \A i \in 1 .. Len(ToEnd) : (ToEnd \o file)[i] = ToEnd[i]
        /\ \A i \in 1 .. Len(file) : (ToEnd \o file)[Len(ToEnd) + i] = file[i]
    BY ONLY <1>1, <1>2, StreamConcat
  <2>3. ASSUME NEW y \in 1 .. Len(ToEnd) + Len(file)
        PROVE  (ToEnd \o file)[y] = Along(file, fd + (y - 1))
    <3>1. CASE y <= Len(ToEnd)
      <4>1. y \in 1 .. Len(ToEnd) /\ y \in 1 .. Len(file) - fd
        BY <1>1, <1>2, <3>1
      <4>2. QED BY <1>3, <2>2, <4>1
    <3>2. CASE y > Len(ToEnd)
      <4> DEFINE i == y - Len(ToEnd)
      <4>1. i \in 1 .. Len(file) /\ Len(ToEnd) + i = y
        BY <1>1, <1>2, <3>2
      <4>2. /\ fd + (y - 1) \in Len(file) .. Len(file) + Len(file) - 1
            /\ fd + (y - 1) \in Int /\ fd + (y - 1) - Len(file) + 1 = i
        BY <1>1, <1>2, <3>2
      <4>3. Along(file, fd + (y - 1)) = file[fd + (y - 1) - Len(file) + 1]
        BY <1>1, <4>2, AlongOnce
      <4> HIDE DEF i
      <4>4. (ToEnd \o file)[y] = file[i]
        BY <2>2, <4>1
      <4>5. QED BY <4>2, <4>3, <4>4
    <3>3. QED BY <1>1, <1>2, <3>1, <3>2
  <2>4. QED BY <1>2, <1>5, <2>1, <2>2, <2>3
<1>6. QED BY <1>4, <1>5

\* A read brings the file on, as far as it gets.
LEMMA ReadBrings ==
    ASSUME OnTape, Ahead, NEW got, Read(got)
    PROVE  /\ win' \in Stream /\ Len(win') = Len(win) - fpos + got /\ Len(win') <= fcap
           /\ got \in Nat /\ fd' \in 0 .. Len(file)
           /\ \A x \in 1 .. Len(win') : win'[x] = Along(file, next + (x - 1))
           /\ (next + Len(win')) % Len(file) = fd' % Len(file)
           /\ ~loop => got <= Len(file) - fd /\ fd' = fd + got
<1> DEFINE N == Len(file)
           rest == Len(win) - fpos
           more == SubSeq(Supply, 1, got)
<1>1. /\ N \in Nat \ {0} /\ fd \in Nat /\ fd <= N /\ file \in Stream
      /\ file # <<>> /\ fcap \in Nat /\ rest \in Nat /\ rest <= fcap /\ next \in Nat
      /\ win \in Stream /\ fpos \in Nat /\ Len(win) \in Nat /\ fpos <= Len(win)
      /\ Len(win) <= fcap
  BY TapeSizes DEF OnTape
<1>2. /\ Kept \in Stream /\ Len(Kept) = rest
      /\ \A x \in 1 .. rest : Kept[x] = Along(file, next + (x - 1))
  <2>1. IsPart(SubSeq(win, fpos + 1, Len(win)), win, fpos, Len(win))
    <3>1. Len(win) <= Len(win)
      BY <1>1
    <3>2. QED BY ONLY <1>1, <3>1, PartOf
  <2>2. /\ Kept \in Stream /\ Len(Kept) = rest
        /\ \A x \in 1 .. rest : Kept[x] = win[fpos + x]
    BY <2>1 DEF IsPart, Kept
  <2>3. QED BY <2>2 DEF Ahead
<1>3. /\ got \in Nat /\ got <= fcap - Len(Kept) /\ got <= Len(Supply)
      /\ win' = Kept \o more
      /\ fd' = IF got > Len(ToEnd) THEN got - Len(ToEnd) ELSE fd + got
  <2>1. /\ got \in 0 .. LesserOf(fcap - Len(Kept), Len(Supply)) /\ win' = Kept \o more
        /\ fd' = IF got > Len(ToEnd) THEN got - Len(ToEnd) ELSE fd + got
    BY DEF Read
  <2>2. fcap - Len(Kept) \in Nat /\ Len(Supply) \in Nat
    BY <1>1, <1>2, SupplyIs DEF Stream
  <2>3. /\ LesserOf(fcap - Len(Kept), Len(Supply)) <= fcap - Len(Kept)
        /\ LesserOf(fcap - Len(Kept), Len(Supply)) <= Len(Supply)
        /\ LesserOf(fcap - Len(Kept), Len(Supply)) \in Nat
    BY <2>2 DEF LesserOf
  <2>4. QED BY <2>1, <2>2, <2>3
<1>4. /\ more \in Stream /\ Len(more) = got
      /\ \A y \in 1 .. got : more[y] = Along(file, fd + (y - 1))
  <2>1. /\ Supply \in Stream
        /\ \A y \in 1 .. Len(Supply) : Supply[y] = Along(file, fd + (y - 1))
    BY SupplyIs
  <2>2. IsPart(SubSeq(Supply, 0 + 1, got), Supply, 0, got)
    <3>1. 0 \in Nat /\ 0 <= got
      BY <1>3
    <3>2. QED BY ONLY <1>3, <2>1, <3>1, PartOf
  <2>3. /\ more \in Stream /\ Len(more) = got - 0
        /\ \A y \in 1 .. got - 0 : more[y] = Supply[0 + y]
    <3>1. 0 + 1 = 1
      OBVIOUS
    <3>2. SubSeq(Supply, 0 + 1, got) = more
      BY ONLY <3>1 DEF more
    <3> HIDE DEF more
    <3>3. IsPart(more, Supply, 0, got)
      BY <2>2, <3>2
    <3>4. QED BY <3>3 DEF IsPart
  <2>4. \A y \in 1 .. got : y \in 1 .. Len(Supply) /\ more[y] = Supply[y]
    <3>1. Len(Supply) \in Nat
      BY <2>1 DEF Stream
    <3>2. QED BY <1>3, <2>3, <3>1
  <2>5. QED BY <1>3, <2>1, <2>3, <2>4
<1> HIDE DEF more
<1>5. /\ win' \in Stream /\ Len(win') = rest + got
      /\ \A i \in 1 .. rest : win'[i] = Kept[i]
      /\ \A i \in 1 .. got : win'[rest + i] = more[i]
  <2>1. /\ Kept \o more \in Stream /\ Len(Kept \o more) = Len(Kept) + Len(more)
        /\ \A i \in 1 .. Len(Kept) : (Kept \o more)[i] = Kept[i]
        /\ \A i \in 1 .. Len(more) : (Kept \o more)[Len(Kept) + i] = more[i]
    BY ONLY <1>2, <1>4, StreamConcat
  <2>2. QED BY <1>2, <1>3, <1>4, <2>1
<1>6. (next + rest) % N = fd % N
  BY DEF Ahead
<1> HIDE DEF N, rest
<1>7. ASSUME NEW x \in 1 .. rest + got
      PROVE  win'[x] = Along(file, next + (x - 1))
  <2>1. CASE x <= rest
    <3>1. x \in 1 .. rest
      BY <1>1, <1>3, <2>1
    <3>2. QED BY <1>2, <1>5, <3>1
  <2>2. CASE x > rest
    <3> DEFINE y == x - rest
    <3>1. y \in 1 .. got /\ rest + y = x /\ y - 1 \in Int
      BY <1>1, <1>3, <2>2
    <3>2. win'[x] = Along(file, fd + (y - 1))
      <4> HIDE DEF y
      <4>1. win'[rest + y] = more[y]
        BY <1>5, <3>1
      <4>2. more[y] = Along(file, fd + (y - 1))
        BY <1>4, <3>1
      <4>3. QED BY <3>1, <4>1, <4>2
    <3>3. Along(file, next + (x - 1)) = Along(file, fd + (y - 1))
      <4> DEFINE a == next + rest
                 z == y - 1
                 c == next + (x - 1)
                 d == fd + (y - 1)
      <4>1. /\ a \in Int /\ fd \in Int /\ a % Len(file) = fd % Len(file) /\ z \in Int
            /\ c = a + z /\ d = fd + z
        BY <1>1, <1>6, <3>1 DEF N
      <4> HIDE DEF y, z, c, d, a
      <4>2. Alike(Len(file), c, d)
        BY <4>1 DEF Alike
      <4>3. Along(file, c) = Along(file, d)
        BY ONLY <1>1, <4>2, AlongSame
      <4>4. QED BY <4>3 DEF c, d
    <3>4. QED BY <3>2, <3>3
  <2>3. x \in Int
    BY <1>1, <1>3
  <2>4. QED BY <1>1, <2>1, <2>2, <2>3
<1>8. (next + (rest + got)) % N = (fd + got) % N
  <2> DEFINE a == next + rest
  <2>1. a \in Int /\ fd \in Int /\ got \in Int /\ a % N = fd % N
    BY <1>1, <1>3, <1>6
  <2>2. a + got = next + (rest + got)
    BY <1>1, <1>3
  <2> HIDE DEF a
  <2>3. (a + got) % N = (fd + got) % N
    BY ONLY <1>1, <2>1, ModAdd
  <2>4. QED BY <2>2, <2>3
<1>9. /\ win' \in Stream /\ Len(win') = Len(win) - fpos + got /\ Len(win') <= fcap
       /\ got \in Nat /\ \A x \in 1 .. Len(win') : win'[x] = Along(file, next + (x - 1))
  <2>1. Len(win') <= fcap
    BY <1>1, <1>2, <1>3, <1>5
  <2>2. rest = Len(win) - fpos
    BY DEF rest
  <2>3. QED BY <1>3, <1>5, <1>7, <2>1, <2>2
<1>10. (next + Len(win')) % N = (fd + got) % N
  BY <1>5, <1>8
<1>11. Len(ToEnd) = N - fd /\ Len(Supply) = Len(ToEnd) + (IF loop THEN N ELSE 0)
  BY SupplyIs DEF N
<1>12. CASE got > Len(ToEnd)
  <2>1. fd' = fd + got - N /\ fd' \in 0 .. N /\ fd' \in Int /\ fd' + N = fd + got /\ loop
    BY <1>1, <1>3, <1>11, <1>12
  <2>2. (fd' + N) % N = fd' % N
    BY ONLY <1>1, <2>1, ModPlus
  <2>3. (next + Len(win')) % N = fd' % N
    BY <1>10, <2>1, <2>2
  <2>4. QED BY <1>9, <2>1, <2>3 DEF N
<1>13. CASE ~(got > Len(ToEnd))
  <2>1. fd' = fd + got /\ fd' \in 0 .. N /\ got <= N - fd
    BY <1>1, <1>3, <1>11, <1>13
  <2>2. (next + Len(win')) % N = fd' % N
    BY <1>10, <2>1
  <2>3. QED BY <1>9, <2>1, <2>2 DEF N
<1>14. QED BY <1>12, <1>13

----------------------------------------------------------------------------
(* The replay *)

Told == loop \in BOOLEAN /\ running \in BOOLEAN
Troubled == troubles \in 0 .. MaxTroubles /\ (~running => troubles > 0)

\* Before the replay there is nothing of it.
Fresh == file = <<>> /\ fd = 0 /\ win = <<>> /\ fpos = 0 /\ next = 0 /\ running

ReplayInv ==
    /\ phase \in {"live", "replay", "ended"} /\ Told /\ Troubled
    /\ phase = "live" => Fresh
    /\ phase # "live" => OnTape
    /\ phase = "replay" => Ahead /\ Once
    /\ ReplayIsContiguous /\ EndsWhenFed

\* It holds at first.
LEMMA InitReplay == Init => ReplayInv
<1> SUFFICES ASSUME Init PROVE ReplayInv
  OBVIOUS
<1>1. /\ phase = "live" /\ loop = FALSE /\ running = TRUE /\ file = <<>> /\ fd = 0
      /\ win = <<>> /\ fpos = 0 /\ next = 0 /\ troubles = 0
  BY DEF Init
<1>2. Told /\ Fresh
  BY <1>1 DEF Told, Fresh
<1>3. Troubled
  BY <1>1, Sizes DEF Troubled
<1>4. ReplayIsContiguous /\ EndsWhenFed
  BY <1>1 DEF ReplayIsContiguous, EndsWhenFed
<1>5. QED BY <1>1, <1>2, <1>3, <1>4 DEF ReplayInv

\* With the live half's, it implies the type invariant.
LEMMA ReplayTypes ==
    ASSUME LiveInv, ReplayInv
    PROVE  TypeOK
<1>1. LiveTypeOK
  BY LiveTypes
<1>2. phase \in {"live", "replay", "ended"} /\ troubles \in 0 .. MaxTroubles
  BY DEF ReplayInv, Troubled
<1>3. {loop, running} \subseteq BOOLEAN
  BY DEF ReplayInv, Told
<1>4. fd \in 0 .. Len(file) /\ Len(win) <= fcap /\ fpos \in 0 .. Len(win)
  <2>1. CASE phase = "live"
    <3>1. Fresh
      BY <2>1 DEF ReplayInv
    <3>2. Len(<<>>) = 0
      OBVIOUS
    <3>3. QED BY <3>1, <3>2, Sizes DEF Fresh
  <2>2. CASE phase # "live"
    BY <2>2 DEF ReplayInv, OnTape
  <2>3. QED BY <2>1, <2>2
<1>5. phase = "live" => file = <<>> /\ next = 0
  BY DEF ReplayInv, Fresh
<1>6. phase = "replay" => file # <<>> /\ next \in 0 .. Len(file) - 1
  BY DEF ReplayInv, OnTape
<1>7. QED BY ONLY <1>1, <1>2, <1>3, <1>4, <1>5, <1>6 DEF TypeOK

\* A step of the live half leaves all this alone.
LEMMA LiveKeepsReplay ==
    ASSUME ReplayInv, phase = "live", UNCHANGED replayVars
    PROVE  ReplayInv'
<1>1. /\ phase' = phase /\ loop' = loop /\ running' = running /\ file' = file /\ fd' = fd
      /\ win' = win /\ fpos' = fpos /\ next' = next /\ troubles' = troubles
  BY DEF replayVars
<1>2. phase' = "live"
  BY <1>1
<1>3. Told' /\ Fresh'
  BY <1>1 DEF ReplayInv, Told, Fresh
<1>4. Troubled'
  BY <1>1 DEF ReplayInv, Troubled
<1>5. ReplayIsContiguous' /\ EndsWhenFed'
  BY <1>2 DEF ReplayIsContiguous, EndsWhenFed
<1>6. QED BY <1>2, <1>3, <1>4, <1>5 DEF ReplayInv

\* The recording that is cut off is still a recording, and not empty.
LEMMA FileIs ==
    ASSUME recorded \in Seq(Stream), recorded # <<>>,
           NEW cut, cut \in StartOf(Len(recorded)) + 1 .. EndOf(Len(recorded))
    PROVE  SubSeq(FlattenSeq(recorded), 1, cut) \in Stream
           /\ SubSeq(FlattenSeq(recorded), 1, cut) # <<>>
<1> DEFINE m == Len(recorded)
           all == FlattenSeq(recorded)
           front == FlattenSeq(SubSeq(recorded, 1, m - 1))
<1>1. m \in Nat \ {0} /\ recorded[m] \in Stream
  BY EmptySeq
<1>2. SubSeq(recorded, 1, m) = recorded
  BY <1>1
<1>3. all = front \o recorded[m]
  <2>1. recorded \in Seq(Seq(Symbol)) /\ m \in 1 .. Len(recorded)
    BY <1>1 DEF Stream
  <2> HIDE DEF m
  <2>2. FlattenSeq(SubSeq(recorded, 1, m)) = front \o recorded[m]
    BY <2>1, FlattenNext
  <2>3. QED BY <1>2, <2>2
<1>4. front \in Stream /\ all \in Stream
  <2>1. SubSeq(recorded, 1, m - 1) \in Seq(Stream)
    BY <1>1
  <2>2. QED BY <2>1, StreamFlatten
<1>5. /\ Len(all) = Len(front) + Len(recorded[m]) /\ Len(front) \in Nat
      /\ Len(recorded[m]) \in Nat
  BY ONLY <1>1, <1>3, <1>4, StreamConcat
<1>6. StartOf(m) = Len(front) /\ EndOf(m) = Len(front) + Len(recorded[m])
  BY DEF StartOf, EndOf
<1> HIDE DEF all, front, m
<1>7. cut \in Len(front) + 1 .. Len(all)
  BY <1>5, <1>6 DEF m
<1>8. cut \in Nat /\ cut <= Len(all) /\ 0 <= cut /\ 0 \in Nat /\ cut > 0
  BY <1>5, <1>7
<1>9. IsPart(SubSeq(all, 0 + 1, cut), all, 0, cut)
  BY ONLY <1>4, <1>8, PartOf
<1>10. SubSeq(all, 0 + 1, cut) = SubSeq(all, 1, cut)
  <2>1. 0 + 1 = 1
    OBVIOUS
  <2>2. QED BY ONLY <2>1
<1>11. SubSeq(all, 1, cut) \in Stream /\ Len(SubSeq(all, 1, cut)) = cut - 0
  BY <1>9, <1>10 DEF IsPart
<1>12. SubSeq(all, 1, cut) # <<>>
  <2>1. cut - 0 # 0 /\ Len(<<>>) = 0
    BY <1>8
  <2>2. QED BY <1>11, <2>1
<1>13. QED BY <1>11, <1>12 DEF all

\* The replay begins at the beginning of the file.
LEMMA StartKeepsReplay ==
    ASSUME LiveInv, ReplayInv, StartReplay
    PROVE  ReplayInv'
<1>1. PICK cut \in StartOf(Len(recorded)) + 1 .. EndOf(Len(recorded)), again \in BOOLEAN :
        file' = SubSeq(FlattenSeq(recorded), 1, cut) /\ loop' = again
  BY DEF StartReplay
<1>2. /\ phase = "live" /\ phase' = "replay" /\ unit' = NoUnit /\ recorded # <<>>
      /\ running' = running /\ fd' = fd /\ win' = win /\ fpos' = fpos /\ next' = next
      /\ troubles' = troubles
  BY DEF StartReplay
<1>3. recorded \in Seq(Stream)
  BY DEF LiveInv, Receiving
<1>4. file' \in Stream /\ file' # <<>>
  BY <1>1, <1>2, <1>3, FileIs
<1>5. fd' = 0 /\ win' = <<>> /\ fpos' = 0 /\ next' = 0
  BY <1>2 DEF ReplayInv, Fresh
<1>6. Len(file') \in Nat \ {0}
  BY <1>4, EmptySeq DEF Stream
<1>7. Len(<<>>) = 0
  OBVIOUS
<1>8. OnTape'
  BY <1>4, <1>5, <1>6, <1>7, StreamEmpty, Sizes DEF OnTape
<1>9. Ahead'
  <2>1. \A x \in 1 .. Len(win') - fpos' : FALSE
    BY <1>5, <1>7
  <2>2. next' + (Len(win') - fpos') = fd'
    BY <1>5, <1>7
  <2>3. QED BY <2>1, <2>2 DEF Ahead
<1>10. Once'
  BY <1>5, <1>7 DEF Once
<1>11. Told'
  BY <1>1, <1>2 DEF ReplayInv, Told
<1>12. Troubled'
  BY <1>2 DEF ReplayInv, Troubled
<1>13. ReplayIsContiguous' /\ EndsWhenFed'
  BY <1>2 DEF ReplayIsContiguous, EndsWhenFed
<1>14. QED BY <1>2, <1>8, <1>9, <1>10, <1>11, <1>12, <1>13 DEF ReplayInv

\* The players begin as they did.
LEMMA StartKeepsTypes ==
    ASSUME LiveInv, StartReplay
    PROVE  LiveInv'
<1>1. /\ annexb' = FALSE /\ sent' = <<>> /\ todo' = <<>> /\ at' = 0 /\ net' = {}
      /\ detected' = FALSE /\ raw' = FALSE
      /\ have_seq' = FALSE /\ last_seq' = 0
      /\ frame' = <<>> /\ lost_packets' = 0
      /\ gaps' = 0 /\ arrived' = <<>> /\ latest' = 0
      /\ recorded' = <<>> /\ is_h265' = is_h265
  BY DEF StartReplay
<1>2. Booleans'
  BY <1>1 DEF LiveInv, Booleans
<1>3. Sending'
  BY <1>1 DEF Sending
<1>4. InFlight'
  <2>1. IsFiniteSet(net') /\ Cardinality(net') = 0
    BY <1>1, FS_EmptySet
  <2>2. QED BY <1>1, <2>1, Sizes DEF InFlight
<1>5. Receiving'
  BY <1>1, StreamEmpty, Sizes DEF Receiving
<1>6. Counts'
  BY <1>1, Sizes DEF Counts
<1>7. QED BY <1>2, <1>3, <1>4, <1>5, <1>6 DEF LiveInv

\* What a read leaves of the two flags and the count.
LEMMA ReadKeepsCount ==
    ASSUME Told, Troubled, running, NEW got, Read(got)
    PROVE  running' \in BOOLEAN /\ Troubled'
<1>1. CASE running' = running /\ troubles' = troubles
  BY <1>1 DEF Told, Troubled
<1>2. CASE Trouble /\ running' \in BOOLEAN
  <2>1. troubles' = troubles + 1 /\ troubles < MaxTroubles /\ troubles \in Nat
    BY <1>2, Sizes DEF Trouble, Troubled
  <2>2. QED BY <1>2, <2>1, Sizes DEF Troubled
<1>3. QED BY <1>1, <1>2 DEF Read

\* A unit is the next piece of the file.
LEMMA FeedKeepsReplay ==
    ASSUME LiveInv, ReplayInv, FeedUnit
    PROVE  ReplayInv'
<1>1. phase = "replay" /\ running /\ OnTape /\ Ahead /\ Once /\ Told /\ Troubled
  BY DEF FeedUnit, ReplayInv
<1>2. PICK got \in 0 .. fcap : Read(got)
  BY DEF FeedUnit
<1>3. PICK junk \in NalTypes :
        /\ unit' = [data |-> SubSeq(win', 1, au_end(win', is_h265, junk)), from |-> <<next>>]
        /\ fpos' = au_end(win', is_h265, junk)
        /\ next' = (next + au_end(win', is_h265, junk)) % Len(file)
  BY DEF FeedUnit
<1>4. win' # <<>> /\ phase' = phase /\ loop' = loop /\ file' = file
  BY DEF FeedUnit
<1>5. /\ win' \in Stream /\ Len(win') = Len(win) - fpos + got /\ Len(win') <= fcap
      /\ got \in Nat /\ fd' \in 0 .. Len(file)
      /\ \A x \in 1 .. Len(win') : win'[x] = Along(file, next + (x - 1))
      /\ (next + Len(win')) % Len(file) = fd' % Len(file)
      /\ ~loop => got <= Len(file) - fd /\ fd' = fd + got
  BY ONLY <1>1, <1>2, ReadBrings
<1>6. /\ Len(file) \in Nat \ {0} /\ next \in Nat /\ next < Len(file) /\ file \in Stream
      /\ file # <<>> /\ fd \in Nat /\ fd <= Len(file) /\ fpos \in Nat /\ Len(win) \in Nat
  BY <1>1, TapeSizes DEF OnTape
<1> DEFINE au == au_end(win', is_h265, junk)
           N  == Len(file)
           W  == Len(win')
           sum == next + au
<1>7. au \in 1 .. W
  BY ONLY <1>4, <1>5, UnitInWindow
<1>8. unit' = [data |-> SubSeq(win', 1, au), from |-> <<next>>] /\ fpos' = au /\ next' = sum % N
  BY <1>3
<1> HIDE DEF au, N, W, sum
<1>9. W \in Nat /\ au \in Nat /\ 1 <= au /\ au <= W /\ N \in Nat \ {0} /\ sum \in Nat
  <2>1. W \in Nat
    BY <1>5 DEF W, Stream
  <2>2. QED BY <1>6, <1>7, <2>1 DEF N, sum
<1>10. next' \in 0 .. N - 1 /\ next' \in Int /\ next' % N = sum % N
  <2>1. sum % N \in 0 .. N - 1 /\ (sum % N) % N = sum % N
    BY <1>9, ModRange, ModMod
  <2>2. QED BY <1>8, <1>9, <2>1
<1>11. OnTape'
  BY <1>4, <1>5, <1>6, <1>7, <1>8, <1>10 DEF OnTape, N, W
<1>12. Ahead'
  <2>1. ASSUME NEW x \in 1 .. W - au
        PROVE  win'[au + x] = Along(file, next' + (x - 1))
    <3> DEFINE c == next + ((au + x) - 1)
               d == next' + (x - 1)
               y == x - 1
    <3>1. au + x \in 1 .. W /\ x \in Int
      BY <1>9
    <3>2. win'[au + x] = Along(file, c)
      BY <1>5, <3>1 DEF W
    <3>3. y \in Int /\ c = sum + y /\ d = next' + y
      BY <1>6, <1>9, <1>10, <3>1 DEF sum
    <3> HIDE DEF c, d, y
    <3>4. Alike(Len(file), c, d)
      <4>1. sum % Len(file) = next' % Len(file)
        BY <1>9, <1>10 DEF N
      <4>2. sum \in Int /\ next' \in Int /\ y \in Int
        BY <1>9, <1>10, <3>3
      <4> SUFFICES \E a, b, z \in Int : a % Len(file) = b % Len(file) /\ c = a + z /\ d = b + z
        BY DEF Alike
      <4>3. \E z \in Int : sum % Len(file) = next' % Len(file) /\ c = sum + z /\ d = next' + z
        BY <3>3, <4>1, <4>2
      <4>4. \E b, z \in Int : sum % Len(file) = b % Len(file) /\ c = sum + z /\ d = b + z
        BY ONLY <4>2, <4>3
      <4>5. QED BY ONLY <4>2, <4>4
    <3>5. Along(file, c) = Along(file, d)
      BY ONLY <1>6, <3>4, AlongSame
    <3>6. QED BY <3>2, <3>5 DEF d
  <2>2. (next' + (W - au)) % N = fd' % N
    <3> DEFINE y == W - au
               a == next'
    <3>1. y \in Int /\ sum + y = next + W /\ a \in Int /\ a % N = sum % N /\ sum \in Int
      BY <1>6, <1>9, <1>10 DEF sum
    <3> HIDE DEF y, a
    <3>2. (a + y) % N = (sum + y) % N
      BY ONLY <1>9, <3>1, ModAdd, ZenonT(30)
    <3>3. (a + y) % N = fd' % N
      BY <1>5, <3>1, <3>2 DEF N, W
    <3>4. QED BY <3>3 DEF a, y
  <2>3. fpos' = au /\ Len(win') = W /\ file' = file
    BY <1>4, <1>8 DEF W
  <2>4. Len(file') = N
    BY <1>4 DEF N
  <2>5. \A x \in 1 .. Len(win') - fpos' : win'[fpos' + x] = Along(file', next' + (x - 1))
    BY <2>1, <2>3
  <2>6. (next' + (Len(win') - fpos')) % Len(file') = fd' % Len(file')
    BY <2>2, <2>3, <2>4
  <2>7. QED BY <2>5, <2>6 DEF Ahead
<1>13. Once'
  <2> SUFFICES ASSUME ~loop
               PROVE  \/ next' + (W - au) = fd'
                      \/ fd' = N /\ next' = 0 /\ W = au
    BY <1>4, <1>8 DEF Once, W, N
  <2>1. got <= N - fd /\ fd' = fd + got /\ W = Len(win) - fpos + got
    BY <1>5 DEF N, W
  <2>2. next + (Len(win) - fpos) = fd
    <3>1. CASE fd = Len(file) /\ next = 0 /\ Len(win) = fpos
      <4>1. W = 0
        BY <1>5, <1>6, <2>1, <3>1 DEF N
      <4>2. QED BY <1>9, <4>1
    <3>2. QED BY <1>1, <3>1 DEF Once
  <2>3. next + W = fd' /\ fd' <= N
    <3>1. fd' \in 0 .. N /\ got \in Nat /\ next + (Len(win) - fpos) + got = next + W
      BY <1>5, <1>6, <2>1 DEF N
    <3>2. QED BY ONLY <2>1, <2>2, <3>1, <1>6, <1>9
  <2>4. CASE sum < N
    <3>1. sum \in 0 .. N - 1
      BY <1>9, <2>4
    <3>2. next' = sum
      BY <1>8, <1>9, <3>1, ModSmall
    <3>3. QED BY <1>6, <1>9, <2>3, <3>2 DEF sum
  <2>5. CASE ~(sum < N)
    <3>1. sum = N /\ W = au /\ fd' = N
      BY <1>6, <1>9, <2>3, <2>5 DEF sum
    <3>2. sum % N = 0
      <4>1. sum = N * 1 + 0 /\ 0 \in 0 .. N - 1 /\ 1 \in Int /\ sum \in Int
        BY <1>9, <3>1
      <4>2. QED BY ONLY <1>9, <4>1, ModUnique
    <3>3. QED BY <1>8, <3>1, <3>2
  <2>6. QED BY <2>4, <2>5
<1>14. ReplayIsContiguous'
  <2>1. IsPart(SubSeq(win', 0 + 1, au), win', 0, au)
    <3>1. 0 \in Nat /\ 0 <= au /\ au <= Len(win')
      BY <1>9 DEF W
    <3>2. QED BY ONLY <1>5, <1>9, <3>1, PartOf
  <2>2. SubSeq(win', 0 + 1, au) = SubSeq(win', 1, au)
    <3>1. 0 + 1 = 1
      OBVIOUS
    <3>2. QED BY ONLY <3>1
  <2> DEFINE piece == SubSeq(win', 1, au)
  <2>3. piece \in Stream /\ Len(piece) = au - 0 /\ \A x \in 1 .. au - 0 : piece[x] = win'[0 + x]
    BY <2>1, <2>2 DEF IsPart
  <2>4. unit'.data = piece /\ unit'.from[1] = next
    BY <1>8
  <2> HIDE DEF piece
  <2>5. DOMAIN piece = 1 .. au
    BY <1>9, <2>3 DEF Stream
  <2>6. ASSUME NEW x \in 1 .. au
        PROVE  piece[x] = file[((next + x - 1) % Len(file)) + 1]
    <3>1. x \in 1 .. au - 0 /\ 0 + x = x /\ x \in 1 .. W /\ next + (x - 1) = next + x - 1
      BY <1>6, <1>9
    <3>2. piece[x] = win'[x]
      BY <2>3, <3>1
    <3>3. win'[x] = Along(file, next + (x - 1))
      BY <1>5, <3>1 DEF W
    <3>4. QED BY <3>1, <3>2, <3>3 DEF Along
  <2>7. \A x \in DOMAIN unit'.data :
           unit'.data[x] = file'[((unit'.from[1] + x - 1) % Len(file')) + 1]
    BY <1>4, <2>4, <2>5, <2>6
  <2>8. QED BY <2>7 DEF ReplayIsContiguous
<1>15. phase' = "replay"
  BY <1>1, <1>4
<1>16. EndsWhenFed'
  BY <1>15 DEF EndsWhenFed
<1>17. Told' /\ Troubled'
  <2>1. running' \in BOOLEAN /\ Troubled'
    BY <1>1, <1>2, ReadKeepsCount
  <2>2. QED BY <1>1, <1>4, <2>1 DEF Told
<1>18. QED BY <1>11, <1>12, <1>13, <1>14, <1>15, <1>16, <1>17 DEF ReplayInv

\* Nothing is left only at the end of a file played once, or after trouble.
LEMMA NothingKeepsReplay ==
    ASSUME LiveInv, ReplayInv, NothingToFeed
    PROVE  ReplayInv'
<1>1. phase = "replay" /\ running /\ OnTape /\ Ahead /\ Once /\ Told /\ Troubled
  BY DEF NothingToFeed, ReplayInv
<1>2. PICK got \in 0 .. fcap : Read(got)
  BY DEF NothingToFeed
<1>3. /\ win' = <<>> /\ phase' = "ended" /\ fpos' = 0 /\ unit' = NoUnit
      /\ loop' = loop /\ file' = file /\ next' = next
  BY DEF NothingToFeed, Ends
<1>4. /\ Len(win') = Len(win) - fpos + got /\ got \in Nat /\ fd' \in 0 .. Len(file)
      /\ ~loop => got <= Len(file) - fd /\ fd' = fd + got
  BY ONLY <1>1, <1>2, ReadBrings
<1>5. /\ Len(file) \in Nat \ {0} /\ next \in Nat /\ next < Len(file) /\ file \in Stream
      /\ file # <<>> /\ fd \in Nat /\ fd <= Len(file) /\ fpos \in Nat /\ Len(win) \in Nat
      /\ fpos <= Len(win) /\ fcap \in Nat \ {0}
  BY <1>1, TapeSizes DEF OnTape
<1>6. Len(win') = 0
  BY <1>3
<1>7. got = 0 /\ Len(win) = fpos
  BY <1>4, <1>5, <1>6
<1>8. OnTape'
  <2>1. next' \in 0 .. Len(file') - 1
    BY <1>3, <1>5
  <2>2. QED BY <1>3, <1>4, <1>5, <1>6, <2>1, StreamEmpty DEF OnTape
<1>9. EndsWhenFed'
  <2> SUFFICES ASSUME troubles' = 0 PROVE ~loop /\ next = 0 /\ fd' = Len(file)
    BY <1>3 DEF EndsWhenFed
  <2>1. got = LesserOf(fcap - Len(Kept), Len(Supply))
    <3>1. ~Trouble
      BY <1>1, Sizes DEF Trouble, Troubled
    <3>2. QED BY <1>2, <3>1 DEF Read
  <2>2. Len(Kept) = 0
    <3>1. IsPart(SubSeq(win, fpos + 1, Len(win)), win, fpos, Len(win))
      <4>1. win \in Stream /\ Len(win) <= Len(win)
        BY <1>1, <1>5 DEF OnTape
      <4>2. QED BY ONLY <1>5, <4>1, PartOf
    <3>2. Len(Kept) = Len(win) - fpos
      BY <3>1 DEF IsPart, Kept
    <3>3. QED BY <1>5, <1>7, <3>2
  <2>3. /\ Len(ToEnd) = Len(file) - fd
        /\ Len(Supply) = Len(ToEnd) + (IF loop THEN Len(file) ELSE 0)
    BY <1>1, SupplyIs
  <2>4. Len(Supply) = 0
    <3>1. Len(Supply) \in Nat
      BY <1>5, <2>3
    <3>2. QED BY <1>5, <1>7, <2>1, <2>2, <3>1 DEF LesserOf
  <2>5. ~loop /\ fd = Len(file)
    BY <1>5, <2>3, <2>4
  <2>6. next = 0
    BY <1>1, <1>5, <1>7, <2>5 DEF Once
  <2>7. QED BY <1>4, <1>5, <1>7, <2>5, <2>6
<1>10. ReplayIsContiguous'
  BY <1>3 DEF ReplayIsContiguous
<1>11. Told' /\ Troubled'
  <2>1. running' \in BOOLEAN /\ Troubled'
    BY <1>1, <1>2, ReadKeepsCount
  <2>2. QED BY <1>1, <1>3, <2>1 DEF Told
<1>12. QED BY <1>3, <1>8, <1>9, <1>10, <1>11 DEF ReplayInv

\* A signal costs nothing but the rest of the replay.
LEMMA SignalKeepsReplay ==
    ASSUME LiveInv, ReplayInv, Signal
    PROVE  ReplayInv' /\ LiveInv'
<1>1. /\ phase = "replay" /\ phase' = phase /\ running' = FALSE /\ Trouble /\ loop' = loop
      /\ file' = file /\ fd' = fd /\ win' = win /\ fpos' = fpos /\ next' = next
  BY DEF Signal
<1>2. UNCHANGED liveVars
  BY DEF Signal
<1>3. OnTape' /\ Ahead' /\ Once'
  BY <1>1 DEF ReplayInv, OnTape, Ahead, Once
<1>4. Told'
  BY <1>1 DEF ReplayInv, Told
<1>5. Troubled'
  <2>1. troubles \in Nat /\ troubles' = troubles + 1 /\ troubles < MaxTroubles
    BY <1>1, Sizes DEF ReplayInv, Troubled, Trouble
  <2>2. QED BY <2>1, Sizes DEF Troubled
<1>6. unit' = unit
  BY <1>2 DEF liveVars
<1>7. ReplayIsContiguous'
  BY <1>1, <1>6 DEF ReplayInv, ReplayIsContiguous
<1>8. EndsWhenFed'
  BY <1>1 DEF EndsWhenFed
<1>9. LiveInv'
  BY <1>2, LiveUnchanged DEF liveVars
<1>10. QED BY <1>1, <1>3, <1>4, <1>5, <1>7, <1>8, <1>9 DEF ReplayInv

\* A replay that was stopped has met with trouble.
LEMMA EndKeepsReplay ==
    ASSUME ReplayInv, LoopEnds
    PROVE  ReplayInv'
<1>1. /\ phase = "replay" /\ ~running /\ win' = <<>> /\ phase' = "ended" /\ fpos' = 0
      /\ unit' = NoUnit /\ loop' = loop /\ running' = running /\ file' = file /\ fd' = fd
      /\ next' = next /\ troubles' = troubles
  BY DEF LoopEnds, Ends
<1>2. OnTape /\ Troubled /\ Told
  BY <1>1 DEF ReplayInv
<1>3. Len(<<>>) = 0
  OBVIOUS
<1>4. OnTape'
  BY <1>1, <1>2, <1>3, StreamEmpty, Sizes DEF OnTape
<1>5. Told' /\ Troubled'
  BY <1>1, <1>2 DEF Told, Troubled
<1>6. ReplayIsContiguous'
  BY <1>1 DEF ReplayIsContiguous
<1>7. troubles' # 0
  BY <1>1, <1>2, Sizes DEF Troubled
<1>8. EndsWhenFed'
  BY <1>7 DEF EndsWhenFed
<1>9. QED BY <1>1, <1>4, <1>5, <1>6, <1>8 DEF ReplayInv

----------------------------------------------------------------------------
(* The theorems *)

VideoInv == LiveInv /\ PicturesInv /\ ReplayInv

\* Every step keeps all three.
LEMMA NextKeeps == VideoInv /\ [Next]_vars => VideoInv'
<1> SUFFICES ASSUME VideoInv, [Next]_vars PROVE VideoInv'
  OBVIOUS
<1>0. LiveInv /\ PicturesInv /\ ReplayInv
  BY DEF VideoInv
<1>1. CASE LiveStep
  <2>1. phase = "live" /\ Live /\ UNCHANGED replayVars
    BY <1>1 DEF LiveStep
  <2>2. LiveInv'
    BY <1>0, <2>1, LiveKeepsTypes
  <2>3. ReplayInv'
    BY <1>0, <2>1, LiveKeepsReplay
  <2>4. PICK C : Right(C)
    BY <1>0, <2>1 DEF PicturesInv
  <2>5. \E D : Right(D)'
    BY <1>0, <2>1, <2>4, LiveKeepsRight
  <2>6. PicturesInv'
    BY <2>5 DEF PicturesInv
  <2>7. QED BY <2>2, <2>3, <2>6 DEF VideoInv
<1>2. CASE StartReplay
  <2>1. phase' = "replay"
    BY <1>2 DEF StartReplay
  <2>2. PicturesInv'
    BY <2>1 DEF PicturesInv
  <2>3. LiveInv' /\ ReplayInv'
    BY <1>0, <1>2, StartKeepsTypes, StartKeepsReplay
  <2>4. QED BY <2>2, <2>3 DEF VideoInv
<1>3. CASE Replay
  <2>1. phase' # "live"
    <3>1. CASE FeedUnit
      BY <3>1 DEF FeedUnit
    <3>2. CASE NothingToFeed
      BY <3>2 DEF NothingToFeed, Ends
    <3>3. CASE LoopEnds
      BY <3>3 DEF LoopEnds, Ends
    <3>4. QED BY <1>3, <3>1, <3>2, <3>3 DEF Replay
  <2>2. PicturesInv'
    BY <2>1 DEF PicturesInv
  <2>3. UNCHANGED <<senderVars, net, playerVars, history, recorded>>
    BY <1>3 DEF Replay, FeedUnit, NothingToFeed, LoopEnds
  <2>4. LiveInv'
    BY <1>0, <2>3, LiveUnchanged
  <2>5. ReplayInv'
    BY <1>0, <1>3, FeedKeepsReplay, NothingKeepsReplay, EndKeepsReplay DEF Replay
  <2>6. QED BY <2>2, <2>4, <2>5 DEF VideoInv
<1>4. CASE Signal
  <2>1. LiveInv' /\ ReplayInv'
    BY <1>0, <1>4, SignalKeepsReplay
  <2>2. phase' # "live"
    BY <1>4 DEF Signal
  <2>3. PicturesInv'
    BY <2>2 DEF PicturesInv
  <2>4. QED BY <2>1, <2>3 DEF VideoInv
<1>5. CASE UNCHANGED vars
  <2>1. UNCHANGED liveVars /\ UNCHANGED replayVars
    BY <1>5 DEF vars
  <2>2. LiveInv'
    BY <1>0, <2>1, LiveUnchanged DEF liveVars
  <2>3. phase' = phase /\ unit' = unit
    BY <2>1 DEF liveVars, replayVars
  <2>4. ReplayInv'
    <3>1. /\ loop' = loop /\ running' = running /\ file' = file /\ fd' = fd
          /\ win' = win /\ fpos' = fpos /\ next' = next /\ troubles' = troubles
      BY <2>1 DEF replayVars
    <3>2. QED BY <1>0, <2>3, <3>1 DEF ReplayInv, Told, Troubled, Fresh, OnTape, Ahead, Once,
                                       ReplayIsContiguous, EndsWhenFed
  <2>5. PicturesInv'
    <3>1. CASE phase = "live"
      <4>1. PICK C : Right(C)
        BY <1>0, <3>1 DEF PicturesInv
      <4>2. Right(C)'
        <5>1. /\ sent' = sent /\ todo' = todo /\ at' = at /\ net' = net /\ frame' = frame
              /\ arrived' = arrived /\ unit' = unit
          BY <2>1 DEF liveVars, senderVars, playerVars, history
        <5>2. LastSent' = LastSent
          BY <5>1 DEF LastSent
        <5>3. QED BY <4>1, <5>1, <5>2 DEF Right, CarriedRight, SentRight, FedRight
      <4>3. QED BY <4>2 DEF PicturesInv
    <3>2. CASE phase # "live"
      BY <2>3, <3>2 DEF PicturesInv
    <3>3. QED BY <3>1, <3>2
  <2>6. QED BY <2>2, <2>4, <2>5 DEF VideoInv
<1>6. QED BY <1>1, <1>2, <1>3, <1>4, <1>5 DEF Next

\* The inductive invariant: the types of the live half with what is in flight and
\* what is left to send, the contents every unit agrees with, and the window's
\* place in the file (mi-player.c: rtp_feed, the file loop of main).
THEOREM VideoInvariant == Spec => []VideoInv
<1>1. Init => VideoInv
  BY InitLive, InitRight, InitReplay DEF VideoInv
<1>2. QED BY <1>1, NextKeeps, PTL DEF Spec

\* The variables keep their types: no unit is longer than frame_cap, the window
\* never holds more than fcap and nothing is read behind the end of the file.
THEOREM VideoTypes == Spec => []TypeOK
<1>1. VideoInv => TypeOK
  BY ReplayTypes DEF VideoInv
<1>2. QED BY <1>1, VideoInvariant, PTL

\* All of a picture begun is what the numbers given to its packets carry, once
\* none of it is left to send.
LEMMA PictureRun ==
    ASSUME LiveInv, NEW C, SentRight(C), NEW k, k \in 1 .. Len(sent),
           ~(k = Len(sent) /\ todo # <<>>)
    PROVE  RunOf(C, NumbersOf(sent, k)) = Picture(k)
<1>1. Len(sent) \in Nat /\ sent[k].shape \in Seq(Nals) /\ k \in Nat
  BY LastSentType
<1>2. /\ Picture(k) = Opening(sent[k].shape, k, Len(sent[k].shape))
      /\ Picture(k) = SoFar(sent[k].shape, k, <<>>, 0)
  BY <1>1, PictureIs
<1>3. CASE k = Len(sent)
  <2>1. todo = <<>> /\ at = 0
    BY <1>3 DEF LiveInv, Sending
  <2>2. sent # <<>>
    BY <1>1, <1>3
  <2>3. QED BY <1>2, <1>3, <2>1, <2>2 DEF SentRight
<1>4. CASE k # Len(sent)
  <2>1. k \in 1 .. Len(sent) - 1
    BY <1>1, <1>4
  <2>2. QED BY <1>2, <2>1 DEF SentRight, PictureOf
<1>5. QED BY <1>3, <1>4

\* A unit made of exactly the packets of one picture, in their order, is that
\* picture, whatever was lost, reordered or cut off before it and whatever the
\* packets are: Annex-B, single, aggregated or fragmented (rtp_feed).
THEOREM IntactPicturesAreFed == Spec => []IntactPictureIsFed
<1>1. ASSUME VideoInv, phase = "live" PROVE IntactIsFed
  <2>1. PICK C : Right(C)
    BY <1>1 DEF VideoInv, PicturesInv
  <2>2. LiveInv /\ SentRight(C) /\ Holds(C, unit.from, unit.data, LastSent)
    BY <1>1, <2>1 DEF VideoInv, Right, FedRight
  <2>3. ASSUME NEW k \in DOMAIN sent,
               unit.from = [x \in 1 .. sent[k].last - sent[k].first + 1
                              |-> sent[k].first + x - 1],
               ~(k = k_now /\ todo # <<>>), Len(Picture(k)) <= frame_cap
        PROVE  unit.data = Picture(k)
    <3>1. k \in 1 .. Len(sent)
      BY <2>2 DEF LiveInv, Sending
    <3>2. RunOf(C, NumbersOf(sent, k)) = Picture(k)
      BY <2>2, <2>3, <3>1, PictureRun DEF k_now
    <3>3. unit.from = NumbersOf(sent, k)
      BY <2>3 DEF NumbersOf, Numbers
    <3>4. QED BY <2>2, <2>3, <3>2, <3>3 DEF Holds
  <2>4. QED BY <2>3 DEF IntactIsFed
<1>2. VideoInv => IntactPictureIsFed
  BY <1>1 DEF IntactPictureIsFed
<1>3. QED BY <1>2, VideoInvariant, PTL

\* The replay feeds the file piece behind piece, over its end and again with
\* -loop, whatever the reads return (memmove, ffill and the rewinding).
THEOREM ReplaysAreContiguous == Spec => []ReplayIsContiguous
<1>1. VideoInv => ReplayIsContiguous
  BY DEF VideoInv, ReplayInv
<1>2. QED BY <1>1, VideoInvariant, PTL

\* A replay nobody disturbs ends only when the whole file has been fed once and
\* is not to be repeated.
THEOREM ReplaysEndWhenFed == Spec => []EndsWhenFed
<1>1. VideoInv => EndsWhenFed
  BY DEF VideoInv, ReplayInv
<1>2. QED BY <1>1, VideoInvariant, PTL

----------------------------------------------------------------------------
(* The count of what was lost *)

\* Two numbers less than N apart leave the same remainder only if they are one.
LEMMA ModClose ==
    ASSUME NEW N, N \in Nat \ {0}, NEW a, a \in Int, NEW b, b \in Int,
           a % N = b % N, a - b < N, b - a < N
    PROVE  a = b
<1> DEFINE p == a \div N
           q == b \div N
           m == a % N
<1>1. p \in Int /\ N * p \in Int /\ m \in Int /\ a = N * p + m
  BY ModRange
<1>2. q \in Int /\ N * q \in Int /\ b = N * q + m
  BY ModRange
<1>3. N \in Nat /\ N > 0
  OBVIOUS
<1> HIDE DEF p, q, m
<1>4. N * (p - q) = a - b
  <2>1. N * (p - q) = N * p - N * q
    BY <1>1, <1>2, <1>3
  <2>2. QED BY <2>1, <1>1, <1>2
<1>5. CASE p - q >= 1
  <2>1. N * (p - q) >= N
    BY <1>1, <1>2, <1>3, <1>5
  <2>2. QED BY <2>1, <1>3, <1>4
<1>6. CASE p - q <= -1
  <2>1. N * (p - q) <= -N
    BY <1>1, <1>2, <1>3, <1>6
  <2>2. QED BY <2>1, <1>3, <1>4
<1>7. CASE p = q
  BY <1>1, <1>2, <1>7
<1>8. QED BY <1>1, <1>2, <1>5, <1>6, <1>7

\* The packet that arrives is less than a whole turn of the sequence number from
\* the one that should.
WithinReach ==
    \A p \in net : have_seq => p.n - (latest + 1) < SeqSpace /\ (latest + 1) - p.n < SeqSpace

\* The player remembers the number of the packet before as far as it travels.
GapInv == lost_packets = gaps /\ (have_seq => last_seq = latest % SeqSpace)

\* Then it sees a gap exactly where there is one.
LEMMA GapIsSeen ==
    ASSUME LiveInv, GapInv, WithinReach, have_seq, NEW p \in net
    PROVE  IsGap(p) <=> p.n # latest + 1
<1> DEFINE m == latest % SeqSpace
           d == latest + 1
           e == (latest % SeqSpace) + 1
<1>1. SeqSpace \in Nat \ {0} /\ latest \in Int /\ p.n \in Int
  BY Sizes DEF LiveInv, Counts, InFlight, PacketOK
<1>2. m \in Int /\ m % SeqSpace = latest % SeqSpace
  BY <1>1, ModMod, ModRange
<1>3. 1 \in Int /\ d \in Int
  BY <1>1
<1>4. e % SeqSpace = d % SeqSpace
  <2> HIDE DEF m
  <2>1. (m + 1) % SeqSpace = (latest + 1) % SeqSpace
    BY ONLY <1>1, <1>2, <1>3, ModAdd
  <2>2. QED BY <2>1 DEF m
<1>5. last_seq = latest % SeqSpace
  BY DEF GapInv
<1>6. IsGap(p) <=> p.n % SeqSpace # d % SeqSpace
  BY <1>4, <1>5 DEF IsGap, seq
<1>7. p.n - d < SeqSpace /\ d - p.n < SeqSpace
  BY DEF WithinReach
<1> HIDE DEF d
<1>8. p.n % SeqSpace = d % SeqSpace => p.n = d
  <2> DEFINE a == p.n
  <2>1. a \in Int /\ a - d < SeqSpace /\ d - a < SeqSpace
    BY <1>1, <1>7
  <2> HIDE DEF a
  <2>2. a % SeqSpace = d % SeqSpace => a = d
    BY ONLY <1>1, <1>3, <2>1, ModClose
  <2>3. QED BY <2>2 DEF a
<1>9. IsGap(p) <=> p.n # d
  BY <1>6, <1>8
<1>10. QED BY <1>9 DEF d

\* So both counts go up together.
LEMMA NextKeepsGaps ==
    ASSUME LiveInv, GapInv, WithinReach, [Next]_vars
    PROVE  GapInv'
<1>1. CASE LiveStep /\ FeedRtp
  <2>1. PICK p \in net :
          /\ lost_packets' = lost_packets + (IF IsGap(p) THEN 1 ELSE 0)
          /\ have_seq' = TRUE /\ last_seq' = seq(p)
          /\ gaps' = gaps + (IF have_seq /\ p.n # latest + 1 THEN 1 ELSE 0)
          /\ latest' = p.n
    BY <1>1 DEF FeedRtp
  <2>2. IsGap(p) <=> have_seq /\ p.n # latest + 1
    <3>1. CASE have_seq
      BY <3>1, GapIsSeen
    <3>2. CASE ~have_seq
      BY <3>2 DEF IsGap
    <3>3. QED BY <3>1, <3>2
  <2>3. lost_packets' = gaps'
    BY <2>1, <2>2 DEF GapInv
  <2>4. last_seq' = latest' % SeqSpace
    BY <2>1 DEF seq
  <2>5. QED BY <2>3, <2>4 DEF GapInv
<1>2. CASE StartReplay
  BY <1>2 DEF StartReplay, GapInv
<1>3. ASSUME UNCHANGED <<have_seq, last_seq, lost_packets, gaps, latest>> PROVE GapInv'
  BY <1>3 DEF GapInv
<1>4. CASE LiveStep /\ ~FeedRtp
  <2>1. BeginPicture \/ SendAnnexB \/ SendNals \/ SendFragment \/ Lose \/ FeedRaw
    BY <1>4 DEF LiveStep, Live
  <2>2. CASE BeginPicture
    BY <1>3, <2>2 DEF BeginPicture, playerVars, history
  <2>3. CASE SendAnnexB \/ SendNals \/ SendFragment
    <3>1. UNCHANGED <<playerVars, history>>
      BY <2>3 DEF SendAnnexB, SendNals, SendFragment, Sends
    <3>2. QED BY <1>3, <3>1 DEF playerVars, history
  <2>4. CASE Lose
    BY <1>3, <2>4 DEF Lose, playerVars, history
  <2>5. CASE FeedRaw
    BY <1>3, <2>5 DEF FeedRaw, history
  <2>6. QED BY <2>1, <2>2, <2>3, <2>4, <2>5
<1>5. CASE Replay
  BY <1>3, <1>5 DEF Replay, FeedUnit, NothingToFeed, LoopEnds, playerVars, history
<1>6. CASE Signal
  BY <1>3, <1>6 DEF Signal, liveVars, playerVars, history
<1>7. CASE UNCHANGED vars
  BY <1>3, <1>7 DEF vars, liveVars, playerVars, history
<1>8. QED BY <1>1, <1>2, <1>4, <1>5, <1>6, <1>7 DEF Next

\* "lost pkts" counts every packet that does not follow the one before it and no
\* other, across the wrap of the 16-bit number, as long as none is a whole turn of
\* it away: behind as many losses in a row the code cannot tell (rtp_feed).
THEOREM EveryLossIsCounted == Spec /\ []WithinReach => []LossesAreCounted
<1>1. Init => GapInv
  BY DEF Init, RtpInit, GapInv
<1>2. VideoInv /\ WithinReach /\ GapInv /\ [Next]_vars => GapInv'
  BY NextKeepsGaps DEF VideoInv
<1>3. GapInv => LossesAreCounted
  BY DEF GapInv, LossesAreCounted
<1>4. QED BY <1>1, <1>2, <1>3, VideoInvariant, PTL DEF Spec

----------------------------------------------------------------------------
(* Where the NAL units of a picture begin *)

\* The symbols of one of them.
LEMMA NalSymbols ==
    ASSUME NEW shape, shape \in Seq(Nals), NEW k, k \in Nat, NEW j, j \in 1 .. Len(shape)
    PROVE  /\ NalCode(shape, k, j) \in Stream /\ Len(NalCode(shape, k, j)) >= 2
           /\ Len(NalCode(shape, k, j)) \in Nat
           /\ NalCode(shape, k, j)[1] = start_code
           /\ NalCode(shape, k, j)[2] = <<shape[j].t, k, j, 0>>
           /\ \A i \in 2 .. Len(NalCode(shape, k, j)) : NalCode(shape, k, j)[i] # start_code
<1> DEFINE u == NalUnit(k, j, shape[j])
           e == NalCode(shape, k, j)
<1>1. shape[j] \in Nals /\ j \in Nat
  OBVIOUS
<1>2. shape[j].t \in NalTypes /\ shape[j].n \in Nat
  BY <1>1 DEF Nals
<1>3. /\ u \in Stream /\ Len(u) = shape[j].n + 1 /\ u[1] = <<shape[j].t, k, j, 0>>
      /\ \A b \in 1 .. shape[j].n : u[b + 1] = <<"body", k, j, b>>
  BY <1>1, NalUnitType
<1>4. /\ e \in Stream /\ Len(e) = Len(<<start_code>>) + Len(u)
      /\ \A i \in 1 .. Len(<<start_code>>) : e[i] = <<start_code>>[i]
      /\ \A i \in 1 .. Len(u) : e[Len(<<start_code>>) + i] = u[i]
  <2>1. e = <<start_code>> \o u
    BY DEF NalCode
  <2> HIDE DEF e, u
  <2>2. QED BY ONLY <1>3, <2>1, StartCode, StreamConcat
<1>5. Len(<<start_code>>) = 1 /\ <<start_code>>[1] = start_code
  OBVIOUS
<1>6. \A i \in 1 .. Len(u) : e[1 + i] = u[i]
  BY <1>4, <1>5
<1> HIDE DEF e, u
<1>7. Len(e) = shape[j].n + 2
  BY <1>2, <1>3, <1>4, <1>5
<1>8. e[1] = start_code
  <2>1. 1 \in 1 .. Len(<<start_code>>)
    BY <1>5
  <2>2. QED BY <1>4, <1>5, <2>1
<1>9. e[2] = <<shape[j].t, k, j, 0>>
  <2>1. 1 \in 1 .. Len(u) /\ 1 + 1 = 2
    BY <1>2, <1>3
  <2>2. e[1 + 1] = u[1]
    BY ONLY <1>6, <2>1
  <2>3. QED BY <1>3, <2>1, <2>2
<1>10. <<shape[j].t, k, j, 0>> # start_code
  <2>1. shape[j].t # "sc"
    BY <1>2 DEF NalTypes
  <2>2. QED BY <2>1 DEF start_code
<1>11. ASSUME NEW i \in 2 .. Len(e) PROVE e[i] # start_code
  <2>1. CASE i = 2
    BY <1>9, <1>10, <2>1
  <2>2. CASE i # 2
    <3> DEFINE b == i - 2
               n == shape[j].n
    <3>1. b \in 1 .. n /\ b + 1 \in 1 .. Len(u) /\ 1 + (b + 1) = i
      <4>1. n \in Nat /\ Len(u) = n + 1 /\ Len(e) = n + 2
        BY <1>2, <1>3, <1>7
      <4> HIDE DEF n
      <4>2. i \in 2 .. n + 2 /\ i # 2
        BY <2>2, <4>1
      <4>3. QED BY ONLY <4>1, <4>2
    <3> HIDE DEF b
    <3>2. e[1 + (b + 1)] = u[b + 1] /\ u[b + 1] = <<"body", k, j, b>>
      BY <1>3, <1>6, <3>1
    <3>3. <<"body", k, j, b>> # start_code
      BY DEF start_code
    <3>4. QED BY <3>1, <3>2, <3>3
  <2>3. QED BY <2>1, <2>2
<1>12. Len(e) \in Nat /\ Len(e) >= 2
  <2> DEFINE n == shape[j].n
  <2>1. n \in Nat /\ Len(e) = n + 2
    BY <1>2, <1>7
  <2> HIDE DEF n
  <2>2. QED BY ONLY <2>1
<1>13. e \in Stream
  BY <1>4
<1>14. QED BY ONLY <1>8, <1>9, <1>11, <1>12, <1>13 DEF e

IsCode(d, i) == i \in 1 .. Len(d) /\ d[i] = start_code

\* Each start code of the first m is followed by the header of its NAL unit, in
\* their order.
Marked(d, shape, k, m) ==
    /\ d \in Stream
    /\ \A i : IsCode(d, i) =>
         i < Len(d) /\ \E x \in 1 .. m : d[i + 1] = <<shape[x].t, k, x, 0>> /\ (x = 1 <=> i = 1)
    /\ \A i, j : IsCode(d, i) /\ IsCode(d, j) /\ i < j => d[i + 1][3] < d[j + 1][3]
    /\ m # 0 => \E i : IsCode(d, i) /\ d[i + 1] = <<shape[m].t, k, m, 0>>
    /\ m # 0 => IsCode(d, 1)
    /\ m = 0 => d = <<>>

\* One NAL unit more.
LEMMA MarkedNext ==
    ASSUME NEW shape, shape \in Seq(Nals), NEW k, k \in Nat, NEW m, m \in 1 .. Len(shape),
           NEW l, l = m - 1, NEW d, Marked(d, shape, k, l)
    PROVE  Marked(d \o NalCode(shape, k, m), shape, k, m)
<1> DEFINE e == NalCode(shape, k, m)
           w == d \o e
           n == Len(d)
           head(x) == <<shape[x].t, k, x, 0>>
<1>1. m \in Nat \ {0} /\ l \in Nat /\ m \in 1 .. Len(shape)
  OBVIOUS
<1>2. /\ e \in Stream /\ Len(e) >= 2 /\ Len(e) \in Nat /\ e[1] = start_code /\ e[2] = head(m)
      /\ \A i \in 2 .. Len(e) : e[i] # start_code
  BY ONLY <1>1, shape \in Seq(Nals), k \in Nat, NalSymbols, ZenonT(30)
<1>3. d \in Stream
  BY DEF Marked
<1> HIDE DEF e
<1>4. /\ w \in Stream /\ Len(w) = n + Len(e) /\ n \in Nat
      /\ \A i \in 1 .. n : w[i] = d[i]
      /\ \A i \in 1 .. Len(e) : w[n + i] = e[i]
  BY ONLY <1>2, <1>3, StreamConcat
<1> HIDE DEF w, n
<1>5. /\ \A i : IsCode(d, i) =>
           i < n /\ i \in 1 .. n /\ \E x \in 1 .. l : d[i + 1] = head(x) /\ (x = 1 <=> i = 1)
      /\ \A i, j : IsCode(d, i) /\ IsCode(d, j) /\ i < j => d[i + 1][3] < d[j + 1][3]
      /\ l # 0 => IsCode(d, 1)
      /\ l = 0 => n = 0
  <2>1. Len(<<>>) = 0
    OBVIOUS
  <2>2. QED BY <2>1 DEF Marked, IsCode, n
<1>6. /\ IsCode(w, n + 1) /\ w[n + 1 + 1] = head(m) /\ n + 1 < Len(w)
  <2>1. /\ 1 \in 1 .. Len(e) /\ 2 \in 1 .. Len(e) /\ n + 1 + 1 = n + 2
        /\ n + 1 \in 1 .. Len(w) /\ n + 1 < Len(w)
    <3>1. Len(e) \in Nat /\ Len(e) >= 2 /\ n \in Nat /\ Len(w) = n + Len(e)
      BY <1>2, <1>4
    <3>2. QED BY ONLY <3>1
  <2>2. w[n + 1] = e[1] /\ w[n + 2] = e[2]
    BY <1>4, <2>1
  <2>3. QED BY <1>2, <2>1, <2>2 DEF IsCode
<1>7. ASSUME NEW i, IsCode(w, i), i # n + 1
      PROVE  IsCode(d, i) /\ i \in 1 .. n /\ i < n /\ w[i + 1] = d[i + 1]
  <2>1. i \in 1 .. n + Len(e) /\ w[i] = start_code
    BY <1>4, <1>7 DEF IsCode
  <2>2. CASE i <= n
    <3>1. i \in 1 .. n
      BY <1>4, <2>1, <2>2
    <3>2. IsCode(d, i)
      BY <1>4, <2>1, <3>1 DEF IsCode, n
    <3>3. i < n /\ i + 1 \in 1 .. n
      BY <1>4, <1>5, <3>1, <3>2
    <3>4. QED BY <1>4, <3>1, <3>2, <3>3
  <2>3. CASE i > n
    <3> DEFINE y == i - n
    <3>1. y \in 2 .. Len(e) /\ n + y = i /\ y \in 1 .. Len(e)
      BY <1>2, <1>4, <1>7, <2>1, <2>3
    <3> HIDE DEF y
    <3>2. w[n + y] = e[y] /\ e[y] # start_code
      BY <1>2, <1>4, <3>1
    <3>3. QED BY <2>1, <3>1, <3>2
  <2>4. QED BY <1>4, <2>1, <2>2, <2>3
<1>8. ASSUME NEW i, IsCode(d, i)
      PROVE  IsCode(w, i)
  <2>1. i \in 1 .. n /\ d[i] = start_code
    BY <1>8 DEF IsCode, n
  <2>2. i \in 1 .. Len(w) /\ w[i] = d[i]
    BY <1>2, <1>4, <2>1
  <2>3. QED BY <2>1, <2>2 DEF IsCode
<1>9. ASSUME NEW i, IsCode(w, i)
      PROVE  i < Len(w) /\ \E x \in 1 .. m : w[i + 1] = head(x) /\ (x = 1 <=> i = 1)
  <2>1. CASE i = n + 1
    <3>1. m = 1 <=> i = 1
      <4>1. CASE m = 1
        <5>1. n = 0
          BY <1>5, <4>1
        <5>2. QED BY <2>1, <4>1, <5>1
      <4>2. CASE m # 1
        <5>1. IsCode(d, 1)
          BY <1>1, <1>5, <4>2
        <5>2. n > 0
          BY <1>4, <1>5, <5>1
        <5>3. QED BY <1>4, <2>1, <4>2, <5>2
      <4>3. QED BY <4>1, <4>2
    <3>2. m \in 1 .. m
      BY <1>1
    <3>3. w[i + 1] = head(m) /\ i < Len(w)
      BY <1>6, <2>1
    <3> HIDE DEF head
    <3>4. QED BY <3>1, <3>2, <3>3
  <2>2. CASE i # n + 1
    <3>1. IsCode(d, i) /\ i < n /\ i \in 1 .. n /\ w[i + 1] = d[i + 1]
      BY <1>7, <1>9, <2>2
    <3>2. PICK x \in 1 .. l : d[i + 1] = head(x) /\ (x = 1 <=> i = 1)
      BY <1>5, <3>1
    <3>3. x \in 1 .. m /\ i < Len(w)
      BY <1>1, <1>2, <1>4, <3>1
    <3> HIDE DEF head
    <3>4. QED BY <3>1, <3>2, <3>3
  <2>3. QED BY <2>1, <2>2
<1>10. ASSUME NEW i, NEW j, IsCode(w, i), IsCode(w, j), i < j
       PROVE  w[i + 1][3] < w[j + 1][3]
  <2>1. i \in 1 .. Len(w) /\ j \in 1 .. Len(w)
    BY <1>10 DEF IsCode
  <2>2. CASE j = n + 1
    <3>1. i # n + 1
      BY <1>10, <2>2, <2>1, <1>4
    <3>2. IsCode(d, i) /\ w[i + 1] = d[i + 1]
      BY <1>7, <1>10, <3>1
    <3>3. PICK x \in 1 .. l : d[i + 1] = head(x)
      BY <1>5, <3>2
    <3>4. head(x)[3] = x /\ head(m)[3] = m
      OBVIOUS
    <3>5. x < m
      BY <1>1
    <3>6. w[j + 1] = head(m)
      BY <1>6, <2>2
    <3> HIDE DEF head
    <3>7. QED BY <3>2, <3>3, <3>4, <3>5, <3>6
  <2>3. CASE j # n + 1
    <3>1. IsCode(d, j) /\ j < n /\ w[j + 1] = d[j + 1]
      BY <1>7, <1>10, <2>3
    <3>2. i # n + 1
      BY <1>4, <1>10, <2>1, <3>1
    <3>3. IsCode(d, i) /\ w[i + 1] = d[i + 1]
      BY <1>7, <1>10, <3>2
    <3>4. QED BY <1>5, <1>10, <3>1, <3>3
  <2>4. QED BY <2>2, <2>3
<1>11. IsCode(w, 1)
  <2>1. CASE l = 0
    BY <1>5, <1>6, <2>1
  <2>2. CASE l # 0
    BY <1>5, <1>8, <2>2
  <2>3. QED BY <2>1, <2>2
<1>12. \E i : IsCode(w, i) /\ w[i + 1] = head(m)
  BY <1>6
<1>13. QED BY <1>1, <1>4, <1>9, <1>10, <1>11, <1>12 DEF Marked, w, e

\* So are those of all of a picture.
LEMMA MarkedAll ==
    ASSUME NEW shape, shape \in Seq(Nals), NEW k, k \in Nat
    PROVE  \A m \in 0 .. Len(shape) : Marked(Opening(shape, k, m), shape, k, m)
<1> DEFINE Good == {m \in Nat : m <= Len(shape) => Marked(Opening(shape, k, m), shape, k, m)}
<1>1. Len(shape) \in Nat
  OBVIOUS
<1>2. 0 \in Good
  <2>1. Opening(shape, k, 0) = <<>>
    BY OpeningNext
  <2>2. \A i : ~IsCode(<<>>, i)
    BY DEF IsCode
  <2>3. Marked(<<>>, shape, k, 0)
    BY <2>2, StreamEmpty DEF Marked
  <2>4. QED BY <2>1, <2>3
<1>3. ASSUME NEW m \in Nat \ {0}, m - 1 \in Good
      PROVE  m \in Good
  <2> SUFFICES ASSUME m <= Len(shape) PROVE Marked(Opening(shape, k, m), shape, k, m)
    OBVIOUS
  <2> DEFINE l == m - 1
             d == Opening(shape, k, l)
  <2>1. m \in 1 .. Len(shape) /\ l \in Nat /\ l <= Len(shape) /\ l \in Good
    BY <1>1, <1>3
  <2>2. Marked(d, shape, k, l)
    BY <2>1
  <2>3. Opening(shape, k, m) = d \o NalCode(shape, k, m)
    BY <2>1, OpeningNext
  <2>4. l = m - 1
    OBVIOUS
  <2> HIDE DEF d, l
  <2>5. Marked(d \o NalCode(shape, k, m), shape, k, m)
    BY ONLY <2>1, <2>2, <2>4, shape \in Seq(Nals), k \in Nat, MarkedNext
  <2>6. QED BY <2>3, <2>5
<1> HIDE DEF Good
<1>4. \A m \in Nat : m \in Good
  BY <1>2, <1>3, Induction
<1>5. QED BY <1>1, <1>4 DEF Good

\* What a type ends a picture before it that had its slice.
Starting(type) == type \in NalTypes /\ type # "none" /\ (is_h265 => type # "sei")

\* A NAL unit of such a type begins behind the first o symbols.
Heads(s, o) == o + 2 <= Len(s) /\ s[o + 1] = start_code /\ Starting(s[o + 2][1])

\* All start codes are followed by a header, an AUD is the first or nowhere, and
\* one slice comes last.
Whole(d) ==
    /\ d \in Stream /\ Len(d) >= 2 /\ Heads(d, 0)
    /\ \A i : IsCode(d, i) =>
         i < Len(d) /\ d[i + 1][1] \in NalTypes /\ (d[i + 1][1] = "aud" => i = 1)
    /\ \E i : IsCode(d, i) /\ d[i + 1][1] = "slice"
    /\ \A i, j : IsCode(d, i) /\ IsCode(d, j) /\ i < j => d[i + 1][1] # "slice"

\* A regular picture is such a stream.
LEMMA RegularIsWhole ==
    ASSUME NEW k, k \in Nat, sent[k].shape \in Seq(Nals), sent[k].shape # <<>>,
           Regular(sent[k].shape)
    PROVE  Whole(Picture(k))
<1> DEFINE shape == sent[k].shape
           m == Len(shape)
           d == Opening(shape, k, m)
           head(x) == <<shape[x].t, k, x, 0>>
<1>1. Picture(k) = d
  BY PictureIs
<1>2. m \in Nat \ {0} /\ m \in 0 .. m /\ DOMAIN shape = 1 .. m
  BY EmptySeq
<1>3. /\ \A x \in 1 .. m : shape[x].t = "slice" <=> x = m
      /\ \A x \in 1 .. m : shape[x].t = "aud" => x = 1
      /\ shape[1].t # "none" /\ (is_h265 => shape[1].t # "sei")
  BY <1>2 DEF Regular
<1>4. \A x \in 1 .. m : shape[x].t \in NalTypes
  <2>1. \A x \in 1 .. m : shape[x] \in Nals
    BY <1>2
  <2> HIDE DEF shape, m
  <2>2. QED BY <2>1 DEF Nals
<1>5. Marked(d, shape, k, m)
  BY <1>2, MarkedAll
<1>6. \A x : head(x)[1] = shape[x].t /\ head(x)[3] = x
  OBVIOUS
<1> HIDE DEF d, m, shape
<1>7. /\ d \in Stream
      /\ \A i : IsCode(d, i) =>
           i < Len(d) /\ \E x \in 1 .. m : d[i + 1] = head(x) /\ (x = 1 <=> i = 1)
      /\ \A i, j : IsCode(d, i) /\ IsCode(d, j) /\ i < j => d[i + 1][3] < d[j + 1][3]
      /\ \E i : IsCode(d, i) /\ d[i + 1] = head(m)
      /\ IsCode(d, 1)
  BY <1>2, <1>5 DEF Marked
<1> HIDE DEF head
<1>8. Len(d) \in Nat /\ Len(d) >= 2
  BY <1>7 DEF Stream
<1>9. Heads(d, 0)
  <2>1. PICK x \in 1 .. m : d[1 + 1] = head(x) /\ (x = 1 <=> 1 = 1)
    BY <1>7
  <2>2. d[2][1] = shape[1].t
    BY <1>6, <2>1
  <2>3. d[1] = start_code
    BY <1>7 DEF IsCode
  <2>4. shape[1].t \in NalTypes
    BY <1>2, <1>4
  <2>5. Starting(d[2][1])
    BY <1>3, <2>2, <2>4 DEF Starting
  <2>6. 0 + 2 <= Len(d) /\ 0 + 1 = 1 /\ 0 + 2 = 2
    BY <1>8
  <2>7. QED BY <2>3, <2>5, <2>6 DEF Heads
<1>10. ASSUME NEW i, IsCode(d, i)
       PROVE  i < Len(d) /\ d[i + 1][1] \in NalTypes /\ (d[i + 1][1] = "aud" => i = 1)
  <2>1. PICK x \in 1 .. m : i < Len(d) /\ d[i + 1] = head(x) /\ (x = 1 <=> i = 1)
    BY <1>7, <1>10
  <2>2. QED BY <1>3, <1>4, <1>6, <2>1
<1>11. \E i : IsCode(d, i) /\ d[i + 1][1] = "slice"
  <2>1. shape[m].t = "slice"
    BY <1>2, <1>3
  <2>2. QED BY <1>6, <1>7, <2>1
<1>12. ASSUME NEW i, NEW j, IsCode(d, i), IsCode(d, j), i < j, d[i + 1][1] = "slice"
       PROVE  FALSE
  <2>1. PICK x \in 1 .. m : d[i + 1] = head(x)
    BY <1>7, <1>12
  <2>2. PICK y \in 1 .. m : d[j + 1] = head(y)
    BY <1>7, <1>12
  <2>3. x = m
    BY <1>3, <1>6, <1>12, <2>1
  <2>4. x < y
    BY <1>6, <1>7, <1>12, <2>1, <2>2
  <2>5. QED BY <1>2, <2>3, <2>4
<1>13. QED BY <1>1, <1>7, <1>8, <1>9, <1>10, <1>11, <1>12 DEF Whole

\* au_end finds its end if nothing or another picture follows.
LEMMA EndIsFound ==
    ASSUME NEW d, Whole(d), NEW b, b \in Stream, Len(d) <= Len(b),
           \A x \in 1 .. Len(d) : b[x] = d[x],
           Len(b) = Len(d) \/ Heads(b, Len(d)), NEW junk
    PROVE  au_end(b, is_h265, junk) = Len(d)
<1> DEFINE Type(i)     == TypeAt(b, i, is_h265, junk)
           codes       == {i \in 1 .. Len(b) - 1 : b[i] = start_code}
           seen(i)     == \E j \in codes : j < i /\ vcl(Type(j))
           starts      == {i \in codes \ {1} : starts_au(Type(i), seen(i), is_h265)}
           least       == CHOOSE i \in starts : \A j \in starts : i <= j
           n           == Len(d)
<1>1. au_end(b, is_h265, junk) = IF starts = {} THEN Len(b) ELSE least - 1
  BY DEF au_end
<1>2. n \in Nat /\ Len(b) \in Nat /\ n >= 2 /\ n <= Len(b)
  BY DEF Whole, Stream
<1>3. \A i : Heads(b, i) => Starting(b[i + 2][1])
  BY DEF Heads
<1>4. ASSUME NEW i \in codes, b[i + 1][1] \in NalTypes
      PROVE  Type(i) = b[i + 1][1]
  BY <1>4 DEF TypeAt, NalTypes
<1> HIDE DEF Type
<1>5. ASSUME NEW i \in 1 .. n, i \in codes
      PROVE  IsCode(d, i) /\ Type(i) = d[i + 1][1] /\ i < n /\ d[i + 1][1] \in NalTypes
             /\ (d[i + 1][1] = "aud" => i = 1)
  <2>1. b[i] = start_code /\ b[i] = d[i]
    BY <1>5
  <2>2. IsCode(d, i)
    BY <2>1 DEF IsCode
  <2>3. i < n /\ d[i + 1][1] \in NalTypes /\ (d[i + 1][1] = "aud" => i = 1)
    BY <2>2 DEF Whole
  <2>4. i + 1 \in 1 .. Len(d)
    BY <1>2, <2>3
  <2>5. b[i + 1] = d[i + 1]
    BY <2>4
  <2>6. Type(i) = d[i + 1][1]
    BY <1>4, <1>5, <2>3, <2>5
  <2>7. QED BY <2>2, <2>3, <2>6
<1>6. ASSUME NEW i \in 1 .. n, i \in starts
      PROVE  FALSE
  <2>1. i \in codes /\ i # 1 /\ starts_au(Type(i), seen(i), is_h265)
    BY <1>6
  <2>2. IsCode(d, i) /\ Type(i) # "aud"
    BY <1>5, <2>1
  <2>3. seen(i)
    <3> HIDE DEF seen
    <3>1. QED BY <2>1, <2>2 DEF starts_au
  <2>4. PICK j \in codes : j < i /\ vcl(Type(j))
    BY <2>3
  <2>5. j \in 1 .. n
    BY <1>2, <2>4
  <2>6. IsCode(d, j) /\ d[j + 1][1] = "slice"
    BY <1>5, <2>4, <2>5 DEF vcl
  <2>7. QED BY <2>2, <2>4, <2>6 DEF Whole
<1>7. codes \subseteq 1 .. Len(b) - 1
  OBVIOUS
<1>8. starts \subseteq codes
  <2> HIDE DEF codes, seen
  <2>1. QED OBVIOUS
<1>9. CASE Len(b) = n
  <2>1. starts = {}
    <3> HIDE DEF starts, codes
    <3>1. \A i \in starts : i \in 1 .. n
      BY <1>2, <1>7, <1>8, <1>9
    <3>2. QED BY <1>6, <3>1
  <2>2. QED BY <1>1, <1>9, <2>1 DEF n
<1>10. CASE Heads(b, n)
  <2>1. n + 2 <= Len(b) /\ b[n + 1] = start_code /\ Starting(b[n + 2][1])
    BY <1>10 DEF Heads
  <2>2. n + 1 \in codes /\ n + 1 # 1 /\ n + 1 + 1 = n + 2
    BY <1>2, <2>1
  <2>3. Type(n + 1) = b[n + 2][1] /\ Starting(Type(n + 1))
    <3>1. b[n + 1 + 1][1] \in NalTypes
      BY <2>1, <2>2 DEF Starting
    <3>2. Type(n + 1) = b[n + 1 + 1][1]
      BY <1>4, <2>2, <3>1
    <3>3. QED BY <2>1, <2>2, <3>2
  <2>4. seen(n + 1)
    <3>1. PICK j : IsCode(d, j) /\ d[j + 1][1] = "slice"
      BY DEF Whole
    <3>2. j \in 1 .. n /\ j < n /\ d[j] = start_code
      BY <3>1 DEF Whole, IsCode
    <3>3. j \in 1 .. Len(d) /\ b[j] = d[j] /\ j \in 1 .. Len(b) - 1
      BY <1>2, <3>2
    <3>4. j \in codes
      BY <3>2, <3>3
    <3>5. Type(j) = "slice" /\ j < n + 1
      BY <1>2, <1>5, <3>1, <3>2, <3>4
    <3> HIDE DEF codes
    <3>6. QED BY <3>4, <3>5 DEF vcl
  <2>5. n + 1 \in starts
    <3> HIDE DEF codes, seen
    <3>1. Type(n + 1) \in {"aud", "ps", "sei", "slice"} /\ (is_h265 => Type(n + 1) # "sei")
      BY <2>3 DEF Starting, NalTypes
    <3>2. starts_au(Type(n + 1), seen(n + 1), is_h265)
      BY <2>4, <3>1 DEF starts_au, vcl
    <3>3. QED BY <2>2, <3>2
  <2> HIDE DEF starts, codes
  <2>6. \A i \in starts : n + 1 <= i /\ i \in Nat
    BY <1>2, <1>6, <1>7, <1>8
  <2>7. least \in starts /\ \A j \in starts : least <= j
    BY <2>5, <2>6
  <2>8. least = n + 1
    <3> HIDE DEF least
    <3>1. QED BY <1>2, <2>5, <2>6, <2>7
  <2>9. starts # {}
    BY <2>5
  <2> HIDE DEF least
  <2>10. QED BY <1>1, <1>2, <2>8, <2>9 DEF n
<1>11. QED BY <1>9, <1>10 DEF n

----------------------------------------------------------------------------
(* The pictures in the file *)

\* Unit j of the recording in all of it.
LEMMA UnitLies ==
    ASSUME recorded \in Seq(Stream), NEW j, j \in 1 .. Len(recorded)
    PROVE  /\ StartOf(j) \in Nat /\ EndOf(j) = StartOf(j) + Len(recorded[j])
           /\ Len(recorded[j]) \in Nat /\ recorded[j] \in Stream
           /\ EndOf(j) <= Len(FlattenSeq(recorded))
           /\ \A x \in 1 .. Len(recorded[j]) :
                FlattenSeq(recorded)[StartOf(j) + x] = recorded[j][x]
           /\ j + 1 \in 1 .. Len(recorded) => StartOf(j + 1) = EndOf(j)
           /\ j = 1 => StartOf(j) = 0
           /\ j = Len(recorded) => EndOf(j) = Len(FlattenSeq(recorded))
<1> DEFINE L == Len(recorded)
           u == recorded[j]
           front == FlattenSeq(SubSeq(recorded, 1, j - 1))
           upto == FlattenSeq(SubSeq(recorded, 1, j))
           back == FlattenSeq(SubSeq(recorded, j + 1, L))
           all == FlattenSeq(recorded)
<1>1. L \in Nat /\ j \in Nat \ {0} /\ j <= L /\ u \in Stream
  OBVIOUS
<1>2. upto = front \o u
  <2>1. recorded \in Seq(Seq(Symbol)) /\ j \in 1 .. Len(recorded)
    BY DEF Stream
  <2>2. QED BY <2>1, FlattenNext
<1>3. /\ SubSeq(recorded, 1, j - 1) \in Seq(Stream) /\ SubSeq(recorded, 1, j) \in Seq(Stream)
      /\ SubSeq(recorded, j + 1, L) \in Seq(Stream)
  BY <1>1
<1>4. front \in Stream /\ upto \in Stream /\ back \in Stream
  BY <1>3, StreamFlatten
<1>5. all = upto \o back
  <2>1. recorded = SubSeq(recorded, 1, j) \o SubSeq(recorded, j + 1, L)
    <3>1. /\ Len(SubSeq(recorded, 1, j)) = j /\ Len(SubSeq(recorded, j + 1, L)) = L - j
          /\ \A i \in 1 .. j : SubSeq(recorded, 1, j)[i] = recorded[i]
          /\ \A i \in 1 .. L - j : SubSeq(recorded, j + 1, L)[i] = recorded[j + i]
      BY <1>1
    <3> DEFINE s == SubSeq(recorded, 1, j)
               t == SubSeq(recorded, j + 1, L)
    <3>2. s \in Seq(Stream) /\ t \in Seq(Stream)
      BY <1>3
    <3> HIDE DEF s, t
    <3>3. /\ s \o t \in Seq(Stream) /\ Len(s \o t) = Len(s) + Len(t)
          /\ \A i \in 1 .. Len(s) + Len(t) :
                (s \o t)[i] = IF i <= Len(s) THEN s[i] ELSE t[i - Len(s)]
      BY <3>2, ConcatProperties
    <3>4. Len(s) = j /\ Len(t) = L - j
      BY <3>1 DEF s, t
    <3>5. Len(s \o t) = L
      BY <1>1, <3>3, <3>4
    <3>6. ASSUME NEW i \in 1 .. L PROVE recorded[i] = (s \o t)[i]
      <4>1. i \in 1 .. Len(s) + Len(t)
        BY <1>1, <3>4
      <4>2. CASE i <= j
        <5>1. (s \o t)[i] = s[i] /\ i \in 1 .. j
          BY <3>3, <3>4, <4>1, <4>2, <1>1
        <5>2. QED BY <3>1, <5>1 DEF s
      <4>3. CASE i > j
        <5>1. (s \o t)[i] = t[i - j] /\ i - j \in 1 .. L - j /\ j + (i - j) = i
          BY <3>3, <3>4, <4>1, <4>3, <1>1
        <5>2. QED BY <3>1, <5>1 DEF t
      <4>4. i <= j \/ i > j
        BY <1>1
      <4>5. QED BY ONLY <4>2, <4>3, <4>4
    <3>7. recorded = s \o t
      BY <3>3, <3>5, <3>6, SeqEqual
    <3>8. QED BY <3>7 DEF s, t
  <2> DEFINE s == SubSeq(recorded, 1, j)
             t == SubSeq(recorded, j + 1, L)
  <2>2. s \in Seq(Stream) /\ t \in Seq(Stream)
    BY <1>3
  <2>3. FlattenSeq(s \o t) = FlattenSeq(s) \o FlattenSeq(t)
    BY ONLY <2>2, StreamFlattenConcat
  <2>4. QED BY <2>1, <2>3
<1>6. StartOf(j) = Len(front) /\ EndOf(j) = Len(front) + Len(u)
  BY DEF StartOf, EndOf
<1>7. j + 1 \in 1 .. L => StartOf(j + 1) = Len(upto)
  <2>1. (j + 1) - 1 = j
    BY <1>1
  <2>2. QED BY <2>1 DEF StartOf
<1>8. j = 1 => front = <<>>
  <2>1. SubSeq(recorded, 1, 0) = <<>>
    BY SubSeqEmpty
  <2>2. j = 1 => j - 1 = 0
    OBVIOUS
  <2>3. QED BY <2>1, <2>2, FlattenEmpty
<1>9. j = L => back = <<>>
  <2>1. SubSeq(recorded, L + 1, L) = <<>>
    BY <1>1, SubSeqEmpty
  <2>2. QED BY <2>1, FlattenEmpty
<1> HIDE DEF front, upto, back, all, u, L
<1>10. /\ Len(front) \in Nat /\ Len(u) \in Nat /\ Len(upto) = Len(front) + Len(u)
       /\ \A i \in 1 .. Len(u) : upto[Len(front) + i] = u[i]
  <2>1. /\ Len(front) \in Nat /\ Len(u) \in Nat /\ Len(front \o u) = Len(front) + Len(u)
        /\ \A i \in 1 .. Len(u) : (front \o u)[Len(front) + i] = u[i]
    BY ONLY <1>1, <1>4, StreamConcat
  <2>2. QED BY <1>2, <2>1
<1>11. /\ Len(back) \in Nat /\ Len(all) = Len(upto) + Len(back)
       /\ \A i \in 1 .. Len(upto) : all[i] = upto[i]
  <2>1. /\ Len(back) \in Nat /\ Len(upto \o back) = Len(upto) + Len(back)
        /\ \A i \in 1 .. Len(upto) : (upto \o back)[i] = upto[i]
    BY ONLY <1>4, StreamConcat
  <2>2. QED BY <1>5, <2>1
<1>12. ASSUME NEW x \in 1 .. Len(u) PROVE all[StartOf(j) + x] = u[x]
  <2>1. Len(front) + x \in 1 .. Len(upto)
    BY <1>10
  <2>2. QED BY <1>6, <1>10, <1>11, <2>1
<1>13. EndOf(j) <= Len(all) /\ EndOf(j) = Len(upto)
  BY <1>6, <1>10, <1>11
<1>14. Len(<<>>) = 0
  OBVIOUS
<1>15. j = 1 => StartOf(j) = 0
  BY <1>6, <1>8, <1>14
<1>16. j = L => EndOf(j) = Len(all)
  BY <1>9, <1>10, <1>11, <1>13, <1>14
<1>17. QED BY <1>1, <1>6, <1>7, <1>10, <1>12, <1>13, <1>15, <1>16 DEF all, u, L

\* A whole picture lies in the file f where it should, and behind it another
\* begins, or the file ends and, if it is played again, begins with one.
Lies(f, again, p) ==
    /\ Whole(p.data) /\ p.at \in Nat /\ p.at + Len(p.data) <= Len(f)
    /\ \A x \in 1 .. Len(p.data) : f[p.at + x] = p.data[x]
    /\ p.at + Len(p.data) < Len(f) => Heads(f, p.at + Len(p.data))
    /\ p.at + Len(p.data) = Len(f) /\ again => Heads(f, 0)

ExpectInv == phase = "replay" => PicturesAreReplayed /\ \A p \in expected : Lies(file, loop, p)

\* What au_end tells apart does not change while a file is played.
LEMMA LiesStays ==
    ASSUME is_h265' = is_h265, NEW f, NEW again, NEW p
    PROVE  Lies(f, again, p)' <=> Lies(f, again, p)
<1>1. \A s, o : Heads(s, o)' <=> Heads(s, o)
  BY DEF Heads, Starting
<1>2. Whole(p.data)' <=> Whole(p.data)
  BY <1>1 DEF Whole, IsCode
<1>3. QED BY <1>1, <1>2 DEF Lies

\* A unit of the recording that is a picture is a whole one.
LEMMA PictureIsWhole ==
    ASSUME LiveInv, NEW j, IsPicture(j)
    PROVE  Whole(recorded[j])
<1>1. PICK k \in DOMAIN sent : recorded[j] = Picture(k) /\ Regular(sent[k].shape)
  BY DEF IsPicture
<1>2. sent \in Seq(Sent)
  BY DEF LiveInv, Sending
<1>3. k \in 1 .. Len(sent) /\ k \in Nat
  BY <1>2
<1>4. sent[k].shape \in Seq(Nals) /\ sent[k].shape # <<>>
  BY <1>3, LastSentType
<1>5. Whole(Picture(k))
  BY <1>1, <1>3, <1>4, RegularIsWhole
<1>6. QED BY <1>1, <1>5

\* If one lies at o in f, a picture begins there.
LEMMA WholeHeads ==
    ASSUME NEW d, Whole(d), NEW f, NEW o, o \in Nat, o + 2 <= Len(f),
           f[o + 1] = d[1], f[o + 2] = d[2]
    PROVE  Heads(f, o)
<1>1. Heads(d, 0)
  BY DEF Whole
<1>2. 0 + 1 = 1 /\ 0 + 2 = 2
  OBVIOUS
<1>3. d[1] = start_code /\ Starting(d[2][1])
  BY <1>1, <1>2 DEF Heads
<1>4. QED BY <1>3 DEF Heads

\* The pictures expected of a file are in it, where they are expected.
LEMMA StartExpects ==
    ASSUME LiveInv, StartReplay
    PROVE  ExpectInv'
<1>1. PICK cut \in StartOf(Len(recorded)) + 1 .. EndOf(Len(recorded)), again \in BOOLEAN :
        /\ file' = SubSeq(FlattenSeq(recorded), 1, cut) /\ loop' = again
        /\ expected' = Expected(cut, again)
  BY DEF StartReplay
<1>2. recorded # <<>> /\ is_h265' = is_h265 /\ unit' = NoUnit
  BY DEF StartReplay
<1>3. recorded \in Seq(Stream)
  BY DEF LiveInv, Receiving
<1> DEFINE L == Len(recorded)
           all == FlattenSeq(recorded)
           f == SubSeq(all, 1, cut)
<1>4. L \in Nat \ {0} /\ DOMAIN recorded = 1 .. L
  BY <1>2, <1>3, EmptySeq
<1>5. StartOf(L) \in Nat /\ EndOf(L) = Len(all) /\ Len(all) \in Nat /\ all \in Stream
  <2>1. L \in 1 .. L
    BY <1>4
  <2>2. StartOf(L) \in Nat /\ EndOf(L) = Len(all)
    BY <1>3, <2>1, UnitLies
  <2>3. all \in Stream
    BY <1>3, StreamFlatten
  <2>4. QED BY <2>2, <2>3 DEF Stream
<1>6. cut \in Nat /\ 0 < cut /\ cut <= Len(all)
  BY <1>5
<1> HIDE DEF L, all
<1>7. /\ f \in Stream /\ Len(f) = cut
      /\ \A x \in 1 .. cut : f[x] = all[x]
  <2>1. 0 \in Nat /\ 0 <= cut /\ 0 + 1 = 1
    BY <1>6
  <2>2. IsPart(SubSeq(all, 0 + 1, cut), all, 0, cut)
    BY ONLY <1>5, <1>6, <2>1, PartOf
  <2>3. IsPart(f, all, 0, cut)
    BY <2>1, <2>2
  <2> HIDE DEF f
  <2>4. f \in Stream /\ Len(f) = cut - 0 /\ \A x \in 1 .. cut - 0 : f[x] = all[0 + x]
    BY <2>3 DEF IsPart
  <2>5. QED BY <1>6, <2>4
<1>8. f = file'
  BY <1>1 DEF all
<1> HIDE DEF f
<1>9. ASSUME NEW j \in 1 .. L, IsPicture(j), StartOf(j) + 2 <= cut
      PROVE  Heads(f, StartOf(j))
  <2> DEFINE u == recorded[j]
             o == StartOf(j)
  <2>1. /\ o \in Nat /\ Len(u) \in Nat
        /\ \A x \in 1 .. Len(u) : all[o + x] = u[x]
    BY <1>3, UnitLies DEF L, all
  <2>2. Whole(u)
    BY <1>9, PictureIsWhole
  <2>3. 1 \in 1 .. Len(u) /\ 2 \in 1 .. Len(u)
    BY <2>1, <2>2 DEF Whole
  <2>4. o + 1 \in 1 .. cut /\ o + 2 \in 1 .. cut
    BY <1>6, <1>9, <2>1
  <2>5. f[o + 1] = u[1] /\ f[o + 2] = u[2]
    BY <1>7, <2>1, <2>3, <2>4
  <2>6. o + 2 <= Len(f)
    BY <1>7, <1>9
  <2> HIDE DEF u, o
  <2>7. Heads(f, o)
    BY <2>1, <2>2, <2>5, <2>6, WholeHeads
  <2>8. QED BY <2>7 DEF o
<1>10. ASSUME NEW p \in expected'
       PROVE  Lies(f, again, p)
  <2>1. PICK j \in 1 .. L :
          /\ EndOf(j) <= cut /\ IsPicture(j) /\ IsFollowed(j, cut, again)
          /\ p = [at |-> StartOf(j), data |-> recorded[j]]
    BY <1>1, <1>4 DEF Expected
  <2> DEFINE u == recorded[j]
             o == StartOf(j)
  <2>2. /\ o \in Nat /\ EndOf(j) = o + Len(u) /\ Len(u) \in Nat
        /\ \A x \in 1 .. Len(u) : all[o + x] = u[x]
        /\ j + 1 \in 1 .. L => StartOf(j + 1) = EndOf(j)
        /\ j = L => EndOf(j) = Len(all)
    BY <1>3, UnitLies DEF L, all
  <2>3. p.at = o /\ p.data = u
    BY <2>1
  <2>4. Whole(u)
    BY <2>1, PictureIsWhole
  <2>5. Len(u) >= 2
    BY <2>4 DEF Whole
  <2>6. o + Len(u) <= Len(f)
    BY <1>7, <2>1, <2>2
  <2>7. ASSUME NEW x \in 1 .. Len(u) PROVE f[o + x] = u[x]
    <3>1. o + x \in 1 .. cut
      BY <1>6, <1>7, <2>2, <2>6
    <3>2. QED BY <1>7, <2>2, <3>1
  <2>8. ASSUME o + Len(u) < Len(f) PROVE Heads(f, o + Len(u))
    <3>1. EndOf(j) # cut
      BY <1>7, <2>2, <2>8
    <3>2. IsPicture(j + 1) /\ EndOf(j) + 2 <= cut
      BY <2>1, <3>1 DEF IsFollowed
    <3>3. j # L
      BY <1>6, <1>7, <2>2, <2>8
    <3>4. j + 1 \in 1 .. L
      BY <1>4, <3>3
    <3>5. StartOf(j + 1) = o + Len(u) /\ StartOf(j + 1) + 2 <= cut
      BY <2>2, <3>2, <3>4
    <3>6. Heads(f, StartOf(j + 1))
      BY <1>9, <3>2, <3>4, <3>5
    <3>7. QED BY <3>5, <3>6
  <2>9. ASSUME o + Len(u) = Len(f), again PROVE Heads(f, 0)
    <3>1. EndOf(j) = cut
      BY <1>7, <2>2, <2>9
    <3>2. IsPicture(1)
      BY <2>1, <2>9, <3>1 DEF IsFollowed
    <3>3. 1 \in 1 .. L
      BY <1>4
    <3>4. StartOf(1) = 0
      BY <1>3, <3>3, UnitLies DEF L
    <3>5. StartOf(1) + 2 <= cut
      BY <1>7, <2>2, <2>5, <2>9, <3>4
    <3>6. Heads(f, StartOf(1))
      BY <1>9, <3>2, <3>3, <3>5
    <3>7. QED BY <3>4, <3>6
  <2> HIDE DEF u, o
  <2>10. QED BY <2>2, <2>3, <2>4, <2>6, <2>7, <2>8, <2>9 DEF Lies
<1>11. \A p \in expected' : Lies(file, loop, p)'
  <2>1. PICK g : g = f
    OBVIOUS
  <2>2. g = file' /\ again = loop'
    BY <1>1, <1>8, <2>1
  <2>3. ASSUME NEW p \in expected' PROVE Lies(file, loop, p)'
    <3>1. Lies(g, again, p)' <=> Lies(g, again, p)
      BY ONLY <1>2, LiesStays
    <3>2. Lies(g, again, p)
      BY <1>10, <2>1
    <3>3. Lies(g, again, p)'
      BY ONLY <3>1, <3>2
    <3>4. QED BY ONLY <2>2, <3>3 DEF Lies
  <2>4. QED BY ONLY <2>3
<1>12. PicturesAreReplayed'
  BY <1>2 DEF PicturesAreReplayed
<1>13. QED BY <1>11, <1>12 DEF ExpectInv

\* The window holds what it can: it is full, or has all there is.
LEMMA WindowIsFilled ==
    ASSUME OnTape, Ahead, Once, Troubled, NEW got, Read(got), troubles' = 0,
           win' # <<>>, NEW n, n \in Nat, n >= 2, next + n <= Len(file), n + 2 <= fcap,
           next + n < Len(file) => next + n + 2 <= Len(file)
    PROVE  /\ n <= Len(win')
           /\ Len(win') = n \/ (n + 2 <= Len(win') /\ (next + n = Len(file) => loop))
<1> DEFINE N == Len(file)
           rest == Len(win) - fpos
           W == Len(win')
<1>1. /\ N \in Nat \ {0} /\ fd \in Nat /\ fd <= N /\ fcap \in Nat /\ rest \in Nat
      /\ rest <= fcap /\ next \in Nat /\ next < N /\ Len(win) \in Nat /\ fpos \in Nat
  BY TapeSizes
<1>2. /\ win' \in Stream /\ W = rest + got /\ got \in Nat
      /\ ~loop => got <= N - fd
  BY ReadBrings
<1>3. W \in Nat /\ W # 0
  <2>1. W \in Nat
    BY <1>1, <1>2
  <2>2. win' = <<>> \/ W # 0
    BY <1>2, EmptySeq DEF Stream
  <2>3. QED BY <2>1, <2>2
<1>4. got = LesserOf(fcap - rest, Len(Supply))
  <2>1. ~Trouble
    BY Sizes DEF Trouble, Troubled
  <2>2. got = LesserOf(fcap - Len(Kept), Len(Supply))
    BY <2>1 DEF Read
  <2>3. IsPart(SubSeq(win, fpos + 1, Len(win)), win, fpos, Len(win))
    <3>1. win \in Stream /\ Len(win) <= Len(win) /\ fpos <= Len(win)
      BY <1>1, TapeSizes DEF OnTape
    <3>2. QED BY ONLY <1>1, <3>1, PartOf
  <2>4. Len(Kept) = rest
    BY <2>3 DEF IsPart, Kept
  <2>5. QED BY <2>2, <2>4
<1>5. Len(Supply) = N - fd + (IF loop THEN N ELSE 0)
  BY SupplyIs
<1>6. (next + rest) % N = fd % N
  BY DEF Ahead
<1>7. ~loop => next + rest = fd \/ (fd = N /\ next = 0 /\ rest = 0)
  <2>1. Len(win) = fpos => rest = 0
    BY <1>1
  <2>2. QED BY <2>1 DEF Once
<1>8. n \in Nat /\ n >= 2 /\ next + n <= N /\ n + 2 <= fcap
      /\ (next + n < N => next + n + 2 <= N)
  OBVIOUS
<1>9. CASE ~loop
  <2>1. next + rest = fd
    <3>1. CASE fd = N /\ next = 0 /\ rest = 0
      <4>1. W = 0
        BY <1>1, <1>2, <1>9, <3>1
      <4>2. QED BY <1>3, <4>1
    <3>2. QED BY <1>7, <1>9, <3>1
  <2> HIDE DEF N, rest, W
  <2>2. Len(Supply) = N - fd /\ Len(Supply) \in Nat
    BY <1>1, <1>5, <1>9
  <2>3. W = fcap \/ W = N - next
    BY <1>1, <1>2, <1>4, <2>1, <2>2 DEF LesserOf
  <2>4. W <= N - next
    BY <1>1, <1>2, <1>9, <2>1
  <2>5. n <= W /\ (W = n \/ (n + 2 <= W /\ next + n # N))
    BY ONLY <1>1, <1>3, <1>8, <2>3, <2>4
  <2>6. QED BY <2>5 DEF N, W
<1>10. CASE loop
  <2> DEFINE a == next + rest
  <2>1. a \in Nat /\ fd \in 0 .. N
    BY <1>1
  <2>2. a >= fd \/ (fd = N /\ a = 0)
    <3> HIDE DEF N, a
    <3>1. ASSUME a < fd PROVE fd = N /\ a = 0
      <4>1. a \in 0 .. N - 1
        BY <1>1, <2>1, <3>1
      <4>2. a % N = a
        BY ONLY <1>1, <4>1, ModSmall
      <4>3. CASE fd = N
        <5>1. fd = N * 1 + 0 /\ 0 \in 0 .. N - 1 /\ 1 \in Int /\ fd \in Int
          BY <1>1, <4>3
        <5>2. fd % N = 0
          BY ONLY <1>1, <5>1, ModUnique
        <5>3. QED BY <1>6, <4>2, <4>3, <5>2 DEF a
      <4>4. CASE fd # N
        <5>1. fd \in 0 .. N - 1
          BY <1>1, <4>4
        <5>2. fd % N = fd
          BY ONLY <1>1, <5>1, ModSmall
        <5>3. QED BY <1>6, <2>1, <3>1, <4>2, <5>2 DEF a
      <4>5. QED BY <4>3, <4>4
    <3>2. QED BY <1>1, <2>1, <3>1
  <2> HIDE DEF N, rest, W
  <2>3. Len(Supply) = N - fd + N /\ Len(Supply) \in Nat
    BY <1>1, <1>5, <1>10
  <2>4. W = fcap \/ W = rest + (N - fd + N)
    BY <1>1, <1>2, <1>4, <2>3 DEF LesserOf
  <2>5. CASE a >= fd
    <3>1. W = fcap \/ W >= N - next + N
      BY ONLY <1>1, <2>4, <2>5 DEF a
    <3>2. n + 2 <= W
      BY ONLY <1>1, <1>3, <1>8, <3>1
    <3>3. QED BY <1>3, <1>8, <1>10, <3>2 DEF W
  <2>6. CASE fd = N /\ a = 0
    <3>1. next = 0 /\ rest = 0
      BY <1>1, <2>6 DEF a
    <3>2. W = fcap \/ W = N
      BY <1>1, <2>4, <2>6, <3>1
    <3>3. n <= W /\ (W = n \/ n + 2 <= W)
      BY ONLY <1>1, <1>3, <1>8, <3>1, <3>2
    <3>4. QED BY <1>10, <3>3 DEF W
  <2>7. QED BY <2>2, <2>5, <2>6
<1>11. QED BY <1>9, <1>10

\* A turn that begins where a whole picture lies feeds that picture.
LEMMA FeedExpects ==
    ASSUME LiveInv, ReplayInv, ExpectInv, FeedUnit
    PROVE  ExpectInv'
<1>1. phase = "replay" /\ running /\ OnTape /\ Ahead /\ Once /\ Told /\ Troubled
  BY DEF FeedUnit, ReplayInv
<1>2. PICK got \in 0 .. fcap : Read(got)
  BY DEF FeedUnit
<1>3. PICK junk \in NalTypes :
        /\ unit' = [data |-> SubSeq(win', 1, au_end(win', is_h265, junk)), from |-> <<next>>]
        /\ fpos' = au_end(win', is_h265, junk)
        /\ next' = (next + au_end(win', is_h265, junk)) % Len(file)
  BY DEF FeedUnit
<1>4. /\ win' # <<>> /\ phase' = phase /\ loop' = loop /\ file' = file /\ expected' = expected
      /\ is_h265' = is_h265
  BY DEF FeedUnit, senderVars
<1>5. /\ win' \in Stream
      /\ \A x \in 1 .. Len(win') : win'[x] = Along(file, next + (x - 1))
  BY ONLY <1>1, <1>2, ReadBrings
<1>6. /\ Len(file) \in Nat \ {0} /\ next \in Nat /\ next < Len(file) /\ file \in Stream
      /\ file # <<>>
  BY <1>1, TapeSizes DEF OnTape
<1>7. \A p \in expected : Lies(file, loop, p)
  BY <1>1 DEF ExpectInv
<1>8. ASSUME NEW p \in expected, troubles' = 0, next = p.at, Len(p.data) + 2 <= fcap
      PROVE  SubSeq(win', 1, au_end(win', is_h265, junk)) = p.data
  <2> DEFINE d == p.data
             n == Len(d)
             b == win'
  <2>1. /\ Whole(d) /\ next + n <= Len(file)
        /\ \A x \in 1 .. n : file[next + x] = d[x]
        /\ next + n < Len(file) => Heads(file, next + n)
        /\ next + n = Len(file) /\ loop => Heads(file, 0)
    BY <1>7, <1>8 DEF Lies
  <2>2. d \in Stream /\ n \in Nat /\ n >= 2
    BY <2>1 DEF Whole, Stream
  <2>3. next + n < Len(file) => next + n + 2 <= Len(file)
    BY <2>1 DEF Heads
  <2> HIDE DEF n, d
  <2>4. n + 2 <= fcap
    BY <1>8 DEF n, d
  <2>5. /\ n <= Len(b)
        /\ Len(b) = n \/ (n + 2 <= Len(b) /\ (next + n = Len(file) => loop))
    BY ONLY <1>1, <1>2, <1>4, <1>8, <2>1, <2>2, <2>3, <2>4, WindowIsFilled
  <2>6. Len(b) \in Nat
    BY <1>5 DEF Stream
  <2>7. ASSUME NEW x \in 1 .. n PROVE b[x] = d[x]
    <3> DEFINE a == next + (x - 1)
    <3>1. a \in 0 .. Len(file) - 1 /\ a \in Int /\ a + 1 = next + x
      BY <1>6, <2>1, <2>2
    <3>2. x \in 1 .. Len(b)
      BY <2>2, <2>5, <2>6
    <3>3. b[x] = Along(file, a)
      BY <1>5, <3>2
    <3> HIDE DEF a
    <3>4. Along(file, a) = file[a + 1]
      BY ONLY <1>6, <3>1, AlongOnce
    <3>5. QED BY <2>1, <3>1, <3>3, <3>4
  <2>8. Len(b) = n \/ Heads(b, n)
    <3> SUFFICES ASSUME n + 2 <= Len(b), next + n = Len(file) => loop PROVE Heads(b, n)
      BY <2>5
    <3> DEFINE y == next + n
               z == next + n + 1
    <3>1. /\ y \in Int /\ z \in Int /\ z = y + 1 /\ y = next + ((n + 1) - 1)
          /\ z = next + ((n + 2) - 1) /\ n + 1 \in 1 .. Len(b) /\ n + 2 \in 1 .. Len(b)
      BY <1>6, <2>2, <2>6
    <3>2. b[n + 1] = Along(file, y) /\ b[n + 2] = Along(file, z)
      <4>1. \A x \in 1 .. Len(b) : b[x] = Along(file, next + (x - 1))
        BY <1>5
      <4> HIDE DEF y, z
      <4>2. b[n + 1] = Along(file, next + ((n + 1) - 1))
        BY ONLY <3>1, <4>1
      <4>3. b[n + 2] = Along(file, next + ((n + 2) - 1))
        BY ONLY <3>1, <4>1
      <4>4. QED BY ONLY <3>1, <4>2, <4>3
    <3>3. CASE y < Len(file)
      <4>1. Heads(file, y) /\ y + 2 <= Len(file)
        BY <2>1, <3>3 DEF Heads
      <4>2. y \in 0 .. Len(file) - 1 /\ z \in 0 .. Len(file) - 1
        BY <1>6, <2>2, <4>1
      <4> HIDE DEF y, z
      <4>3. Along(file, y) = file[y + 1]
        BY ONLY <1>6, <3>1, <4>2, AlongOnce
      <4>4. Along(file, z) = file[z + 1]
        BY ONLY <1>6, <3>1, <4>2, AlongOnce
      <4>5. z + 1 = y + 2
        BY <3>1
      <4>6. b[n + 1] = start_code /\ Starting(b[n + 2][1])
        BY <3>2, <4>1, <4>3, <4>4, <4>5 DEF Heads
      <4>7. QED BY <4>6 DEF Heads
    <3>4. CASE ~(y < Len(file))
      <4>1. y = Len(file) /\ loop
        BY <1>6, <2>1, <2>2, <3>4
      <4>2. Heads(file, 0)
        BY <2>1, <4>1
      <4>3. 0 + 2 = 2 /\ 0 + 1 = 1 /\ 2 <= Len(file)
        BY <4>2 DEF Heads
      <4>4. /\ y \in Len(file) .. Len(file) + Len(file) - 1
            /\ z \in Len(file) .. Len(file) + Len(file) - 1
            /\ y - Len(file) + 1 = 1 /\ z - Len(file) + 1 = 2
        BY <1>6, <4>1, <4>3
      <4> HIDE DEF y, z
      <4>5. Along(file, y) = file[y - Len(file) + 1]
        BY ONLY <1>6, <3>1, <4>4, AlongOnce
      <4>6. Along(file, z) = file[z - Len(file) + 1]
        BY ONLY <1>6, <3>1, <4>4, AlongOnce
      <4>7. file[1] = start_code /\ Starting(file[2][1])
        BY <4>2, <4>3 DEF Heads
      <4>8. b[n + 1] = start_code /\ Starting(b[n + 2][1])
        BY <3>2, <4>4, <4>5, <4>6, <4>7
      <4>9. QED BY <4>8 DEF Heads
    <3>5. QED BY <3>3, <3>4
  <2>9. au_end(b, is_h265, junk) = n
    <3>1. PICK c : c = b
      OBVIOUS
    <3>2. /\ c \in Stream /\ n <= Len(c)
          /\ \A x \in 1 .. n : c[x] = d[x]
          /\ Len(c) = n \/ Heads(c, n)
      BY <1>5, <2>5, <2>7, <2>8, <3>1
    <3>3. au_end(c, is_h265, junk) = Len(d)
      BY ONLY <2>1, <3>2, EndIsFound DEF n
    <3>4. QED BY ONLY <3>1, <3>3 DEF n
  <2>10. SubSeq(b, 1, n) = d
    <3>1. 0 \in Nat /\ 0 <= n /\ 0 + 1 = 1
      BY <2>2
    <3> HIDE DEF b
    <3>2. IsPart(SubSeq(b, 0 + 1, n), b, 0, n)
      BY ONLY <1>5, <2>2, <2>5, <3>1, PartOf DEF b
    <3> DEFINE c == SubSeq(b, 1, n)
    <3>3. IsPart(c, b, 0, n)
      BY ONLY <3>1, <3>2
    <3> HIDE DEF c
    <3>4. c \in Stream /\ Len(c) = n - 0 /\ \A x \in 1 .. n - 0 : c[x] = b[0 + x]
      BY <3>3 DEF IsPart
    <3>5. c \in Seq(Symbol) /\ d \in Seq(Symbol) /\ Len(c) = Len(d)
      BY <2>2, <3>4 DEF Stream, n
    <3>6. \A x \in 1 .. Len(c) : c[x] = d[x]
      BY <2>2, <2>7, <3>4
    <3>7. c = d
      BY <3>5, <3>6, SeqEqual
    <3>8. QED BY <3>7 DEF c
  <2>11. QED BY <2>9, <2>10 DEF b, d
<1>9. PicturesAreReplayed'
  <2> SUFFICES ASSUME troubles' = 0, NEW p \in expected', unit'.from = <<p.at>>,
                      Len(p.data) + 2 <= fcap
               PROVE  unit'.data = p.data
    BY DEF PicturesAreReplayed
  <2>1. p \in expected /\ unit'.data = SubSeq(win', 1, au_end(win', is_h265, junk))
        /\ unit'.from = <<next>>
    BY <1>3, <1>4
  <2>2. next = p.at
    BY <2>1
  <2>3. QED BY <1>8, <2>1, <2>2
<1>10. \A p \in expected' : Lies(file, loop, p)'
  <2>1. PICK f, again : f = file /\ again = loop
    OBVIOUS
  <2>2. ASSUME NEW p \in expected' PROVE Lies(file, loop, p)'
    <3>1. Lies(f, again, p)' <=> Lies(f, again, p)
      BY ONLY <1>4, LiesStays
    <3>2. Lies(f, again, p)
      BY <1>4, <1>7, <2>1
    <3>3. Lies(f, again, p)'
      BY ONLY <3>1, <3>2
    <3>4. f = file' /\ again = loop'
      BY <1>4, <2>1
    <3>5. QED BY ONLY <3>3, <3>4 DEF Lies
  <2>3. QED BY ONLY <2>2
<1>11. QED BY <1>9, <1>10 DEF ExpectInv

\* Every step keeps what is expected where it is.
LEMMA NextKeepsExpected ==
    ASSUME VideoInv, ExpectInv, [Next]_vars
    PROVE  ExpectInv'
<1>0. LiveInv /\ ReplayInv
  BY DEF VideoInv
<1>1. CASE LiveStep
  <2>1. phase' = "live"
    BY <1>1 DEF LiveStep, replayVars
  <2>2. QED BY <2>1 DEF ExpectInv
<1>2. CASE StartReplay
  BY <1>0, <1>2, StartExpects
<1>3. CASE FeedUnit
  BY <1>0, <1>3, FeedExpects
<1>4. CASE NothingToFeed \/ LoopEnds
  <2>1. phase' = "ended"
    BY <1>4 DEF NothingToFeed, LoopEnds, Ends
  <2>2. QED BY <2>1 DEF ExpectInv
<1>5. ASSUME UNCHANGED <<phase, loop, file, expected, is_h265>>, PicturesAreReplayed'
      PROVE  ExpectInv'
  <2> SUFFICES ASSUME phase = "replay", NEW p \in expected' PROVE Lies(file, loop, p)'
    BY <1>5 DEF ExpectInv
  <2>1. PICK f, again : f = file /\ again = loop
    OBVIOUS
  <2>2. Lies(f, again, p)' <=> Lies(f, again, p)
    BY ONLY <1>5, LiesStays
  <2>3. Lies(f, again, p)
    BY <1>5, <2>1 DEF ExpectInv
  <2>4. Lies(f, again, p)'
    BY ONLY <2>2, <2>3
  <2>5. f = file' /\ again = loop'
    BY <1>5, <2>1
  <2>6. QED BY ONLY <2>4, <2>5 DEF Lies
<1>6. CASE Signal
  <2>1. UNCHANGED <<phase, loop, file, expected, is_h265>>
    BY <1>6 DEF Signal, liveVars, senderVars
  <2>2. troubles' # 0
    BY <1>0, <1>6, Sizes DEF Signal, Trouble, ReplayInv, Troubled
  <2>3. PicturesAreReplayed'
    BY <2>2 DEF PicturesAreReplayed
  <2>4. QED BY <1>5, <2>1, <2>3
<1>7. CASE UNCHANGED vars
  <2>1. /\ UNCHANGED <<phase, loop, file, expected, is_h265>>
        /\ unit' = unit /\ troubles' = troubles
    BY <1>7 DEF vars, liveVars, senderVars, replayVars
  <2>2. CASE phase = "replay"
    <3>1. PicturesAreReplayed'
      BY <2>1, <2>2 DEF ExpectInv, PicturesAreReplayed
    <3>2. QED BY <1>5, <2>1, <3>1
  <2>3. CASE phase # "replay"
    BY <2>1, <2>3 DEF ExpectInv
  <2>4. QED BY <2>2, <2>3
<1>8. QED BY <1>1, <1>2, <1>3, <1>4, <1>6, <1>7 DEF Next, Replay

\* What VDEC was given live it is given again: a turn of a replay nobody disturbs
\* that begins where a whole picture lies in the file feeds exactly that picture,
\* if the window can hold it and the start of the next (au_end, fcap), whatever
\* the units of the recording are and wherever the file was cut off.
THEOREM PicturesComeAgain == Spec => []PicturesAreReplayed
<1>1. Init => ExpectInv
  BY DEF Init, ExpectInv
<1>2. VideoInv /\ ExpectInv /\ [Next]_vars => ExpectInv'
  BY NextKeepsExpected
<1>3. ExpectInv => PicturesAreReplayed
  BY DEF ExpectInv, PicturesAreReplayed
<1>4. QED BY <1>1, <1>2, <1>3, VideoInvariant, PTL DEF Spec
==============================================================================
