--------------------------- MODULE ApBusReaderProofs ---------------------------
(***************************************************************************)
(* Proofs about ApBusReader: one port, buffers and timeouts of any size;   *)
(* every line for the types, every line that is fair for the rest.         *)
(***************************************************************************)
EXTENDS ApBusReader, SequenceTheorems, WellFoundedInduction, TLAPS

\* serial_pt_data belongs to one port.
OnePort == \A p, q \in Ports : p = q

--------------------------------------------------------------------------------
(* Natural numbers                                                         *)

Less == {ss \in Nat \X Nat : ss[1] < ss[2]}

LEMMA LessIsWellFounded == IsWellFoundedOn(Less, Nat)
BY NatLessThanWellFounded DEF OpToRel, Less

LEMMA Least ==
  ASSUME NEW T, T \subseteq Nat, T # {}
  PROVE  \E x \in T : \A y \in T : x <= y
<1>1. PICK x \in T : \A y \in T : ~ (<<y, x>> \in Less)
  BY LessIsWellFounded, WFMin
<1>2. ASSUME NEW y \in T PROVE x <= y
  <2>1. x \in Nat /\ y \in Nat /\ ~ (<<y, x>> \in Less)
    BY <1>1
  <2>2. ~ (y < x)
    BY <2>1 DEF Less
  <2>3. QED
    BY <2>1, <2>2
<1>3. QED
  BY <1>2

LEMMA Induct ==
  ASSUME NEW S, 0 \in S, \A n \in Nat : n \in S => n + 1 \in S
  PROVE  Nat \subseteq S
<1> SUFFICES ASSUME Nat \ S # {} PROVE FALSE
  OBVIOUS
<1>1. PICK x \in Nat \ S : \A y \in Nat \ S : x <= y
  BY Least
<1>2. x # 0 /\ x - 1 \in Nat
  BY <1>1
<1>3. x - 1 \in S
  BY <1>1, <1>2
<1>4. QED
  BY <1>1, <1>2, <1>3

--------------------------------------------------------------------------------
(* The undamaged frames of a line                                          *)

LEMMA FoundIs ==
  ASSUME NEW s \in Seq(Bytes)
  PROVE  /\ GoodFramesIn(s, 0) = <<>>
         /\ \A n \in 1 .. Len(s) :
              GoodFramesIn(s, n) = IF Opens(s[n]) THEN Append(GoodFramesIn(s, n - 1), s[n].frame)
                                                  ELSE GoodFramesIn(s, n - 1)
         /\ \A n \in 0 .. Len(s) : GoodFramesIn(s, n) \in Seq(Nat)
<1> DEFINE N == Len(s)
           Next1(g, i) == IF i = 0 THEN <<>>
                          ELSE IF Opens(s[i]) THEN Append(g[i - 1], s[i].frame) ELSE g[i - 1]
           Found(g) == [i \in 0 .. N |-> IF i = 0 THEN <<>>
                                         ELSE IF Opens(s[i]) THEN Append(g[i - 1], s[i].frame) ELSE g[i - 1]]
           f == CHOOSE g : g = Found(g)
<1>1. N \in Nat /\ \A i \in 1 .. N : s[i].frame \in Nat
  <2>1. N \in Nat /\ \A i \in 1 .. N : s[i] \in Bytes
    OBVIOUS
  <2>2. QED
    BY <2>1 DEF Bytes
<1> HIDE DEF N
<1>2. \E g \in [0 .. N -> Seq(Nat)] : g = Found(g)
  <2> DEFINE Part(g, m) == \A i \in 0 .. m : g[i] = Next1(g, i)
             Have == {m \in Nat : m <= N => \E g \in [0 .. m -> Seq(Nat)] : Part(g, m)}
  <2>1. 0 \in Have
    <3> DEFINE g == [i \in 0 .. 0 |-> <<>>]
    <3>1. g \in [0 .. 0 -> Seq(Nat)] /\ Part(g, 0)
      OBVIOUS
    <3>2. QED
      BY <3>1
  <2>2. ASSUME NEW m \in Nat, m \in Have PROVE m + 1 \in Have
    <3> HIDE DEF Part
    <3> SUFFICES ASSUME m + 1 <= N PROVE \E g \in [0 .. m + 1 -> Seq(Nat)] : Part(g, m + 1)
      OBVIOUS
    <3>1. PICK h \in [0 .. m -> Seq(Nat)] : Part(h, m)
      BY <1>1, <2>2
    <3> USE DEF Part
    <3> DEFINE x == IF Opens(s[m + 1]) THEN Append(h[m], s[m + 1].frame) ELSE h[m]
               g == [i \in 0 .. m + 1 |-> IF i = m + 1 THEN x ELSE h[i]]
    <3>2. x \in Seq(Nat)
      <4>1. h[m] \in Seq(Nat) /\ s[m + 1].frame \in Nat
        BY <1>1
      <4>2. QED
        BY <4>1
    <3> HIDE DEF x
    <3>3. g \in [0 .. m + 1 -> Seq(Nat)]
      BY <3>2
    <3>4. ASSUME NEW i \in 0 .. m + 1 PROVE g[i] = Next1(g, i)
      <4>1. CASE i = m + 1
        <5>1. g[m + 1] = x /\ g[m] = h[m] /\ m + 1 # 0 /\ (m + 1) - 1 = m
          OBVIOUS
        <5> HIDE DEF g
        <5>2. QED
          BY <4>1, <5>1 DEF x
      <4>2. CASE i \in 0 .. m
        <5>1. g[i] = h[i] /\ (i # 0 => g[i - 1] = h[i - 1])
          BY <4>2
        <5> HIDE DEF g
        <5>2. h[i] = Next1(h, i)
          BY <3>1, <4>2
        <5>3. QED
          BY <5>1, <5>2
      <4>3. QED
        BY <4>1, <4>2
    <3> HIDE DEF g
    <3>5. QED
      BY <3>3, <3>4
  <2> HIDE DEF Have
  <2>3. N \in Have
    BY <1>1, <2>1, <2>2, Induct
  <2>4. \E g \in [0 .. N -> Seq(Nat)] : Part(g, N)
    <3>1. N <= N
      BY <1>1
    <3>2. QED
      BY <1>1, <2>3, <3>1 DEF Have
  <2>5. PICK g \in [0 .. N -> Seq(Nat)] : Part(g, N)
    BY <2>4
  <2>6. g = [i \in 0 .. N |-> Next1(g, i)]
    BY <2>5
  <2>7. QED
    BY <2>6
<1>3. f = Found(f)
  BY <1>2
<1> HIDE DEF f
<1>4. f[0] = <<>> /\ \A n \in 1 .. N : f[n] = IF Opens(s[n]) THEN Append(f[n - 1], s[n].frame) ELSE f[n - 1]
  <2>1. 0 \in 0 .. N
    BY <1>1
  <2>2. f[0] = <<>>
    BY <1>3, <2>1
  <2>3. ASSUME NEW n \in 1 .. N
        PROVE  f[n] = IF Opens(s[n]) THEN Append(f[n - 1], s[n].frame) ELSE f[n - 1]
    <3>1. n \in 0 .. N /\ n # 0
      BY <1>1
    <3>2. QED
      BY <1>3, <3>1
  <2>4. QED
    BY <2>2, <2>3
<1>5. \A n \in 0 .. N : f[n] \in Seq(Nat)
  <2> DEFINE Ok == {n \in Nat : n <= N => f[n] \in Seq(Nat)}
  <2>1. 0 \in Ok
    <3>1. <<>> \in Seq(Nat)
      OBVIOUS
    <3>2. QED
      BY <1>4, <3>1
  <2>2. ASSUME NEW n \in Nat, n \in Ok PROVE n + 1 \in Ok
    <3> SUFFICES ASSUME n + 1 <= N PROVE f[n + 1] \in Seq(Nat)
      OBVIOUS
    <3>1. n + 1 \in 1 .. N /\ (n + 1) - 1 = n /\ f[n] \in Seq(Nat) /\ s[n + 1].frame \in Nat
      BY <1>1, <2>2
    <3>2. f[n + 1] = IF Opens(s[n + 1]) THEN Append(f[n], s[n + 1].frame) ELSE f[n]
      BY <1>4, <3>1
    <3>3. QED
      BY <3>1, <3>2
  <2> HIDE DEF Ok
  <2>3. Nat \subseteq Ok
    BY <2>1, <2>2, Induct
  <2>4. QED
    BY <1>1, <2>3 DEF Ok
<1>6. \A n : GoodFramesIn(s, n) = f[n]
  BY DEF GoodFramesIn, f, N
<1>7. QED
  BY <1>4, <1>5, <1>6 DEF N

\* A part of the line in which no undamaged frame begins adds none.
LEMMA NoneFound ==
  ASSUME NEW s \in Seq(Bytes), NEW b \in Nat, NEW c \in Nat, b <= c, c <= Len(s),
         \A k \in b + 1 .. c : ~Opens(s[k])
  PROVE  GoodFramesIn(s, c) = GoodFramesIn(s, b)
<1> DEFINE Same == {n \in Nat : b + n <= c => GoodFramesIn(s, b + n) = GoodFramesIn(s, b)}
<1>1. 0 \in Same
  OBVIOUS
<1>2. ASSUME NEW n \in Nat, n \in Same PROVE n + 1 \in Same
  <2> SUFFICES ASSUME b + (n + 1) <= c PROVE GoodFramesIn(s, b + (n + 1)) = GoodFramesIn(s, b)
    OBVIOUS
  <2>1. b + (n + 1) \in 1 .. Len(s) /\ b + (n + 1) - 1 = b + n /\ b + (n + 1) \in b + 1 .. c /\ b + n <= c
    OBVIOUS
  <2>2. GoodFramesIn(s, b + (n + 1)) = GoodFramesIn(s, b + n)
    BY <2>1, FoundIs
  <2>3. QED
    BY <1>2, <2>1, <2>2
<1> HIDE DEF Same
<1>3. c - b \in Same
  BY <1>1, <1>2, Induct
<1>4. b + (c - b) = c
  OBVIOUS
<1>5. QED
  BY <1>3, <1>4 DEF Same

\* Behind more of the line there are those found before and perhaps others.
LEMMA FoundBefore ==
  ASSUME NEW s \in Seq(Bytes), NEW b \in 0 .. Len(s)
  PROVE  IsPrefix(GoodFramesIn(s, b), GoodFrames(s))
<1> DEFINE had == GoodFramesIn(s, b)
           Has(g) == Len(had) <= Len(g) /\ \A i \in 1 .. Len(had) : g[i] = had[i]
           Good == {n \in Nat : b + n <= Len(s) => Has(GoodFramesIn(s, b + n))}
<1>1. had \in Seq(Nat)
  BY FoundIs
<1>2. 0 \in Good
  <2>1. b + 0 = b /\ Len(had) \in Nat
    BY <1>1
  <2>2. QED
    BY <2>1
<1>3. ASSUME NEW n \in Nat, n \in Good PROVE n + 1 \in Good
  <2> SUFFICES ASSUME b + (n + 1) <= Len(s) PROVE Has(GoodFramesIn(s, b + (n + 1)))
    OBVIOUS
  <2> DEFINE g == GoodFramesIn(s, b + n)
             h == GoodFramesIn(s, b + (n + 1))
             x == s[b + (n + 1)].frame
  <2>1. b + (n + 1) \in 1 .. Len(s) /\ b + (n + 1) - 1 = b + n /\ b + n \in 0 .. Len(s) /\ Has(g)
    BY <1>3
  <2>2. g \in Seq(Nat) /\ (h = g \/ h = Append(g, x))
    BY <2>1, FoundIs
  <2>3. x \in Nat
    <3>1. s[b + (n + 1)] \in Bytes
      BY <2>1
    <3>2. QED
      BY <3>1 DEF Bytes
  <2> HIDE DEF had, g, h, x
  <2>4. CASE h = g
    BY <2>1, <2>4 DEF g, h
  <2>5. CASE h = Append(g, x)
    <3>1. Len(h) = Len(g) + 1 /\ \A i \in 1 .. Len(g) : h[i] = g[i]
      BY <2>2, <2>3, <2>5, AppendProperties
    <3>2. Has(h)
      BY <1>1, <2>1, <2>2, <3>1
    <3>3. QED
      BY <3>2 DEF h
  <2>6. QED
    BY <2>2, <2>4, <2>5
<1> HIDE DEF Good
<1>4. Len(s) - b \in Good
  BY <1>2, <1>3, Induct
<1>5. Has(GoodFrames(s))
  <2>1. b + (Len(s) - b) = Len(s)
    OBVIOUS
  <2>2. QED
    BY <1>4, <2>1 DEF Good, GoodFrames
<1> DEFINE all == GoodFrames(s)
<1>6. all \in Seq(Nat)
  BY FoundIs DEF GoodFrames
<1> HIDE DEF had, all
<1>7. SubSeq(all, 1, Len(had)) = SubSeq(had, 1, Len(had))
  <2>1. SubSeq(all, 1, Len(had)) = [i \in 1 .. Len(had) |-> all[i]] /\ SubSeq(had, 1, Len(had)) = [i \in 1 .. Len(had) |-> had[i]]
    BY <1>1, <1>5, <1>6 DEF all
  <2>2. QED
    BY <1>5, <2>1 DEF all
<1>8. QED
  BY <1>1, <1>5, <1>7 DEF IsPrefix, all, had

--------------------------------------------------------------------------------
(* Frames on the line                                                      *)

\* A length is a number that a frame can have.
LEMMA LengthIs ==
  ASSUME NEW s \in Seq(Bytes), NEW k \in Nat \ {0}, k + 3 <= Len(s)
  PROVE  LengthAt(s, k) \in Nat /\ FrameLen(LengthAt(s, k)) \in Nat /\ FrameLen(LengthAt(s, k)) >= 6
<1>1. s[k + 2] \in Bytes /\ s[k + 3] \in Bytes
  <2>1. k + 2 \in 1 .. Len(s) /\ k + 3 \in 1 .. Len(s)
    OBVIOUS
  <2>2. QED
    BY <2>1
<1> DEFINE a == s[k + 2].value
           c == s[k + 3].value
<1>2. a \in Nat /\ c \in Nat /\ LengthAt(s, k) = a + 256 * c
  BY <1>1 DEF Bytes, LengthAt
<1> HIDE DEF a, c
<1>3. QED
  BY <1>2 DEF FrameLen, Fixed

LEMMA FrameIs ==
  ASSUME NEW s \in Seq(Bytes), NEW f \in FramesOf(s)
  PROVE  /\ f[1] \in 1 .. Len(s) /\ f[2] \in 1 .. Len(s) /\ f[1] + 5 <= f[2] /\ f = <<f[1], f[2]>>
         /\ s[f[1]].value = BC /\ s[f[1] + 1].value = CB /\ LengthAt(s, f[1]) \in Nat
         /\ f[2] = f[1] + FrameLen(LengthAt(s, f[1])) - 1
         /\ \A k \in f[1] .. f[2] :
              s[k].frame = s[f[1]].frame /\ s[k].pos = k - f[1] + 1 /\ s[k].ok = s[f[1]].ok
<1> DEFINE o == f[1]
           e == f[2]
<1>1. f \in (1 .. Len(s)) \X (1 .. Len(s)) /\ IsFrame(s, o, e)
  BY DEF FramesOf
<1>2. o \in 1 .. Len(s) /\ e \in 1 .. Len(s) /\ f = <<o, e>>
  BY <1>1
<1>3. /\ o + 3 <= e /\ s[o].value = BC /\ s[o + 1].value = CB /\ e = o + FrameLen(LengthAt(s, o)) - 1
      /\ \A k \in o .. e : s[k].frame = s[o].frame /\ s[k].pos = k - o + 1 /\ s[k].ok = s[o].ok
  BY <1>1 DEF IsFrame
<1>4. o \in Nat \ {0} /\ o + 3 <= Len(s)
  BY <1>2, <1>3
<1>5. LengthAt(s, o) \in Nat /\ FrameLen(LengthAt(s, o)) \in Nat /\ FrameLen(LengthAt(s, o)) >= 6
  BY <1>4, LengthIs
<1>6. o + 5 <= e
  <2> DEFINE v == FrameLen(LengthAt(s, o))
  <2>1. o \in Nat /\ v \in Nat /\ v >= 6 /\ e = o + v - 1
    BY <1>2, <1>3, <1>5
  <2> HIDE DEF v, o, e
  <2>2. QED
    BY <2>1
<1>7. QED
  BY <1>2, <1>3, <1>5, <1>6

LEMMA FrameEnds ==
  ASSUME NEW s \in Seq(Bytes), NEW f \in FramesOf(s)
  PROVE  f[1] \in Nat /\ f[2] \in Nat /\ f[1] + 5 <= f[2]
<1>1. f[1] \in 1 .. Len(s) /\ f[2] \in 1 .. Len(s) /\ f[1] + 5 <= f[2]
  BY FrameIs
<1>2. QED
  BY <1>1

\* No byte is in two frames.
LEMMA FramesApart ==
  ASSUME NEW s \in Seq(Bytes), NEW f \in FramesOf(s), NEW g \in FramesOf(s), NEW k,
         k \in f[1] .. f[2], k \in g[1] .. g[2]
  PROVE  f = g
<1>1. s[k].pos = k - f[1] + 1 /\ s[k].pos = k - g[1] + 1
  <2>1. s[k].pos = k - f[1] + 1
    BY FrameIs
  <2>2. s[k].pos = k - g[1] + 1
    BY FrameIs
  <2>3. QED
    BY <2>1, <2>2
<1>2. f[1] \in Nat /\ g[1] \in Nat /\ k \in Int
  BY FrameEnds
<1>3. f[1] = g[1]
  BY <1>1, <1>2
<1>4. f[2] = g[2]
  <2>1. f[2] = f[1] + FrameLen(LengthAt(s, f[1])) - 1 /\ g[2] = g[1] + FrameLen(LengthAt(s, g[1])) - 1
    BY FrameIs
  <2>2. QED
    BY <1>3, <2>1
<1>5. QED
  BY <1>3, <1>4, FrameIs

\* What is ahead at a byte is ahead at those before.
LEMMA AheadBefore ==
  ASSUME NEW s \in Seq(Bytes), NEW k \in Nat, NEW j \in Nat, k <= j, Ahead(s, j)
  PROVE  Ahead(s, k)
BY DEF Ahead

\* Bytes 1 to b end inside no frame that, or behind which, an undamaged one comes.
Outside(s, b) == \A f \in FramesOf(s) : Ahead(s, f[1]) => b < f[1] \/ f[2] <= b

\* Such a frame begins behind byte b.
IsDue(s, b) == Ahead(s, b + 1) /\ \E f \in FramesOf(s) : f[1] = b + 1

LEMMA HeaderOpens ==
  ASSUME NEW s \in Seq(Bytes), LineIsFair(s), NEW b \in Nat, b + 2 <= Len(s), Outside(s, b),
         s[b + 1].value = BC, s[b + 2].value = CB, Ahead(s, b + 1)
  PROVE  IsDue(s, b)
<1>1. b + 1 \in DOMAIN s /\ (b + 1) + 1 = b + 2 /\ b + 1 < Len(s)
  OBVIOUS
<1>2. Header(s, b + 1)
  BY <1>1 DEF Header
<1>3. PICK f \in FramesOf(s) : f[1] <= b + 1 /\ b + 1 < f[2]
  BY <1>1, <1>2 DEF LineIsFair
<1>4. f[1] \in Nat /\ f[2] \in Nat
  BY FrameEnds
<1>5. Ahead(s, f[1])
  BY <1>3, <1>4, AheadBefore
<1>6. f[1] = b + 1
  BY <1>3, <1>4, <1>5 DEF Outside
<1>7. QED
  BY <1>6 DEF IsDue

\* What the reader drops when no frame is due.
LEMMA DropsNothing ==
  ASSUME NEW s \in Seq(Bytes), LineIsFair(s), NEW b \in Nat, NEW c \in Nat, b <= c, c <= Len(s),
         Outside(s, b), c = b \/ (c = b + 1 /\ ~IsDue(s, b)) \/ ~Ahead(s, b + 1)
  PROVE  Outside(s, c) /\ GoodFramesIn(s, c) = GoodFramesIn(s, b) /\ (c > b => ~Opens(s[b + 1]))
<1>1. CASE c = b
  BY <1>1
<1>2. CASE c = b + 1 /\ ~IsDue(s, b)
  <2>1. ~Opens(s[b + 1])
    <3>1. SUFFICES ASSUME Opens(s[b + 1]) PROVE FALSE
      OBVIOUS
    <3>2. b + 1 \in DOMAIN s /\ b + 1 \in b + 1 .. Len(s)
      BY <1>2
    <3>3. Ahead(s, b + 1) /\ \E f \in FramesOf(s) : f[1] = b + 1
      BY <3>1, <3>2 DEF Ahead, LineIsFair
    <3>4. QED
      BY <1>2, <3>3 DEF IsDue
  <2>2. GoodFramesIn(s, c) = GoodFramesIn(s, b)
    BY <1>2, <2>1, NoneFound
  <2>3. ASSUME NEW f \in FramesOf(s), Ahead(s, f[1]) PROVE c < f[1] \/ f[2] <= c
    <3>1. f[1] \in Nat /\ f[2] \in Nat
      BY FrameEnds
    <3>2. f[1] # b + 1
      BY <1>2, <2>3 DEF IsDue
    <3>3. b < f[1] \/ f[2] <= b
      BY <2>3 DEF Outside
    <3>4. QED
      BY <1>2, <3>1, <3>2, <3>3
  <2>4. QED
    BY <2>1, <2>2, <2>3 DEF Outside
<1>3. CASE ~Ahead(s, b + 1)
  <2>1. \A k \in b + 1 .. c : ~Opens(s[k])
    BY <1>3 DEF Ahead
  <2>2. GoodFramesIn(s, c) = GoodFramesIn(s, b)
    BY <2>1, NoneFound
  <2>3. ASSUME NEW f \in FramesOf(s), Ahead(s, f[1]) PROVE f[2] <= c
    <3>1. f[1] \in Nat /\ f[2] \in Nat
      BY FrameEnds
    <3>2. ~(b + 1 <= f[1])
      BY <1>3, <2>3, <3>1, AheadBefore
    <3>3. b < f[1] \/ f[2] <= b
      BY <2>3 DEF Outside
    <3>4. QED
      BY <3>1, <3>2, <3>3
  <2>4. QED
    BY <2>1, <2>2, <2>3 DEF Outside
<1>4. QED
  BY <1>1, <1>2, <1>3

\* What the reader has when it comes to the end of a frame.
LEMMA FrameTaken ==
  ASSUME NEW s \in Seq(Bytes), NEW b \in Nat, NEW f \in FramesOf(s), f[1] = b + 1
  PROVE  /\ Outside(s, f[2])
         /\ GoodFramesIn(s, f[2]) = IF Opens(s[b + 1]) THEN Append(GoodFramesIn(s, b), s[b + 1].frame)
                                                       ELSE GoodFramesIn(s, b)
<1>1. f[2] \in 1 .. Len(s) /\ b + 1 \in 1 .. Len(s) /\ b + 6 <= f[2]
  BY FrameIs
<1>2. ASSUME NEW g \in FramesOf(s) PROVE f[2] < g[1] \/ g[2] <= f[2]
  <2>1. g[1] \in Nat /\ g[2] \in Nat
    BY FrameEnds
  <2>2. f[2] \in f[1] .. f[2]
    BY <1>1
  <2>3. CASE f[2] \in g[1] .. g[2]
    <3>1. f = g
      BY <2>2, <2>3, FramesApart
    <3>2. QED
      BY <1>1, <3>1
  <2>4. CASE f[2] \notin g[1] .. g[2]
    BY <1>1, <2>1, <2>4
  <2>5. QED
    BY <2>3, <2>4
<1>3. ASSUME NEW k \in (b + 1) + 1 .. f[2] PROVE ~Opens(s[k])
  <2>1. k \in f[1] .. f[2] /\ k \in Int /\ k - f[1] + 1 # 1
    BY <1>1
  <2>2. s[k].pos # 1
    BY <2>1, FrameIs
  <2>3. QED
    BY <2>2 DEF Opens
<1>4. GoodFramesIn(s, f[2]) = GoodFramesIn(s, b + 1)
  <2>1. b + 1 \in Nat /\ f[2] \in Nat /\ b + 1 <= f[2] /\ f[2] <= Len(s)
    BY <1>1
  <2>2. QED
    BY <1>3, <2>1, NoneFound
<1>5. (b + 1) - 1 = b
  OBVIOUS
<1>6. QED
  BY <1>1, <1>2, <1>4, <1>5, FoundIs DEF Outside

--------------------------------------------------------------------------------
(* The invariant                                                           *)

PtDatas ==
  [sum : 0 .. MsgLen, timeout_ms : 0 .. ResponseTimeout, remaining_len : Nat,
   step : {0, 1}, body_len : Nat]

Types ==
  /\ stream \in [Ports -> Streams]
  /\ line \in [Ports -> Seq(Bytes)]
  /\ fifo \in [Ports -> Seq(Bytes)]
  /\ msg \in [Ports -> [1 .. MsgLen -> Bytes]]
  /\ pt_data \in PtDatas
  /\ pc \in [Ports -> {"start", "loop", "yield", "stuck"}]
  /\ running \in Ports \cup {NONE}
  /\ delivered \in [Ports -> Seq(Nat)]

\* How many bytes the reader has had, how many of them it keeps, and how many
\* it is done with.
Had(p)  == Len(stream[p]) - Len(line[p]) - Len(fifo[p])
Kept(p) == IF pc[p] = "start" THEN 0 ELSE pt_data.sum
Done(p) == Had(p) - Kept(p)

\* The UART has what follows, and the line the rest.
UartHolds(p) ==
  /\ Had(p) >= 0
  /\ \A i \in 1 .. Len(line[p]) : line[p][i] = stream[p][Len(stream[p]) - Len(line[p]) + i]
  /\ \A i \in 1 .. Len(fifo[p]) : fifo[p][i] = stream[p][Had(p) + i]

\* The buffer has the bytes of s behind b, which begin as a header does.
BufferIs(s, b, m, d) ==
  /\ \A k \in 1 .. d.sum : m[k] = s[b + k]
  /\ d.sum >= 1 => s[b + 1].value = BC
  /\ d.sum >= 2 => s[b + 2].value = CB
  /\ d.sum = 3 => d.body_len = s[b + 3].value
  /\ d.sum >= 4 => d.body_len = LengthAt(s, b + 1)
  /\ d.step = 0 => d.sum <= 3
  /\ d.step = 1 => d.sum >= 4 /\ d.sum < FrameLen(d.body_len)
                              /\ d.remaining_len = FrameLen(d.body_len) - d.sum

BufferHolds(p) ==
  pc[p] # "start" =>
    /\ Done(p) >= 0
    /\ BufferIs(stream[p], Done(p), msg[p], pt_data)
    /\ pc[p] \in {"yield", "stuck"} => pt_data.sum > 0

\* Where frames end, and the beginning of the line.
EndsOf(s) == {0} \cup {f[2] : f \in FramesOf(s)}

\* The call has waited no longer than the bytes took that came since the end of
\* a frame, the one that it has not read yet included.
InTime(p) ==
  pc[p] # "start" =>
    /\ pt_data.timeout_ms > 0
    /\ Ahead(stream[p], Done(p) + 1) =>
         \A b \in EndsOf(stream[p]) :
           b <= Done(p) =>
             LET waited == ResponseTimeout - pt_data.timeout_ms
             IN  \/ waited = 0
                 \/ waited < Had(p) - b
                 \/ waited = Had(p) - b /\ pc[p] = "loop" /\ fifo[p] # <<>>

PortHolds(p) ==
  /\ UartHolds(p)
  /\ BufferHolds(p)
  /\ InTime(p)
  /\ Outside(stream[p], Done(p))
  /\ delivered[p] = GoodFramesIn(stream[p], Done(p))
  /\ running = p => pc[p] = "loop"

IInv == Types /\ \A p \in Ports : PortHolds(p)

LEMMA TypesGive ==
  ASSUME LinesAreFair, Types, NEW p \in Ports
  PROVE  /\ stream[p] \in Seq(Bytes) /\ LineIsFair(stream[p])
         /\ line[p] \in Seq(Bytes) /\ fifo[p] \in Seq(Bytes) /\ msg[p] \in [1 .. MsgLen -> Bytes]
         /\ Len(stream[p]) \in Nat /\ Len(line[p]) \in Nat /\ Len(fifo[p]) \in Nat
         /\ pt_data.sum \in 0 .. MsgLen /\ pt_data.timeout_ms \in 0 .. ResponseTimeout
         /\ pt_data.remaining_len \in Nat /\ pt_data.step \in {0, 1} /\ pt_data.body_len \in Nat
         /\ Had(p) \in Int /\ Kept(p) \in Int /\ Done(p) \in Int
         /\ Had(p) + Len(fifo[p]) <= Len(stream[p])
         /\ MsgLen \in Nat /\ ResponseTimeout \in Nat \ {0}
<1>1. stream[p] \in Streams
  BY DEF Types
<1>2. stream[p] \in Seq(Bytes) /\ LineIsFair(stream[p])
  BY <1>1 DEF LinesAreFair
<1>3. line[p] \in Seq(Bytes) /\ fifo[p] \in Seq(Bytes) /\ msg[p] \in [1 .. MsgLen -> Bytes]
  BY DEF Types
<1>4. Len(stream[p]) \in Nat /\ Len(line[p]) \in Nat /\ Len(fifo[p]) \in Nat
  BY <1>2, <1>3
<1>5. /\ pt_data.sum \in 0 .. MsgLen /\ pt_data.timeout_ms \in 0 .. ResponseTimeout
      /\ pt_data.remaining_len \in Nat /\ pt_data.step \in {0, 1} /\ pt_data.body_len \in Nat
  BY DEF Types, PtDatas
<1>6. MsgLen \in Nat /\ ResponseTimeout \in Nat \ {0}
  BY Numbers
<1>7. Had(p) \in Int /\ Kept(p) \in Int /\ Had(p) + Len(fifo[p]) <= Len(stream[p])
  <2> DEFINE l == Len(line[p])
             q == Len(fifo[p])
             n == Len(stream[p])
  <2>1. l \in Nat /\ q \in Nat /\ n \in Nat /\ Had(p) = n - l - q
    BY <1>4 DEF Had
  <2> HIDE DEF l, q, n
  <2>2. Had(p) \in Int /\ Had(p) + q <= n
    BY <2>1
  <2>3. Kept(p) \in Int
    BY <1>5, <1>6 DEF Kept
  <2>4. QED
    BY <2>2, <2>3 DEF q, n
<1>8. QED
  BY <1>2, <1>3, <1>4, <1>5, <1>6, <1>7 DEF Done

\* The reader takes r bytes from the UART.
LEMMA BytesTaken ==
  ASSUME LinesAreFair, Types, NEW p \in Ports, UartHolds(p), NEW r \in 0 .. Len(fifo[p]),
         fifo' = [fifo EXCEPT ![p] = SubSeq(@, r + 1, Len(@))], UNCHANGED <<stream, line>>
  PROVE  /\ fifo' \in [Ports -> Seq(Bytes)]
         /\ Had(p)' = Had(p) + r
         /\ UartHolds(p)'
         /\ \A i \in 1 .. r : fifo[p][i] = stream[p][Had(p) + i]
<1> DEFINE q == fifo[p]
           rest == SubSeq(q, r + 1, Len(q))
<1>1. q \in Seq(Bytes) /\ Len(q) \in Nat /\ r \in Nat /\ r <= Len(q)
  BY TypesGive
<1> HIDE DEF q
<1>2. rest \in Seq(Bytes) /\ Len(rest) = Len(q) - r /\ \A i \in 1 .. Len(q) - r : rest[i] = q[r + i]
  <2>1. rest \in Seq(Bytes)
    BY <1>1
  <2>2. Len(rest) = Len(q) - r
    BY <1>1
  <2>3. ASSUME NEW i \in 1 .. Len(q) - r PROVE rest[i] = q[r + i]
    <3>1. r + 1 + i - 1 = r + i /\ i \in 1 .. (Len(q) - (r + 1)) + 1
      BY <1>1
    <3>2. QED
      BY <1>1, <3>1
  <2>4. QED
    BY <2>1, <2>2, <2>3
<1> HIDE DEF rest
<1>3. fifo' = [fifo EXCEPT ![p] = rest]
  BY DEF rest, q
<1>4. fifo' \in [Ports -> Seq(Bytes)] /\ fifo'[p] = rest
  BY <1>2, <1>3 DEF Types
<1>5. Had(p)' = Had(p) + r
  <2> DEFINE l == Len(line[p])
             n == Len(stream[p])
             held == Len(q)
  <2>1. n \in Nat /\ l \in Nat /\ held \in Nat
    BY <1>1, TypesGive
  <2>2. Had(p) = n - l - held
    BY DEF Had, q
  <2>3. Had(p)' = n - l - Len(rest)
    BY <1>4 DEF Had
  <2>4. Len(rest) = held - r
    BY <1>2
  <2> HIDE DEF l, n, held
  <2>5. QED
    BY <2>1, <2>2, <2>3, <2>4
<1>6. Had(p) \in Int /\ Had(p) >= 0
  BY TypesGive DEF UartHolds
<1>7. ASSUME NEW i \in 1 .. Len(fifo'[p]) PROVE fifo'[p][i] = stream'[p][Had(p)' + i]
  <2>1. i \in 1 .. Len(q) - r
    BY <1>2, <1>4, <1>7
  <2>2. rest[i] = q[r + i] /\ r + i \in 1 .. Len(q)
    BY <1>1, <1>2, <2>1
  <2>3. q[r + i] = stream[p][Had(p) + (r + i)]
    BY <2>2 DEF UartHolds, q
  <2>4. Had(p) + (r + i) = Had(p)' + i
    BY <1>1, <1>5, <1>6, <2>1
  <2>5. QED
    BY <1>4, <2>2, <2>3, <2>4
<1>8. UartHolds(p)'
  <2>1. Had(p)' >= 0
    BY <1>1, <1>5, <1>6
  <2>2. \A i \in 1 .. Len(line'[p]) : line'[p][i] = stream'[p][Len(stream'[p]) - Len(line'[p]) + i]
    BY DEF UartHolds
  <2>3. QED
    BY <1>7, <2>1, <2>2 DEF UartHolds
<1>9. ASSUME NEW i \in 1 .. r PROVE fifo[p][i] = stream[p][Had(p) + i]
  BY <1>1, <1>9 DEF UartHolds, q
<1>10. QED
  BY <1>4, <1>5, <1>8, <1>9

\* While the buffer has a part of a frame it has not all of it.
LEMMA Unfinished ==
  ASSUME NEW s \in Seq(Bytes), NEW b \in Nat, NEW m, NEW d, BufferIs(s, b, m, d),
         d.sum \in Nat, d.step \in {0, 1}, d.body_len \in Nat, NEW f \in FramesOf(s), f[1] = b + 1
  PROVE  /\ b + d.sum < f[2]
         /\ d.sum >= 4 => f[2] = b + FrameLen(d.body_len)
<1>1. /\ b + 6 <= f[2] /\ f[2] \in Nat /\ LengthAt(s, b + 1) \in Nat
      /\ f[2] = (b + 1) + FrameLen(LengthAt(s, b + 1)) - 1
  BY FrameIs
<1>2. d.sum >= 4 => f[2] = b + FrameLen(d.body_len)
  <2>1. SUFFICES ASSUME d.sum >= 4 PROVE f[2] = b + FrameLen(d.body_len)
    OBVIOUS
  <2>2. d.body_len = LengthAt(s, b + 1)
    BY <2>1 DEF BufferIs
  <2>3. QED
    BY <1>1, <2>2 DEF FrameLen, Fixed
<1>3. b + d.sum < f[2]
  <2>1. CASE d.step = 0
    <3>1. d.sum <= 3
      BY <2>1 DEF BufferIs
    <3>2. QED
      BY <1>1, <3>1
  <2>2. CASE d.step = 1
    <3>1. d.sum >= 4 /\ d.sum < FrameLen(d.body_len)
      BY <2>2 DEF BufferIs
    <3>2. FrameLen(d.body_len) \in Nat
      BY DEF FrameLen, Fixed
    <3>3. QED
      BY <1>2, <3>1, <3>2
  <2>3. QED
    BY <2>1, <2>2
<1>4. QED
  BY <1>2, <1>3

\* How a read ends: with a frame, or with nothing that is due.
LEMMA ReadEnds ==
  ASSUME LinesAreFair, Types, NEW p \in Ports, NEW b \in Nat, NEW rl \in Nat, NEW m,
         b + rl <= Len(stream[p]), \A k \in 1 .. rl : m[k] = stream[p][b + k],
         Outside(stream[p], b), delivered[p] = GoodFramesIn(stream[p], b), EndRead(p, m, rl),
         \/ \E f \in FramesOf(stream[p]) : f[1] = b + 1 /\ f[2] = b + rl
         \/ rl = 0 \/ (rl = 1 /\ ~IsDue(stream[p], b)) \/ ~Ahead(stream[p], b + 1)
  PROVE  /\ Outside(stream[p], b + rl)
         /\ delivered' \in [Ports -> Seq(Nat)]
         /\ delivered'[p] = GoodFramesIn(stream[p], b + rl)
         /\ pc' \in [Ports -> {"start", "loop", "yield", "stuck"}] /\ pc'[p] = "start" /\ running' = NONE
<1> DEFINE s == stream[p]
           passes == rl > 0 /\ check_integrity(m, rl)
<1>1. s \in Seq(Bytes) /\ LineIsFair(s) /\ Len(s) \in Nat
  BY TypesGive
<1>2. pc' \in [Ports -> {"start", "loop", "yield", "stuck"}] /\ pc'[p] = "start" /\ running' = NONE
  BY DEF EndRead, Types
<1>3. delivered' = [delivered EXCEPT ![p] = IF passes THEN Append(@, m[1].frame) ELSE @]
  BY DEF EndRead
<1>4. passes => m[1] = s[b + 1] /\ Opens(s[b + 1])
  <2> SUFFICES ASSUME passes PROVE m[1] = s[b + 1] /\ Opens(s[b + 1])
    OBVIOUS
  <2>1. 1 \in 1 .. rl
    OBVIOUS
  <2>2. m[1].pos = 1 /\ m[1].ok
    BY <2>1 DEF check_integrity
  <2>3. QED
    BY <2>1, <2>2 DEF Opens
<1>5. CASE \E f \in FramesOf(s) : f[1] = b + 1 /\ f[2] = b + rl
  <2>1. PICK f \in FramesOf(s) : f[1] = b + 1 /\ f[2] = b + rl
    BY <1>5
  <2>2. Outside(s, b + rl) /\ GoodFramesIn(s, b + rl) = IF Opens(s[b + 1])
                                THEN Append(GoodFramesIn(s, b), s[b + 1].frame) ELSE GoodFramesIn(s, b)
    BY <1>1, <2>1, FrameTaken
  <2>3. /\ f[1] \in 1 .. Len(s) /\ f[1] + 5 <= f[2]
        /\ s[f[1]].value = BC /\ s[f[1] + 1].value = CB /\ LengthAt(s, f[1]) \in Nat
        /\ f[2] = f[1] + FrameLen(LengthAt(s, f[1])) - 1
        /\ \A k \in f[1] .. f[2] :
             s[k].frame = s[f[1]].frame /\ s[k].pos = k - f[1] + 1 /\ s[k].ok = s[f[1]].ok
    BY <1>1, FrameIs
  <2>4. /\ rl >= 6 /\ (b + 1) + 1 = b + 2 /\ (b + 1) + 2 = b + 3 /\ (b + 1) + 3 = b + 4
        /\ rl = FrameLen(LengthAt(s, b + 1))
    <3>1. (b + 1) + 1 = b + 2 /\ (b + 1) + 2 = b + 3 /\ (b + 1) + 3 = b + 4
      OBVIOUS
    <3>2. /\ LengthAt(s, b + 1) \in Nat /\ b + rl = (b + 1) + FrameLen(LengthAt(s, b + 1)) - 1
          /\ (b + 1) + 5 <= b + rl
      BY <2>1, <2>3
    <3> DEFINE v == LengthAt(s, b + 1)
    <3>3. v \in Nat /\ b + rl = (b + 1) + FrameLen(v) - 1 /\ (b + 1) + 5 <= b + rl
      BY <3>2
    <3> HIDE DEF v
    <3>4. rl >= 6 /\ rl = FrameLen(v)
      BY <3>3 DEF FrameLen, Fixed
    <3>5. QED
      BY <3>1, <3>4 DEF v
  <2>5. m[1] = s[b + 1] /\ m[2] = s[b + 2] /\ LengthAt(m, 1) = LengthAt(s, b + 1)
    <3>1. m[3] = s[b + 3] /\ m[4] = s[b + 4] /\ m[1] = s[b + 1] /\ m[2] = s[b + 2]
      BY <2>4
    <3>2. QED
      BY <2>4, <3>1, 1 + 2 = 3, 1 + 3 = 4 DEF LengthAt
  <2>6. ASSUME Opens(s[b + 1]) PROVE passes
    <3>1. rl >= FrameLen(0)
      BY <2>4 DEF FrameLen, Fixed
    <3>2. m[1].value = BC /\ m[2].value = CB /\ rl >= FrameLen(LengthAt(m, 1))
      <4>1. rl >= FrameLen(LengthAt(s, b + 1))
        BY <2>4
      <4>2. QED
        BY <2>1, <2>3, <2>4, <2>5, <4>1
    <3>3. ASSUME NEW k \in 1 .. rl PROVE m[k].frame = m[1].frame /\ m[k].pos = k /\ m[k].ok
      <4>1. b + k \in f[1] .. f[2] /\ (b + k) - f[1] + 1 = k
        BY <2>1
      <4>2. m[k] = s[b + k]
        OBVIOUS
      <4> DEFINE x == s[b + k]
      <4>3. x.frame = s[b + 1].frame /\ x.pos = k /\ x.ok = s[b + 1].ok
        BY <2>1, <2>3, <4>1
      <4>4. s[b + 1].ok
        BY <2>6 DEF Opens
      <4> HIDE DEF x
      <4>5. QED
        BY <2>5, <4>2, <4>3, <4>4 DEF x
    <3>4. QED
      BY <2>4, <3>1, <3>2, <3>3 DEF check_integrity
  <2>7. passes <=> Opens(s[b + 1])
    BY <1>4, <2>6
  <2>8. s[b + 1].frame \in Nat
    <3>1. s[b + 1] \in Bytes
      BY <1>1, <2>1, <2>3
    <3>2. QED
      BY <3>1 DEF Bytes
  <2> HIDE DEF passes
  <2>9. /\ delivered' \in [Ports -> Seq(Nat)]
        /\ delivered'[p] = IF Opens(s[b + 1]) THEN Append(delivered[p], s[b + 1].frame) ELSE delivered[p]
    BY <1>3, <1>4, <2>7, <2>8 DEF Types
  <2>10. QED
    BY <1>2, <2>2, <2>9
<1>6. CASE rl = 0 \/ (rl = 1 /\ ~IsDue(s, b)) \/ ~Ahead(s, b + 1)
  <2>1. b + rl \in Nat /\ b <= b + rl /\ b + rl <= Len(s)
        /\ (b + rl = b \/ (b + rl = b + 1 /\ ~IsDue(s, b)) \/ ~Ahead(s, b + 1))
    BY <1>6
  <2>2. Outside(s, b + rl) /\ GoodFramesIn(s, b + rl) = GoodFramesIn(s, b) /\ (b + rl > b => ~Opens(s[b + 1]))
    BY <1>1, <2>1, DropsNothing
  <2>3. ~passes
    BY <1>4, <2>2
  <2> HIDE DEF passes
  <2>4. delivered' \in [Ports -> Seq(Nat)] /\ delivered'[p] = delivered[p]
    BY <1>3, <2>3 DEF Types
  <2>5. QED
    BY <1>2, <2>2, <2>4
<1>7. QED
  BY <1>5, <1>6
\* One port is all there are.
LEMMA OnlyPort ==
  ASSUME OnePort, NEW p \in Ports, Types', PortHolds(p)'
  PROVE  IInv'
<1>1. ASSUME NEW q \in Ports PROVE PortHolds(q)'
  <2>1. q = p
    BY DEF OnePort
  <2>2. QED
    BY <2>1
<1>2. QED
  BY <1>1 DEF IInv

\* The end of a read keeps the invariant.
LEMMA ReadEnded ==
  ASSUME OnePort, LinesAreFair, Types, NEW p \in Ports, NEW b \in Nat, NEW rl \in Nat, NEW m,
         b + rl <= Len(stream[p]), \A k \in 1 .. rl : m[k] = stream[p][b + k],
         Outside(stream[p], b), delivered[p] = GoodFramesIn(stream[p], b), EndRead(p, m, rl),
         \/ \E f \in FramesOf(stream[p]) : f[1] = b + 1 /\ f[2] = b + rl
         \/ rl = 0 \/ (rl = 1 /\ ~IsDue(stream[p], b)) \/ ~Ahead(stream[p], b + 1),
         UNCHANGED <<stream, line>>, fifo' \in [Ports -> Seq(Bytes)],
         msg' \in [Ports -> [1 .. MsgLen -> Bytes]], pt_data' \in PtDatas,
         UartHolds(p)', Had(p)' = b + rl
  PROVE  IInv'
<1>1. /\ Outside(stream[p], b + rl)
      /\ delivered' \in [Ports -> Seq(Nat)]
      /\ delivered'[p] = GoodFramesIn(stream[p], b + rl)
      /\ pc' \in [Ports -> {"start", "loop", "yield", "stuck"}] /\ pc'[p] = "start" /\ running' = NONE
  BY ReadEnds
<1>2. Types'
  BY <1>1 DEF Types
<1>3. Done(p)' = b + rl
  <2>1. Kept(p)' = 0
    BY <1>1 DEF Kept
  <2>2. QED
    BY <2>1 DEF Done
<1>4. Outside(stream[p], Done(p))' /\ (delivered[p] = GoodFramesIn(stream[p], Done(p)))'
  BY <1>1, <1>3
<1>5. BufferHolds(p)' /\ InTime(p)' /\ (running = p => pc[p] = "loop")'
  BY <1>1, NoneIsNoPort DEF BufferHolds, InTime
<1>6. QED
  BY <1>2, <1>4, <1>5, OnlyPort DEF PortHolds

\* A frame fits the buffer.
LEMMA FrameFits ==
  ASSUME NEW s \in Seq(Bytes), LineIsFair(s), NEW f \in FramesOf(s)
  PROVE  f[2] - f[1] < MsgLen
<1> DEFINE k == f[1]
<1>1. k \in 1 .. Len(s) /\ f[2] \in 1 .. Len(s) /\ k + 5 <= f[2] /\ f[2] = k + FrameLen(LengthAt(s, k)) - 1
      /\ s[k].value = BC /\ s[k + 1].value = CB
  BY FrameIs
<1> HIDE DEF k
<1>2. k \in DOMAIN s /\ Header(s, k) /\ k + 3 <= Len(s) /\ k \in Nat \ {0}
  BY <1>1 DEF Header
<1>3. FrameLen(LengthAt(s, k)) <= MsgLen \/ Len(s) - k < MsgLen
  BY <1>2 DEF LineIsFair
<1>4. FrameLen(LengthAt(s, k)) \in Nat /\ MsgLen \in Nat /\ Len(s) \in Nat
  BY <1>2, LengthIs, Numbers
<1>5. f[2] - k < MsgLen
  BY <1>1, <1>3, <1>4
<1>6. QED
  BY <1>5 DEF k

\* The header that the buffer holds is a frame's that is due.
LEMMA HeldIsDue ==
  ASSUME NEW s \in Seq(Bytes), LineIsFair(s), NEW b \in Nat, NEW m, NEW d, BufferIs(s, b, m, d),
         d.sum \in Nat, d.sum >= 2, b + d.sum <= Len(s), Outside(s, b), Ahead(s, b + 1)
  PROVE  IsDue(s, b)
<1>1. s[b + 1].value = BC /\ s[b + 2].value = CB /\ b + 2 <= Len(s)
  BY DEF BufferIs
<1>2. QED
  BY <1>1, HeaderOpens

\* The end of a frame is behind few bytes that the reader drops.
LEMMA EndsFar ==
  ASSUME NEW s \in Seq(Bytes), NEW b \in Nat, NEW c \in Nat, c <= b + 2, Outside(s, b),
         Ahead(s, c + 1), NEW e \in EndsOf(s), e <= c
  PROVE  e \in Nat /\ e <= b
<1>1. CASE e = 0
  BY <1>1
<1>2. CASE \E f \in FramesOf(s) : e = f[2]
  <2>1. PICK f \in FramesOf(s) : e = f[2]
    BY <1>2
  <2>2. f[1] \in Nat /\ f[2] \in Nat /\ f[1] + 5 <= f[2]
    BY FrameEnds
  <2>3. Ahead(s, f[1])
    BY <2>1, <2>2, AheadBefore
  <2>4. b < f[1] \/ f[2] <= b
    BY <2>3 DEF Outside
  <2>5. QED
    BY <2>1, <2>2, <2>4
<1>3. QED
  BY <1>1, <1>2 DEF EndsOf

--------------------------------------------------------------------------------
(* The invariant is kept                                                   *)

\* What the invariant says of a port, and of its reader inside a call.
LEMMA PortGives ==
  ASSUME LinesAreFair, IInv, NEW p \in Ports
  PROVE  /\ Types /\ UartHolds(p) /\ BufferHolds(p) /\ InTime(p)
         /\ Outside(stream[p], Done(p)) /\ delivered[p] = GoodFramesIn(stream[p], Done(p))
         /\ running = p => pc[p] = "loop"
         /\ Had(p) \in Nat /\ Done(p) \in Nat /\ Had(p) = Done(p) + Kept(p)
         /\ Had(p) + Len(fifo[p]) <= Len(stream[p]) /\ Had(p) <= Len(stream[p])
         /\ pc[p] = "start" => Done(p) = Had(p)
         /\ pc[p] # "start" => /\ BufferIs(stream[p], Done(p), msg[p], pt_data)
                               /\ Had(p) = Done(p) + pt_data.sum
<1>1. /\ Types /\ UartHolds(p) /\ BufferHolds(p) /\ InTime(p)
      /\ Outside(stream[p], Done(p)) /\ delivered[p] = GoodFramesIn(stream[p], Done(p))
      /\ running = p => pc[p] = "loop"
  BY DEF IInv, PortHolds
<1>2. /\ Had(p) \in Int /\ Kept(p) \in Int /\ Done(p) \in Int /\ pt_data.sum \in Int
      /\ Had(p) + Len(fifo[p]) <= Len(stream[p]) /\ Len(fifo[p]) \in Nat /\ Len(stream[p]) \in Nat
  BY <1>1, TypesGive
<1>3. Had(p) \in Nat
  BY <1>1, <1>2 DEF UartHolds
<1>4. Had(p) = Done(p) + Kept(p)
  BY <1>2 DEF Done
<1>5. pc[p] = "start" => Done(p) = Had(p)
  BY <1>2, <1>4 DEF Kept
<1>6. pc[p] # "start" => /\ Done(p) >= 0 /\ BufferIs(stream[p], Done(p), msg[p], pt_data)
                         /\ Had(p) = Done(p) + pt_data.sum
  BY <1>1, <1>4 DEF BufferHolds, Kept
<1>7. Done(p) \in Nat
  BY <1>2, <1>3, <1>5, <1>6
<1>8. Had(p) <= Len(stream[p])
  BY <1>2
<1>9. QED
  BY <1>1, <1>2, <1>3, <1>4, <1>5, <1>6, <1>7, <1>8

LEMMA ByteArrivesKeeps ==
  ASSUME OnePort, LinesAreFair, IInv, NEW p \in Ports, ByteArrives(p)
  PROVE  IInv'
<1> DEFINE s == stream[p]
           l == line[p]
           q == fifo[p]
           more == Append(q, Head(l))
           left == Tail(l)
<1>1. s \in Seq(Bytes) /\ l \in Seq(Bytes) /\ q \in Seq(Bytes) /\ l # <<>>
      /\ UartHolds(p) /\ Had(p) \in Nat /\ Had(p) + Len(q) <= Len(s) /\ Types
  BY TypesGive, PortGives DEF ByteArrives
<1>2. /\ fifo' = [fifo EXCEPT ![p] = more] /\ line' = [line EXCEPT ![p] = left]
      /\ UNCHANGED <<stream, msg, pt_data, pc, running, delivered>>
  BY DEF ByteArrives
<1>3. /\ left \in Seq(Bytes) /\ Len(left) = Len(l) - 1 /\ Len(l) \in Nat \ {0}
      /\ \A i \in 1 .. Len(l) - 1 : left[i] = l[i + 1]
  <2> HIDE DEF l
  <2>1. QED
    BY <1>1
<1>4. Head(l) = l[1] /\ l[1] \in Bytes
  BY <1>1, <1>3
<1>5. /\ more \in Seq(Bytes) /\ Len(more) = Len(q) + 1 /\ Len(q) \in Nat
      /\ \A i \in 1 .. Len(q) : more[i] = q[i] /\ more[Len(q) + 1] = l[1]
  <2> DEFINE x == Head(l)
  <2>1. x \in Bytes /\ x = l[1]
    BY <1>4
  <2> HIDE DEF q, x
  <2>2. QED
    BY <1>1, <2>1
<1> HIDE DEF left, more
<1>6. Types' /\ fifo'[p] = more /\ line'[p] = left
  BY <1>1, <1>2, <1>3, <1>5 DEF Types
<1>7. Had(p)' = Had(p)
  <2> DEFINE n == Len(s)
             a == Len(l)
             c == Len(q)
  <2>1. n \in Nat /\ a \in Nat /\ c \in Nat
    BY <1>1
  <2>2. Had(p) = n - a - c
    BY DEF Had
  <2>3. Had(p)' = n - Len(left) - Len(more)
    BY <1>2, <1>6 DEF Had
  <2>4. Len(left) = a - 1 /\ Len(more) = c + 1
    BY <1>3, <1>5
  <2> HIDE DEF n, a, c
  <2>5. QED
    BY <2>1, <2>2, <2>3, <2>4
<1>8. UartHolds(p)'
  <2> DEFINE n == Len(s)
             a == Len(l)
             c == Len(q)
  <2>1. /\ n \in Nat /\ a \in Nat /\ c \in Nat /\ Had(p) = n - a - c /\ Had(p) >= 0
        /\ Len(left) = a - 1 /\ Len(more) = c + 1
        /\ \A i \in 1 .. a : l[i] = s[n - a + i]
        /\ \A i \in 1 .. c : q[i] = s[Had(p) + i]
    <3>1. n \in Nat /\ a \in Nat /\ c \in Nat /\ Len(left) = a - 1 /\ Len(more) = c + 1 /\ Had(p) >= 0
      BY <1>1, <1>3, <1>5
    <3>2. Had(p) = n - a - c
      BY DEF Had
    <3>3. /\ \A i \in 1 .. a : l[i] = s[n - a + i]
          /\ \A i \in 1 .. c : q[i] = s[Had(p) + i]
      BY <1>1 DEF UartHolds
    <3>4. QED
      BY <3>1, <3>2, <3>3
  <2>2. \A i \in 1 .. a - 1 : left[i] = l[i + 1]
    BY <1>3
  <2>3. \A i \in 1 .. c : more[i] = q[i]
    BY <1>5
  <2>4. more[c + 1] = l[1]
    <3>1. c \in Nat /\ more = Append(q, Head(l))
      BY <2>1 DEF more
    <3>2. QED
      BY <1>1, <1>4, <3>1
  <2>5. a >= 1
    BY <1>3
  <2> HIDE DEF n, a, c
  <2>6. ASSUME NEW i \in 1 .. a - 1 PROVE left[i] = s[n - (a - 1) + i]
    <3>1. i + 1 \in 1 .. a /\ n - a + (i + 1) = n - (a - 1) + i
      BY <2>1
    <3>2. QED
      BY <2>1, <2>2, <3>1
  <2>7. ASSUME NEW i \in 1 .. c + 1 PROVE more[i] = s[Had(p) + i]
    <3>1. CASE i \in 1 .. c
      BY <2>1, <2>3, <3>1
    <3>2. CASE i = c + 1
      <4>1. 1 \in 1 .. a /\ n - a + 1 = Had(p) + i
        BY <2>1, <2>5, <3>2
      <4>2. QED
        BY <2>1, <2>4, <3>2, <4>1
    <3>3. QED
      BY <2>1, <3>1, <3>2
  <2>8. \A i \in 1 .. Len(left) : left[i] = s[n - Len(left) + i]
    BY <2>1, <2>6
  <2>9. \A i \in 1 .. Len(more) : more[i] = s[Had(p) + i]
    BY <2>1, <2>7
  <2>10. QED
    BY <1>2, <1>6, <1>7, <2>1, <2>8, <2>9 DEF UartHolds, n
<1>9. Kept(p)' = Kept(p) /\ Done(p)' = Done(p)
  BY <1>2, <1>7 DEF Kept, Done
<1>10. BufferHolds(p)' /\ Outside(stream[p], Done(p))' /\ (delivered[p] = GoodFramesIn(stream[p], Done(p)))'
  BY <1>2, <1>9, PortGives DEF BufferHolds
<1>11. InTime(p)'
  <2>1. fifo'[p] # <<>>
    <3>1. Len(more) # 0
      BY <1>5
    <3>2. QED
      BY <1>6, <3>1
  <2>2. InTime(p)
    BY PortGives
  <2>3. QED
    BY <1>2, <1>7, <1>9, <2>1, <2>2 DEF InTime
<1>12. (running = p => pc[p] = "loop")'
  BY <1>2, PortGives
<1>13. QED
  BY <1>6, <1>8, <1>10, <1>11, <1>12, OnlyPort DEF PortHolds

LEMMA StartReadKeeps ==
  ASSUME OnePort, LinesAreFair, IInv, NEW p \in Ports, StartRead(p)
  PROVE  IInv'
<1>1. /\ pc[p] = "start" /\ running' = p /\ pc' = [pc EXCEPT ![p] = "loop"]
      /\ pt_data' = [FreshPtData EXCEPT !.timeout_ms = ResponseTimeout]
      /\ UNCHANGED <<stream, line, fifo, msg, delivered>>
  BY DEF StartRead
<1>2. /\ Types /\ UartHolds(p) /\ Outside(stream[p], Done(p)) /\ Had(p) \in Nat /\ Done(p) = Had(p)
      /\ delivered[p] = GoodFramesIn(stream[p], Done(p))
  BY <1>1, PortGives
<1>3. /\ pt_data' = [sum |-> 0, timeout_ms |-> ResponseTimeout, remaining_len |-> 0, step |-> 0, body_len |-> 0]
      /\ pc'[p] = "loop"
  BY <1>1, <1>2 DEF FreshPtData, Types
<1>4. Types'
  <2>1. pt_data' \in PtDatas
    BY <1>3, Numbers DEF PtDatas
  <2>2. QED
    BY <1>1, <1>2, <2>1 DEF Types
<1>5. Had(p)' = Had(p) /\ UartHolds(p)'
  <2>1. Had(p)' = Had(p)
    BY <1>1 DEF Had
  <2>2. QED
    BY <1>1, <1>2, <2>1 DEF UartHolds
<1>6. Done(p)' = Done(p)
  <2>1. Kept(p)' = 0
    BY <1>3 DEF Kept
  <2>2. QED
    BY <1>2, <1>5, <2>1 DEF Done
<1>7. BufferHolds(p)'
  <2>1. BufferIs(stream'[p], Done(p)', msg'[p], pt_data')
    BY <1>3 DEF BufferIs
  <2>2. Done(p)' >= 0
    BY <1>2, <1>6
  <2>3. QED
    BY <1>3, <2>1, <2>2 DEF BufferHolds
<1>8. InTime(p)'
  <2>1. pt_data'.timeout_ms > 0 /\ ResponseTimeout - pt_data'.timeout_ms = 0
    BY <1>3, Numbers
  <2>2. QED
    BY <2>1 DEF InTime
<1>9. QED
  BY <1>1, <1>2, <1>3, <1>4, <1>5, <1>6, <1>7, <1>8, OnlyPort DEF PortHolds
\* The reader takes a byte and is done with what is before byte c + 1.
LEMMA Sought ==
  ASSUME OnePort, LinesAreFair, IInv, NEW p \in Ports, pc[p] = "loop", fifo[p] # <<>>,
         fifo' = [fifo EXCEPT ![p] = Tail(@)], UNCHANGED <<stream, line, pc, running, delivered>>,
         msg' \in [Ports -> [1 .. MsgLen -> Bytes]], pt_data' \in PtDatas,
         pt_data'.timeout_ms = pt_data.timeout_ms,
         NEW c \in Nat, Done(p) <= c, c <= Done(p) + 2, Had(p) + 1 = c + pt_data'.sum,
         BufferIs(stream[p], c, msg'[p], pt_data'), Outside(stream[p], c),
         GoodFramesIn(stream[p], c) = GoodFramesIn(stream[p], Done(p))
  PROVE  IInv'
<1> DEFINE s == stream[p]
<1>1. /\ Types /\ UartHolds(p) /\ BufferHolds(p) /\ InTime(p) /\ Outside(s, Done(p))
      /\ delivered[p] = GoodFramesIn(s, Done(p)) /\ Had(p) \in Nat /\ Done(p) \in Nat
      /\ s \in Seq(Bytes) /\ fifo[p] \in Seq(Bytes) /\ pt_data'.sum \in Nat
      /\ pt_data.timeout_ms \in Nat /\ ResponseTimeout \in Nat
  <2>1. pt_data'.sum \in Nat
    BY Numbers DEF PtDatas
  <2>2. pt_data.timeout_ms \in 0 .. ResponseTimeout /\ ResponseTimeout \in Nat
    BY PortGives, TypesGive
  <2>3. Types
    BY PortGives
  <2>4. s \in Seq(Bytes) /\ fifo[p] \in Seq(Bytes)
    BY <2>3, TypesGive
  <2>5. /\ Types /\ UartHolds(p) /\ BufferHolds(p) /\ InTime(p) /\ Outside(s, Done(p))
        /\ delivered[p] = GoodFramesIn(s, Done(p)) /\ Had(p) \in Nat /\ Done(p) \in Nat
    BY PortGives
  <2>6. QED
    BY <2>1, <2>2, <2>4, <2>5
<1>2. 1 \in 0 .. Len(fifo[p]) /\ fifo' = [fifo EXCEPT ![p] = SubSeq(@, 1 + 1, Len(@))]
  <2>1. Tail(fifo[p]) = SubSeq(fifo[p], 1 + 1, Len(fifo[p]))
    BY <1>1, TailIsSubSeq, 1 + 1 = 2
  <2>2. Len(fifo[p]) \in Nat \ {0}
    BY <1>1
  <2>3. 1 \in 0 .. Len(fifo[p])
    BY <2>2
  <2>4. fifo' = [fifo EXCEPT ![p] = SubSeq(@, 1 + 1, Len(@))]
    BY <2>1, Zenon
  <2>5. QED
    BY <2>3, <2>4
<1>3. fifo' \in [Ports -> Seq(Bytes)] /\ Had(p)' = Had(p) + 1 /\ UartHolds(p)'
  BY <1>1, <1>2, BytesTaken
<1>4. Types'
  BY <1>1, <1>3 DEF Types
<1>5. Done(p)' = c
  <2>1. Kept(p)' = pt_data'.sum
    BY DEF Kept
  <2>2. Had(p)' = c + pt_data'.sum
    BY <1>3
  <2>3. Done(p)' = Had(p)' - pt_data'.sum
    BY <2>1 DEF Done
  <2>4. QED
    BY <1>1, <2>2, <2>3
<1>6. BufferHolds(p)' /\ Outside(stream[p], Done(p))' /\ (delivered[p] = GoodFramesIn(stream[p], Done(p)))'
  BY <1>1, <1>5 DEF BufferHolds
<1>7. InTime(p)'
  <2> DEFINE waited == ResponseTimeout - pt_data.timeout_ms
  <2>1. pt_data.timeout_ms > 0
    BY <1>1 DEF InTime
  <2>2. ASSUME Ahead(s, c + 1), NEW e \in EndsOf(s), e <= c PROVE waited = 0 \/ waited < (Had(p) + 1) - e
    <3>1. e \in Nat /\ e <= Done(p)
      BY <1>1, <2>2, EndsFar
    <3>2. Ahead(s, Done(p) + 1)
      BY <1>1, <2>2, AheadBefore
    <3>3. waited = 0 \/ waited < Had(p) - e \/ waited = Had(p) - e
      BY <1>1, <2>2, <3>1, <3>2 DEF InTime
    <3>4. waited \in Int
      BY <1>1
    <3> HIDE DEF waited
    <3>5. QED
      BY <1>1, <3>1, <3>3, <3>4
  <2>3. QED
    BY <1>3, <1>5, <2>1, <2>2 DEF InTime
<1>8. (running = p => pc[p] = "loop")'
  OBVIOUS
<1>9. QED
  BY <1>3, <1>4, <1>6, <1>7, <1>8, OnlyPort DEF PortHolds

LEMMA SeekHeaderKeeps ==
  ASSUME OnePort, LinesAreFair, IInv, NEW p \in Ports, SeekHeader(p)
  PROVE  IInv'
<1> DEFINE s == stream[p]
           n == pt_data.sum
           d == Done(p)
           b == Head(fifo[p])
           m == [msg[p] EXCEPT ![n + 1] = b]
<1>1. /\ running = p /\ pt_data.step = 0 /\ n # MsgLen /\ fifo[p] # <<>>
      /\ fifo' = [fifo EXCEPT ![p] = Tail(@)] /\ UNCHANGED <<stream, line, pc, running, delivered>>
      /\ pc[p] = "loop"
  BY DEF SeekHeader, Continue
<1>2. /\ Types /\ UartHolds(p) /\ Outside(s, d) /\ d \in Nat /\ Had(p) = d + n /\ Had(p) \in Nat
      /\ BufferIs(s, d, msg[p], pt_data) /\ Had(p) + Len(fifo[p]) <= Len(s)
  BY <1>1, PortGives
<1>3. /\ s \in Seq(Bytes) /\ LineIsFair(s) /\ fifo[p] \in Seq(Bytes) /\ msg[p] \in [1 .. MsgLen -> Bytes]
      /\ n \in 0 .. MsgLen /\ MsgLen \in Nat /\ pt_data \in PtDatas /\ pt_data.body_len \in Nat
  BY <1>2, TypesGive DEF Types
<1>4. /\ b = s[Had(p) + 1] /\ b \in Bytes /\ Had(p) + 1 <= Len(s)
  <2>1. b = fifo[p][1] /\ Len(fifo[p]) \in Nat \ {0}
    BY <1>1, <1>3
  <2>2. fifo[p][1] = s[Had(p) + 1]
    BY <2>1, <1>2 DEF UartHolds
  <2>3. Had(p) + 1 \in 1 .. Len(s)
    <3> DEFINE held == Len(fifo[p])
               size == Len(s)
    <3>1. held \in Nat \ {0} /\ size \in Nat /\ Had(p) \in Nat /\ Had(p) + held <= size
      BY <1>2, <1>3, <2>1
    <3> HIDE DEF held, size
    <3>2. Had(p) + 1 \in 1 .. size
      BY <3>1
    <3>3. QED
      BY <3>2 DEF size
  <2>4. QED
    BY <1>3, <2>1, <2>2, <2>3
<1>5. b.value \in Nat
  BY <1>4 DEF Bytes
<1> HIDE DEF b
<1>6. /\ m \in [1 .. MsgLen -> Bytes] /\ m[n + 1] = b /\ n < MsgLen /\ \A k \in 1 .. n : m[k] = s[d + k]
  <2>1. n < MsgLen /\ n + 1 \in 1 .. MsgLen
    BY <1>1, <1>3
  <2>2. \A k \in 1 .. n : k # n + 1 /\ k \in 1 .. MsgLen /\ msg[p][k] = s[d + k]
    BY <1>2, <1>3 DEF BufferIs
  <2> HIDE DEF n
  <2>3. QED
    BY <1>3, <1>4, <2>1, <2>2
<1>7. ASSUME NEW x \in [1 .. MsgLen -> Bytes], msg' = [msg EXCEPT ![p] = x]
      PROVE  msg' \in [Ports -> [1 .. MsgLen -> Bytes]] /\ msg'[p] = x
  BY <1>2, <1>7 DEF Types
<1>8. n <= 3
  BY <1>1, <1>2 DEF BufferIs
<1>9. ASSUME NEW c \in Nat, d <= c, c <= d + 2, NEW x \in [1 .. MsgLen -> Bytes], msg' = [msg EXCEPT ![p] = x],
             pt_data' \in PtDatas, pt_data'.timeout_ms = pt_data.timeout_ms,
             Had(p) + 1 = c + pt_data'.sum, BufferIs(s, c, x, pt_data'), Outside(s, c),
             GoodFramesIn(s, c) = GoodFramesIn(s, d)
      PROVE  IInv'
  <2>1. msg' \in [Ports -> [1 .. MsgLen -> Bytes]] /\ msg'[p] = x
    BY <1>7, <1>9
  <2>2. BufferIs(stream[p], c, msg'[p], pt_data')
    BY <1>9, <2>1
  <2>3. QED
    BY <1>1, <1>9, <2>1, <2>2, Sought
<1> HIDE DEF m, n, d
<1>10. CASE n = 0
  <2>1. /\ pt_data' = [pt_data EXCEPT !.sum = IF b.value = BC THEN 1 ELSE 0]
        /\ msg' = [msg EXCEPT ![p] = m]
    BY <1>10 DEF SeekHeader, n, m, b
  <2>2. Had(p) = d /\ m[1] = s[d + 1]
    BY <1>2, <1>4, <1>6, <1>10
  <2>3. CASE b.value = BC
    <3>1. pt_data' = [pt_data EXCEPT !.sum = 1]
      BY <2>1, <2>3
    <3>2. pt_data' \in PtDatas /\ pt_data'.timeout_ms = pt_data.timeout_ms /\ pt_data'.sum = 1 /\ pt_data'.step = 0
      BY <1>1, <1>3, <1>6, <1>10, <3>1 DEF PtDatas
    <3>3. BufferIs(s, d, m, pt_data')
      BY <1>4, <2>2, <2>3, <3>2 DEF BufferIs
    <3>4. d <= d /\ d <= d + 2 /\ Had(p) + 1 = d + pt_data'.sum
      BY <1>2, <2>2, <3>2
    <3>5. QED
      BY <1>2, <1>6, <1>9, <2>1, <3>2, <3>3, <3>4
  <2>4. CASE b.value # BC
    <3>1. pt_data' = [pt_data EXCEPT !.sum = 0]
      BY <2>1, <2>4
    <3>2. pt_data' \in PtDatas /\ pt_data'.timeout_ms = pt_data.timeout_ms /\ pt_data'.sum = 0 /\ pt_data'.step = 0
      BY <1>1, <1>3, <3>1 DEF PtDatas
    <3>3. BufferIs(s, d + 1, m, pt_data')
      BY <3>2 DEF BufferIs
    <3>4. ~IsDue(s, d)
      <4>1. s[d + 1].value # BC
        BY <1>4, <2>2, <2>4
      <4> HIDE DEF s
      <4>2. ASSUME NEW f \in FramesOf(s) PROVE s[f[1]].value = BC
        BY <1>3, FrameIs
      <4>3. QED
        BY <4>1, <4>2 DEF IsDue
    <3>5. d + 1 \in Nat /\ d <= d + 1 /\ d + 1 <= d + 2 /\ d + 1 <= Len(s) /\ Had(p) + 1 = (d + 1) + pt_data'.sum
      BY <1>2, <1>4, <2>2, <3>2
    <3>6. Outside(s, d + 1) /\ GoodFramesIn(s, d + 1) = GoodFramesIn(s, d)
      BY <1>2, <1>3, <3>4, <3>5, DropsNothing
    <3>7. QED
      BY <1>6, <1>9, <2>1, <3>2, <3>3, <3>5, <3>6
  <2>5. QED
    BY <2>3, <2>4
<1>11. CASE n = 1
  <2> DEFINE x == IF b.value = BC THEN [m EXCEPT ![1] = b] ELSE m
  <2>1. /\ pt_data' = [pt_data EXCEPT !.sum = AfterBC(b.value)]
        /\ msg' = [msg EXCEPT ![p] = x]
    BY <1>11 DEF SeekHeader, n, m, b
  <2>2. Had(p) = d + 1 /\ m[1] = s[d + 1] /\ m[2] = s[d + 2] /\ b = s[d + 2] /\ d + 2 <= Len(s) /\ s[d + 1].value = BC
    <3>1. Had(p) + 1 = d + 2
      BY <1>2, <1>11
    <3>2. s[d + 1].value = BC
      BY <1>2, <1>11 DEF BufferIs, n
    <3>3. QED
      BY <1>2, <1>4, <1>6, <1>11, <3>1, <3>2
  <2>3. x \in [1 .. MsgLen -> Bytes] /\ (b.value = BC => x[1] = b) /\ (b.value # BC => x = m)
    BY <1>3, <1>4, <1>6, <1>11
  <2> HIDE DEF x
  <2>4. CASE b.value = CB
    <3>1. pt_data' = [pt_data EXCEPT !.sum = 2]
      BY <2>1, <2>4 DEF AfterBC, BC, CB
    <3>2. pt_data' \in PtDatas /\ pt_data'.timeout_ms = pt_data.timeout_ms /\ pt_data'.sum = 2 /\ pt_data'.step = 0
      <4>1. 2 \in 0 .. MsgLen
        BY <1>3, <1>6, <1>11
      <4>2. QED
        BY <1>1, <1>3, <3>1, <4>1 DEF PtDatas
    <3>3. x = m
      BY <2>3, <2>4 DEF BC, CB
    <3>4. BufferIs(s, d, x, pt_data')
      BY <2>2, <2>4, <3>2, <3>3 DEF BufferIs
    <3>5. d <= d /\ d <= d + 2 /\ Had(p) + 1 = d + pt_data'.sum
      BY <1>2, <2>2, <3>2
    <3>6. QED
      BY <1>2, <1>9, <2>1, <2>3, <3>2, <3>4, <3>5
  <2>5. CASE b.value # CB
    <3>1. ~IsDue(s, d)
      <4>1. ASSUME NEW f \in FramesOf(s), f[1] = d + 1 PROVE FALSE
        <5>1. s[f[1] + 1].value = CB
          BY <1>3, FrameIs
        <5>2. f[1] + 1 = d + 2
          BY <1>2, <4>1
        <5>3. QED
          BY <2>2, <2>5, <5>1, <5>2
      <4>2. QED
        BY <4>1 DEF IsDue
    <3>2. d + 1 \in Nat /\ d <= d + 1 /\ d + 1 <= Len(s) /\ d + 1 <= d + 2 /\ d + 2 \in Nat /\ (d + 1) + 1 = d + 2
      BY <1>2, <1>3, <2>2
    <3>3. Outside(s, d + 1) /\ GoodFramesIn(s, d + 1) = GoodFramesIn(s, d)
      BY <1>2, <1>3, <3>1, <3>2, DropsNothing
    <3>4. CASE b.value = BC
      <4>1. pt_data' = [pt_data EXCEPT !.sum = 1]
        BY <2>1, <3>4 DEF AfterBC, BC, CB
      <4>2. pt_data' \in PtDatas /\ pt_data'.timeout_ms = pt_data.timeout_ms /\ pt_data'.sum = 1 /\ pt_data'.step = 0
        BY <1>1, <1>3, <1>6, <1>11, <4>1 DEF PtDatas
      <4>3. BufferIs(s, d + 1, x, pt_data')
        BY <2>2, <2>3, <3>2, <3>4, <4>2 DEF BufferIs
      <4>4. Had(p) + 1 = (d + 1) + pt_data'.sum
        BY <1>2, <2>2, <4>2
      <4>5. QED
        BY <1>9, <2>1, <2>3, <3>2, <3>3, <4>2, <4>3, <4>4
    <3>5. CASE b.value # BC
      <4>1. pt_data' = [pt_data EXCEPT !.sum = 0]
        BY <2>1, <2>5, <3>5 DEF AfterBC
      <4>2. pt_data' \in PtDatas /\ pt_data'.timeout_ms = pt_data.timeout_ms /\ pt_data'.sum = 0 /\ pt_data'.step = 0
        BY <1>1, <1>3, <4>1 DEF PtDatas
      <4>3. BufferIs(s, d + 2, x, pt_data')
        BY <4>2 DEF BufferIs
      <4>4. ~IsDue(s, d + 1)
        <5>1. s[d + 2].value # BC /\ (d + 1) + 1 = d + 2
          BY <2>2, <3>2, <3>5
        <5> HIDE DEF s
        <5>2. ASSUME NEW f \in FramesOf(s) PROVE s[f[1]].value = BC
          BY <1>3, FrameIs
        <5>3. QED
          BY <5>1, <5>2 DEF IsDue
      <4>5. d + 1 <= d + 2 /\ d <= d + 2 /\ d + 2 <= d + 2
        BY <1>2
      <4>6. Outside(s, d + 2) /\ GoodFramesIn(s, d + 2) = GoodFramesIn(s, d + 1)
        BY <1>2, <1>3, <2>2, <3>2, <3>3, <4>4, <4>5, DropsNothing
      <4>7. Had(p) + 1 = (d + 2) + pt_data'.sum
        BY <1>2, <2>2, <4>2
      <4>8. QED
        BY <1>9, <2>1, <2>3, <3>2, <3>3, <4>2, <4>3, <4>5, <4>6, <4>7
    <3>6. QED
      BY <3>4, <3>5
  <2>6. QED
    BY <2>4, <2>5
<1>12. CASE n = 2
  <2>1. pt_data' = [pt_data EXCEPT !.sum = 3, !.body_len = b.value] /\ msg' = [msg EXCEPT ![p] = m]
    BY <1>12 DEF SeekHeader, n, m, b
  <2>2. /\ pt_data' \in PtDatas /\ pt_data'.timeout_ms = pt_data.timeout_ms /\ pt_data'.sum = 3
        /\ pt_data'.step = 0 /\ pt_data'.body_len = b.value
    <3>1. 3 \in 0 .. MsgLen
      BY <1>3, <1>6, <1>12
    <3>2. QED
      BY <1>1, <1>3, <1>5, <2>1, <3>1 DEF PtDatas
  <2>3. b = s[d + 3] /\ Had(p) + 1 = d + pt_data'.sum /\ d <= d /\ d <= d + 2
    <3>1. Had(p) + 1 = d + 3 /\ d <= d /\ d <= d + 2
      BY <1>2, <1>12
    <3>2. QED
      BY <1>4, <2>2, <3>1
  <2>4. BufferIs(s, d, m, pt_data')
    <3>1. s[d + 1].value = BC /\ s[d + 2].value = CB
      BY <1>2, <1>12 DEF BufferIs, n
    <3>2. \A k \in 1 .. 3 : m[k] = s[d + k]
      BY <1>6, <1>12, <2>3
    <3>3. QED
      BY <2>2, <2>3, <3>1, <3>2 DEF BufferIs
  <2>5. QED
    BY <1>2, <1>6, <1>9, <2>1, <2>2, <2>3, <2>4
<1>13. CASE n = 3
  <2> DEFINE len == pt_data.body_len + 256 * b.value
             rest == len + Fixed
  <2>1. /\ pt_data' = [pt_data EXCEPT !.sum = 4, !.step = 1, !.body_len = len, !.remaining_len = rest]
        /\ msg' = [msg EXCEPT ![p] = m]
    BY <1>13 DEF SeekHeader, n, m, b
  <2>2. s[d + 1].value = BC /\ s[d + 2].value = CB /\ pt_data.body_len = s[d + 3].value
    BY <1>2, <1>13 DEF BufferIs, n
  <2>3. Had(p) + 1 = d + 4 /\ d <= d /\ d <= d + 2 /\ d + 4 <= Len(s)
    BY <1>2, <1>4, <1>13
  <2>4. /\ len \in Nat /\ rest \in Nat /\ rest = FrameLen(len) - 4 /\ FrameLen(len) > 4
        /\ len = LengthAt(s, d + 1)
    <3>1. b = s[d + 4] /\ (d + 1) + 2 = d + 3 /\ (d + 1) + 3 = d + 4
      BY <1>2, <1>4, <2>3
    <3>2. len = LengthAt(s, d + 1)
      BY <2>2, <3>1 DEF LengthAt
    <3> DEFINE v == b.value
               l == pt_data.body_len
    <3>3. v \in Nat /\ l \in Nat /\ len = l + 256 * v
      BY <1>3, <1>5
    <3> HIDE DEF v, l, len
    <3>4. len \in Nat
      <4>1. l + 256 * v \in Nat
        BY <3>3
      <4>2. QED
        BY <3>3, <4>1
    <3>5. QED
      BY <3>2, <3>4 DEF FrameLen, Fixed
  <2> HIDE DEF rest, len
  <2>5. /\ pt_data' \in PtDatas /\ pt_data'.timeout_ms = pt_data.timeout_ms /\ pt_data'.sum = 4
        /\ pt_data'.step = 1 /\ pt_data'.body_len = len /\ pt_data'.remaining_len = rest
    <3>1. 4 \in 0 .. MsgLen
      BY <1>3, <1>6, <1>13
    <3>2. QED
      BY <1>3, <2>1, <2>4, <3>1 DEF PtDatas
  <2>6. BufferIs(s, d, m, pt_data')
    <3>1. \A k \in 1 .. 4 : m[k] = s[d + k]
      <4>1. b = s[d + 4]
        BY <1>4, <2>3
      <4>2. QED
        BY <1>6, <1>13, <4>1
    <3>2. QED
      BY <2>2, <2>4, <2>5, <3>1 DEF BufferIs
  <2>7. Had(p) + 1 = d + pt_data'.sum
    BY <2>3, <2>5
  <2>8. QED
    BY <1>2, <1>6, <1>9, <2>1, <2>3, <2>5, <2>6, <2>7
<1>14. QED
  BY <1>3, <1>8, <1>10, <1>11, <1>12, <1>13 DEF n
LEMMA ReadRestKeeps ==
  ASSUME OnePort, LinesAreFair, IInv, NEW p \in Ports, ReadRest(p)
  PROVE  IInv'
<1> DEFINE s == stream[p]
           q == fifo[p]
           n == pt_data.sum
           b == Done(p)
           rl == Readable(p)
           sum == n + rl
           m == [k \in 1 .. MsgLen |-> IF k > n /\ k <= sum THEN q[k - n] ELSE msg[p][k]]
           whole == FrameLen(pt_data.body_len)
<1>1. /\ running = p /\ pc[p] = "loop" /\ pt_data.step = 1 /\ q # <<>>
      /\ fifo' = [fifo EXCEPT ![p] = SubSeq(@, rl + 1, Len(@))]
      /\ msg' = [msg EXCEPT ![p] = m]
      /\ pt_data' = [pt_data EXCEPT !.sum = sum, !.remaining_len = @ - rl]
      /\ CASE sum > MsgLen -> Overrun(p)
           [] sum <= MsgLen /\ sum = whole -> EndRead(p, m, sum)
           [] OTHER -> Continue
      /\ UNCHANGED <<stream, line>>
  BY DEF ReadRest
<1>2. /\ Types /\ UartHolds(p) /\ Outside(s, b) /\ b \in Nat /\ Had(p) = b + n /\ Had(p) \in Nat
      /\ BufferIs(s, b, msg[p], pt_data) /\ Had(p) + Len(q) <= Len(s) /\ InTime(p)
      /\ delivered[p] = GoodFramesIn(s, b)
  BY <1>1, PortGives
<1>3. /\ s \in Seq(Bytes) /\ LineIsFair(s) /\ q \in Seq(Bytes) /\ msg[p] \in [1 .. MsgLen -> Bytes]
      /\ n \in 0 .. MsgLen /\ MsgLen \in Nat /\ pt_data \in PtDatas /\ pt_data.body_len \in Nat
      /\ pt_data.remaining_len \in Nat /\ pt_data.timeout_ms \in 0 .. ResponseTimeout
      /\ ResponseTimeout \in Nat
  BY <1>2, TypesGive DEF Types
<1>4. /\ n >= 4 /\ n < whole /\ pt_data.remaining_len = whole - n
      /\ s[b + 1].value = BC /\ s[b + 2].value = CB /\ pt_data.body_len = LengthAt(s, b + 1)
      /\ \A k \in 1 .. n : msg[p][k] = s[b + k]
  BY <1>1, <1>2, <1>3 DEF BufferIs
<1>5. whole \in Nat
  BY <1>3 DEF FrameLen, Fixed
<1>6. Len(q) \in Nat \ {0}
  BY <1>1, <1>3
<1>7. rl \in 1 .. Len(q) /\ rl <= pt_data.remaining_len
  <2> DEFINE r == pt_data.remaining_len
             held == Len(q)
  <2>1. r \in Nat \ {0} /\ held \in Nat \ {0} /\ rl = IF held < r THEN held ELSE r
    BY <1>3, <1>4, <1>5, <1>6 DEF Readable
  <2> HIDE DEF r, held, rl
  <2>2. rl \in 1 .. held /\ rl <= r
    BY <2>1
  <2>3. QED
    BY <2>2 DEF held, r
<1> HIDE DEF rl
<1>8. /\ fifo' \in [Ports -> Seq(Bytes)] /\ Had(p)' = Had(p) + rl /\ UartHolds(p)'
      /\ \A i \in 1 .. rl : q[i] = s[Had(p) + i]
  <2>1. rl \in 0 .. Len(q)
    BY <1>6, <1>7
  <2>2. QED
    BY <1>1, <1>2, <2>1, BytesTaken
<1>9. sum \in Nat /\ n < sum /\ sum <= whole /\ b + sum <= Len(s) /\ Had(p)' = b + sum /\ rl \in Nat
      /\ pt_data.remaining_len - rl \in Nat
  <2> DEFINE held == Len(q)
             size == Len(s)
             r == pt_data.remaining_len
  <2>1. /\ held \in Nat /\ size \in Nat /\ rl \in 1 .. held /\ rl <= r /\ b + n + held <= size
        /\ r = whole - n /\ r \in Nat /\ Had(p)' = b + n + rl
    <3>1. held \in Nat /\ rl \in 1 .. held /\ rl <= r
      BY <1>6, <1>7
    <3>2. size \in Nat /\ r = whole - n /\ r \in Nat
      BY <1>3, <1>4
    <3>3. b + n + held <= size /\ Had(p)' = b + n + rl
      BY <1>2, <1>8
    <3>4. QED
      BY <3>1, <3>2, <3>3
  <2> HIDE DEF held, size, r, whole, n, b
  <2>2. sum \in Nat /\ n < sum /\ sum <= whole /\ b + sum <= size /\ Had(p)' = b + sum /\ rl \in Nat
        /\ r - rl \in Nat
    BY <1>2, <1>3, <1>5, <2>1
  <2>3. QED
    BY <2>2 DEF size, r
<1>10. sum <= MsgLen
  <2> DEFINE k == b + 1
  <2>1. k \in DOMAIN s /\ k < Len(s) /\ k + 1 = b + 2 /\ k + 3 <= Len(s) /\ k \in Nat
        /\ Len(s) - k >= sum - 1
    <3> DEFINE size == Len(s)
    <3>1. size \in Nat /\ n >= 4 /\ n \in Nat /\ n < sum /\ b + sum <= size /\ sum \in Nat
      BY <1>3, <1>4, <1>9
    <3> HIDE DEF size, n, sum, b
    <3>2. k \in 1 .. size /\ k < size /\ k + 1 = b + 2 /\ k + 3 <= size /\ size - k >= sum - 1
      BY <1>2, <3>1
    <3>3. DOMAIN s = 1 .. size
      BY <1>3 DEF size
    <3>4. QED
      BY <3>1, <3>2, <3>3 DEF size
  <2> HIDE DEF k
  <2>2. s[k].value = BC /\ s[k + 1].value = CB
    <3>1. k = b + 1
      BY DEF k
    <3>2. QED
      BY <1>4, <2>1, <3>1
  <2>3. Header(s, k)
    BY <2>1, <2>2 DEF Header
  <2>4. FrameLen(LengthAt(s, k)) <= MsgLen \/ Len(s) - k < MsgLen
    BY <1>3, <2>1, <2>3 DEF LineIsFair
  <2>5. whole <= MsgLen \/ Len(s) - k < MsgLen
    BY <1>4, <2>4 DEF k
  <2>6. Len(s) \in Nat
    BY <1>3
  <2> DEFINE room == Len(s) - k
  <2>7. room \in Int /\ room >= sum - 1 /\ (whole <= MsgLen \/ room < MsgLen)
        /\ sum \in Nat /\ sum <= whole /\ whole \in Nat /\ MsgLen \in Nat
    BY <1>3, <1>5, <1>9, <2>1, <2>5, <2>6
  <2> HIDE DEF sum, whole, room
  <2>8. QED
    BY <2>7
<1>11. m \in [1 .. MsgLen -> Bytes] /\ \A k \in 1 .. sum : m[k] = s[b + k]
  <2>1. ASSUME NEW k \in n + 1 .. sum PROVE q[k - n] = s[b + k] /\ q[k - n] \in Bytes
    <3>1. k - n \in 1 .. rl /\ k - n \in 1 .. Len(q) /\ Had(p) + (k - n) = b + k
      <4> DEFINE held == Len(q)
      <4>1. held \in Nat /\ rl \in 1 .. held /\ n \in Nat /\ Had(p) = b + n
        BY <1>2, <1>3, <1>6, <1>7
      <4> HIDE DEF held, n, b
      <4>2. k - n \in 1 .. rl /\ k - n \in 1 .. held /\ Had(p) + (k - n) = b + k
        BY <1>2, <4>1
      <4>3. QED
        BY <4>2 DEF held
    <3> DEFINE j == k - n
    <3>2. j \in 1 .. rl /\ j \in 1 .. Len(q) /\ Had(p) + j = b + k
      BY <3>1
    <3> HIDE DEF j, b
    <3>3. q[j] = s[b + k] /\ q[j] \in Bytes
      BY <1>3, <1>8, <3>2
    <3>4. QED
      BY <3>3 DEF j
  <2>2. ASSUME NEW k \in 1 .. MsgLen PROVE m[k] \in Bytes
    <3>1. CASE k > n /\ k <= sum
      <4>1. k \in n + 1 .. sum
        BY <1>3, <1>9, <3>1
      <4>2. QED
        BY <2>1, <3>1, <4>1
    <3>2. CASE ~(k > n /\ k <= sum)
      BY <1>3, <3>2
    <3>3. QED
      BY <3>1, <3>2
  <2>3. ASSUME NEW k \in 1 .. sum PROVE m[k] = s[b + k]
    <3>1. k \in 1 .. MsgLen
      BY <1>3, <1>9, <1>10
    <3>2. CASE k <= n
      <4>1. k \in 1 .. n /\ ~(k > n)
        BY <1>3, <3>1, <3>2
      <4>2. m[k] = msg[p][k]
        BY <3>1, <4>1
      <4>3. msg[p][k] = s[b + k]
        BY <1>4, <4>1
      <4>4. QED
        BY <4>2, <4>3
    <3>3. CASE k > n
      <4>1. k \in n + 1 .. sum /\ k <= sum
        BY <1>3, <1>9, <3>3
      <4>2. QED
        BY <2>1, <3>1, <3>3, <4>1
    <3>4. QED
      BY <1>3, <1>9, <3>2, <3>3
  <2>4. m = [k \in 1 .. MsgLen |-> m[k]]
    OBVIOUS
  <2> HIDE DEF m
  <2>5. QED
    BY <2>2, <2>3, <2>4
<1> HIDE DEF m
<1>12. /\ msg' \in [Ports -> [1 .. MsgLen -> Bytes]] /\ msg'[p] = m
       /\ pt_data' \in PtDatas /\ pt_data'.timeout_ms = pt_data.timeout_ms /\ pt_data'.sum = sum
       /\ pt_data'.step = 1 /\ pt_data'.body_len = pt_data.body_len
       /\ pt_data'.remaining_len = pt_data.remaining_len - rl
  <2>1. sum \in 0 .. MsgLen
    BY <1>9, <1>10
  <2> HIDE DEF sum
  <2>2. msg' \in [Ports -> [1 .. MsgLen -> Bytes]] /\ msg'[p] = m
    BY <1>1, <1>2, <1>11 DEF Types
  <2> DEFINE left == pt_data.remaining_len - rl
  <2>3. left \in Nat /\ pt_data' = [pt_data EXCEPT !.sum = sum, !.remaining_len = left]
    BY <1>1, <1>9
  <2> HIDE DEF left
  <2>4. pt_data' \in PtDatas /\ pt_data'.timeout_ms = pt_data.timeout_ms /\ pt_data'.sum = sum
        /\ pt_data'.step = 1 /\ pt_data'.body_len = pt_data.body_len /\ pt_data'.remaining_len = left
    BY <1>1, <1>3, <2>1, <2>3 DEF PtDatas
  <2>5. QED
    BY <2>2, <2>4 DEF left
<1>13. CASE sum = whole
  <2>1. EndRead(p, m, sum)
    <3>1. ~(sum > MsgLen) /\ sum <= MsgLen
      <4>1. sum \in Nat /\ MsgLen \in Nat
        BY <1>3, <1>9
      <4> HIDE DEF sum
      <4>2. QED
        BY <1>10, <4>1
    <3>2. QED
      BY <1>1, <1>13, <3>1 DEF m
  <2>2. (\E f \in FramesOf(s) : f[1] = b + 1 /\ f[2] = b + sum) \/ ~Ahead(s, b + 1)
    <3>1. SUFFICES ASSUME Ahead(s, b + 1) PROVE \E f \in FramesOf(s) : f[1] = b + 1 /\ f[2] = b + sum
      OBVIOUS
    <3>2. n \in Nat /\ n >= 2 /\ n >= 4 /\ b + n <= Len(s)
      <4>1. n \in Nat /\ n >= 4 /\ n < sum /\ sum \in Nat /\ b + sum <= Len(s) /\ Len(s) \in Nat
        BY <1>3, <1>4, <1>9
      <4> HIDE DEF n, sum, b, s
      <4>2. QED
        BY <1>2, <4>1
    <3>3. IsDue(s, b)
      BY <1>2, <1>3, <3>1, <3>2, HeldIsDue
    <3>4. PICK f \in FramesOf(s) : f[1] = b + 1
      BY <3>3 DEF IsDue
    <3>5. pt_data.step \in {0, 1}
      BY <1>1
    <3>6. f[2] = b + FrameLen(pt_data.body_len)
      <4> DEFINE m0 == msg[p]
      <4>1. BufferIs(s, b, m0, pt_data) /\ pt_data.sum >= 4 /\ pt_data.sum \in Nat
        BY <1>2, <3>2
      <4> HIDE DEF m0, s, b, n, whole, sum
      <4>2. QED
        BY <1>2, <1>3, <3>4, <3>5, <4>1, Unfinished
    <3>7. QED
      BY <1>13, <3>4, <3>6
  <2> HIDE DEF sum, b, s
  <2>3. UNCHANGED <<stream, line>>
    BY <1>1
  <2>4. QED
    BY <1>2, <1>8, <1>9, <1>11, <1>12, <2>1, <2>2, <2>3, ReadEnded DEF s
<1>14. CASE sum # whole
  <2>1. UNCHANGED <<stream, line, pc, running, delivered>>
    <3>1. ~(sum > MsgLen)
      <4>1. sum \in Nat /\ MsgLen \in Nat
        BY <1>3, <1>9
      <4> HIDE DEF sum
      <4>2. QED
        BY <1>10, <4>1
    <3>2. Continue
      BY <1>1, <1>14, <3>1
    <3>3. QED
      BY <1>1, <3>2 DEF Continue
  <2>2. Types'
    BY <1>2, <1>8, <1>12, <2>1 DEF Types
  <2>3. Done(p)' = b
    <3>1. Kept(p)' = sum
      BY <1>1, <1>12, <2>1 DEF Kept
    <3>2. Done(p)' = Had(p)' - sum
      BY <1>12, <3>1 DEF Done
    <3> HIDE DEF sum, b
    <3>3. QED
      BY <1>2, <1>9, <3>2
  <2>4. BufferHolds(p)'
    <3>1. BufferIs(s, b, m, pt_data')
      <4>1. sum >= 4 /\ sum < whole
        <5>1. n \in Nat /\ n >= 4 /\ n < sum /\ sum \in Nat /\ sum <= whole /\ sum # whole
          BY <1>3, <1>4, <1>9, <1>14
        <5> HIDE DEF sum, n, whole
        <5>2. QED
          BY <1>5, <5>1
      <4>2. pt_data.remaining_len - rl = whole - sum
        BY <1>3, <1>4, <1>5, <1>9
      <4> HIDE DEF sum, b, s
      <4>3. QED
        BY <1>4, <1>11, <1>12, <4>1, <4>2 DEF BufferIs
    <3>2. QED
      BY <1>1, <1>2, <1>12, <2>1, <2>3, <3>1 DEF BufferHolds
  <2>5. InTime(p)'
    <3> DEFINE waited == ResponseTimeout - pt_data.timeout_ms
    <3>1. pt_data.timeout_ms > 0
      BY <1>1, <1>2 DEF InTime
    <3>2. ASSUME Ahead(s, b + 1), NEW e \in EndsOf(s), e <= b PROVE waited = 0 \/ waited < (b + sum) - e
      <4>1. e \in Nat
        BY <1>2, <1>3, <3>2, EndsFar, b <= b + 2
      <4>2. waited = 0 \/ waited < Had(p) - e \/ waited = Had(p) - e
        BY <1>1, <1>2, <3>2 DEF InTime
      <4>3. waited \in Int /\ Had(p) = b + n /\ b \in Nat /\ n \in Nat /\ n < sum /\ sum \in Nat
        <5>1. waited \in Int /\ n \in Nat
          BY <1>3
        <5>2. Had(p) = b + n /\ b \in Nat
          BY <1>2
        <5>3. QED
          BY <1>9, <5>1, <5>2
      <4> HIDE DEF waited, sum, b, n
      <4>4. QED
        BY <4>1, <4>2, <4>3
    <3>3. QED
      BY <1>9, <1>12, <2>1, <2>3, <3>1, <3>2 DEF InTime
  <2>6. QED
    BY <1>1, <1>2, <1>8, <2>1, <2>2, <2>3, <2>4, <2>5, OnlyPort DEF PortHolds
<1>15. QED
  BY <1>13, <1>14

\* What no step of the UART changes, when nothing is read.
LEMMA NothingTaken ==
  ASSUME NEW p \in Ports, UartHolds(p), UNCHANGED <<stream, line, fifo>>
  PROVE  Had(p)' = Had(p) /\ UartHolds(p)'
<1>1. Had(p)' = Had(p)
  BY DEF Had
<1>2. QED
  BY <1>1 DEF UartHolds

LEMMA NothingToReadKeeps ==
  ASSUME OnePort, LinesAreFair, IInv, NEW p \in Ports, NothingToRead(p)
  PROVE  IInv'
<1> DEFINE s == stream[p]
           b == Done(p)
<1>1. /\ running = p /\ pc[p] = "loop" /\ fifo[p] = <<>>
      /\ UNCHANGED <<stream, line, fifo, msg, pt_data>>
      /\ IF pt_data.step = 0 /\ pt_data.sum = 0 THEN EndRead(p, msg[p], 0) ELSE Yield(p)
  BY DEF NothingToRead
<1>2. /\ Types /\ UartHolds(p) /\ Outside(s, b) /\ b \in Nat /\ Had(p) = b + pt_data.sum /\ Had(p) \in Nat
      /\ BufferIs(s, b, msg[p], pt_data) /\ Had(p) <= Len(s) /\ InTime(p)
      /\ delivered[p] = GoodFramesIn(s, b)
  BY <1>1, PortGives
<1>3. pt_data.sum \in Nat /\ pt_data.step \in {0, 1} /\ MsgLen \in Nat
  BY <1>2, TypesGive
<1>4. Had(p)' = Had(p) /\ UartHolds(p)'
  BY <1>1, <1>2, NothingTaken
<1>5. CASE pt_data.step = 0 /\ pt_data.sum = 0
  <2>1. b + 0 = Had(p) /\ b + 0 <= Len(s) /\ 0 \in Nat
    BY <1>2, <1>5
  <2>2. EndRead(p, msg[p], 0)
    BY <1>1, <1>5
  <2>3. Had(p)' = b + 0
    BY <1>4, <2>1
  <2>4. \A k \in 1 .. 0 : msg[p][k] = s[b + k]
    OBVIOUS
  <2>5. fifo' \in [Ports -> Seq(Bytes)] /\ msg' \in [Ports -> [1 .. MsgLen -> Bytes]] /\ pt_data' \in PtDatas
    BY <1>1, <1>2 DEF Types
  <2> HIDE DEF b
  <2>6. QED
    BY <1>1, <1>2, <1>4, <2>1, <2>2, <2>3, <2>4, <2>5, ReadEnded
<1>6. CASE ~(pt_data.step = 0 /\ pt_data.sum = 0)
  <2>1. /\ running' = NONE /\ UNCHANGED delivered
        /\ pc' = [pc EXCEPT ![p] = "yield"] \/ pc' = [pc EXCEPT ![p] = "stuck"]
    BY <1>1, <1>6 DEF Yield
  <2>2. pc'[p] \in {"yield", "stuck"} /\ pc' \in [Ports -> {"start", "loop", "yield", "stuck"}]
    BY <1>2, <2>1 DEF Types
  <2>3. Types'
    BY <1>1, <1>2, <2>1, <2>2 DEF Types
  <2>4. Done(p)' = b
    <3>1. Kept(p)' = Kept(p)
      BY <1>1, <2>2 DEF Kept
    <3>2. QED
      BY <1>4, <3>1 DEF Done
  <2>5. pt_data.sum > 0
    BY <1>2, <1>3, <1>6 DEF BufferIs
  <2>6. BufferHolds(p)'
    BY <1>1, <1>2, <2>4, <2>5 DEF BufferHolds
  <2>7. InTime(p)'
    BY <1>1, <1>2, <1>4, <2>4 DEF InTime
  <2>8. QED
    BY <1>1, <1>2, <1>4, <2>1, <2>3, <2>4, <2>6, <2>7, NoneIsNoPort, OnlyPort DEF PortHolds
<1>7. QED
  BY <1>5, <1>6
LEMMA BufferFullKeeps ==
  ASSUME OnePort, LinesAreFair, IInv, NEW p \in Ports, BufferFull(p)
  PROVE  IInv'
<1> DEFINE s == stream[p]
           b == Done(p)
           n == pt_data.sum
<1>1. /\ pc[p] = "loop" /\ n = MsgLen /\ EndRead(p, msg[p], n)
      /\ UNCHANGED <<stream, line, fifo, msg, pt_data>>
  BY DEF BufferFull
<1>2. /\ Types /\ UartHolds(p) /\ Outside(s, b) /\ b \in Nat /\ Had(p) = b + n /\ Had(p) \in Nat
      /\ BufferIs(s, b, msg[p], pt_data) /\ Had(p) <= Len(s) /\ delivered[p] = GoodFramesIn(s, b)
  BY <1>1, PortGives
<1>3. s \in Seq(Bytes) /\ LineIsFair(s) /\ n \in Nat /\ pt_data.step \in {0, 1} /\ pt_data.body_len \in Nat
  BY <1>1, <1>2, TypesGive, Numbers
<1>4. Had(p)' = Had(p) /\ UartHolds(p)'
  BY <1>1, <1>2, NothingTaken
<1>5. ~IsDue(s, b)
  <2>1. ASSUME NEW f \in FramesOf(s), f[1] = b + 1 PROVE FALSE
    <3>1. b + n < f[2]
      BY <1>2, <1>3, <2>1, Unfinished
    <3>2. f[2] - f[1] < MsgLen /\ f[2] \in Nat
      BY <1>3, FrameFits, FrameEnds
    <3> HIDE DEF b, n
    <3>3. QED
      BY <1>1, <1>2, <1>3, <2>1, <3>1, <3>2
  <2>2. QED
    BY <2>1 DEF IsDue
<1>6. n = 0 \/ (n = 1 /\ ~IsDue(s, b)) \/ ~Ahead(s, b + 1)
  <2>1. CASE n >= 2
    <3>1. b + n <= Len(s)
      BY <1>2
    <3>2. QED
      BY <1>2, <1>3, <1>5, <2>1, <3>1, HeldIsDue
  <2>2. CASE ~(n >= 2)
    BY <1>3, <1>5, <2>2
  <2>3. QED
    BY <2>1, <2>2
<1>7. fifo' \in [Ports -> Seq(Bytes)] /\ msg' \in [Ports -> [1 .. MsgLen -> Bytes]] /\ pt_data' \in PtDatas
  BY <1>1, <1>2 DEF Types
<1>8. /\ b + n <= Len(s) /\ Had(p)' = b + n /\ \A k \in 1 .. n : msg[p][k] = s[b + k]
      /\ UNCHANGED <<stream, line>>
  BY <1>1, <1>2, <1>4 DEF BufferIs
<1> HIDE DEF b, n
<1>9. QED
  BY <1>1, <1>2, <1>3, <1>4, <1>6, <1>7, <1>8, ReadEnded

\* The line is not silent behind a byte that is kept, when a frame is ahead.
LEMMA NotSilent ==
  ASSUME LinesAreFair, IInv, NEW p \in Ports, pc[p] = "yield", fifo[p] = <<>>,
         Ahead(stream[p], Done(p) + 1)
  PROVE  ~Silent(p)
<1> DEFINE s == stream[p]
           b == Done(p)
           n == pt_data.sum
           h == Had(p)
<1>1. /\ Types /\ Outside(s, b) /\ b \in Nat /\ h = b + n /\ h \in Nat
      /\ BufferIs(s, b, msg[p], pt_data) /\ h <= Len(s) /\ n > 0
  BY PortGives DEF BufferHolds
<1>2. /\ s \in Seq(Bytes) /\ LineIsFair(s) /\ n \in Nat /\ pt_data.step \in {0, 1} /\ pt_data.body_len \in Nat
      /\ Len(s) \in Nat /\ Len(line[p]) \in Nat
  <2>1. n \in 0 .. MsgLen /\ MsgLen \in Nat
    BY <1>1, TypesGive
  <2>2. n \in Nat
    BY <2>1
  <2>3. QED
    BY <1>1, <2>2, TypesGive
<1>3. Len(s) - Len(line[p]) = h
  BY <1>2 DEF Had
<1> HIDE DEF s, b, n, h
<1> SUFFICES ASSUME h \in 1 .. Len(s) - 1 => s[h].frame > 0 /\ s[h + 1].frame # s[h].frame
             PROVE  FALSE
  BY <1>3 DEF Silent, s
<1>4. Ahead(s, b + 1)
  BY DEF s, b
<1>5. CASE IsDue(s, b)
  <2>1. PICK f \in FramesOf(s) : f[1] = b + 1
    BY <1>5 DEF IsDue
  <2>2. b + n < f[2]
    BY <1>1, <1>2, <2>1, Unfinished DEF n
  <2>3. f[2] \in 1 .. Len(s)
    BY <1>2, FrameIs
  <2>4. h \in f[1] .. f[2] /\ h + 1 \in f[1] .. f[2] /\ h \in 1 .. Len(s) - 1
    BY <1>1, <1>2, <2>1, <2>2, <2>3
  <2>5. s[h].frame = s[f[1]].frame /\ s[h + 1].frame = s[f[1]].frame
    BY <1>2, <2>4, FrameIs
  <2>6. QED
    BY <2>4, <2>5
<1>6. CASE ~IsDue(s, b)
  <2>1. n = 1
    <3>1. CASE n >= 2
      <4>1. b + n <= Len(s)
        BY <1>1
      <4>2. QED
        BY <1>1, <1>2, <1>4, <1>6, <3>1, <4>1, HeldIsDue DEF n
    <3>2. QED
      BY <1>1, <1>2, <3>1
  <2>2. h = b + 1 /\ h \in DOMAIN s
    BY <1>1, <1>2, <2>1
  <2>3. ~Opens(s[h])
    <3>1. SUFFICES ASSUME Opens(s[h]) PROVE FALSE
      OBVIOUS
    <3>2. \E f \in FramesOf(s) : f[1] = h
      BY <1>2, <2>2, <3>1 DEF LineIsFair
    <3>3. QED
      BY <1>4, <1>6, <2>2, <3>2 DEF IsDue
  <2>4. PICK o \in h .. Len(s) : Opens(s[o])
    BY <1>4, <2>2 DEF Ahead
  <2>5. o # h /\ h < Len(s) /\ o \in h + 1 .. Len(s)
    BY <1>1, <1>2, <2>3, <2>4
  <2>6. Ahead(s, h + 1)
    BY <2>4, <2>5 DEF Ahead
  <2>7. s[h].frame > 0 /\ s[h + 1].frame # s[h].frame
    BY <1>1, <1>2, <2>2, <2>5
  <2>8. PICK f \in FramesOf(s) : f[2] = h
    BY <1>2, <2>2, <2>5, <2>6, <2>7 DEF LineIsFair
  <2>9. f[1] \in Nat /\ f[1] + 5 <= f[2]
    BY <1>2, FrameEnds
  <2>10. f[1] <= b + 1
    BY <1>1, <2>2, <2>8, <2>9
  <2>11. Ahead(s, f[1])
    <3>1. b + 1 \in Nat
      BY <1>1
    <3>2. QED
      BY <1>2, <1>4, <2>9, <2>10, <3>1, AheadBefore
  <2>12. b < f[1] \/ f[2] <= b
    BY <1>1, <2>11 DEF Outside
  <2>13. QED
    BY <1>1, <2>2, <2>8, <2>9, <2>12
<1>7. QED
  BY <1>5, <1>6

LEMMA ResumeKeeps ==
  ASSUME OnePort, LinesAreFair, IInv, NEW p \in Ports, Resume(p)
  PROVE  IInv'
<1> DEFINE s == stream[p]
           b == Done(p)
           n == pt_data.sum
           h == Had(p)
           t == pt_data.timeout_ms - 1
           waited == ResponseTimeout - pt_data.timeout_ms
<1>1. /\ pc[p] = "yield" /\ (fifo[p] # <<>> \/ Silent(p))
      /\ pt_data' = [pt_data EXCEPT !.timeout_ms = t]
      /\ IF t > 0 THEN running' = p /\ pc' = [pc EXCEPT ![p] = "loop"] /\ UNCHANGED delivered
                  ELSE EndRead(p, msg[p], n)
      /\ UNCHANGED <<stream, line, fifo, msg>>
  BY DEF Resume
<1>2. /\ Types /\ UartHolds(p) /\ Outside(s, b) /\ b \in Nat /\ h = b + n /\ h \in Nat
      /\ BufferIs(s, b, msg[p], pt_data) /\ h <= Len(s) /\ n > 0 /\ InTime(p)
      /\ delivered[p] = GoodFramesIn(s, b)
  BY <1>1, PortGives DEF BufferHolds
<1>3. /\ s \in Seq(Bytes) /\ LineIsFair(s) /\ n \in Nat /\ pt_data.step \in {0, 1} /\ pt_data.body_len \in Nat
      /\ pt_data \in PtDatas /\ pt_data.timeout_ms \in 0 .. ResponseTimeout /\ ResponseTimeout \in Nat \ {0}
  <2>1. n \in 0 .. MsgLen /\ MsgLen \in Nat
    BY <1>2, TypesGive
  <2>2. n \in Nat
    BY <2>1
  <2>3. QED
    BY <1>2, <2>2, TypesGive DEF Types
<1>4. pt_data.timeout_ms > 0
  BY <1>1, <1>2 DEF InTime
<1>5. t \in 0 .. ResponseTimeout /\ waited \in Nat /\ ResponseTimeout - t = waited + 1
  <2> DEFINE u == pt_data.timeout_ms
  <2>1. u \in 0 .. ResponseTimeout /\ u > 0 /\ ResponseTimeout \in Nat
    BY <1>3, <1>4
  <2> HIDE DEF u
  <2>2. u - 1 \in 0 .. ResponseTimeout /\ ResponseTimeout - u \in Nat
        /\ ResponseTimeout - (u - 1) = (ResponseTimeout - u) + 1
    BY <2>1
  <2>3. QED
    BY <2>2 DEF u
<1>6. h' = h /\ UartHolds(p)'
  BY <1>1, <1>2, NothingTaken
<1> HIDE DEF t
<1>7. /\ pt_data' \in PtDatas /\ pt_data'.timeout_ms = t /\ pt_data'.sum = n /\ pt_data'.step = pt_data.step
      /\ pt_data'.remaining_len = pt_data.remaining_len /\ pt_data'.body_len = pt_data.body_len
  BY <1>1, <1>3, <1>5 DEF PtDatas
<1>8. ASSUME Ahead(s, b + 1), NEW e \in EndsOf(s), e <= b
      PROVE  waited = 0 \/ waited < h - e
  BY <1>1, <1>2, <1>8 DEF InTime
<1>9. CASE t > 0
  <2>1. running' = p /\ pc' = [pc EXCEPT ![p] = "loop"] /\ UNCHANGED delivered
    BY <1>1, <1>9
  <2>2. pc'[p] = "loop" /\ pc' \in [Ports -> {"start", "loop", "yield", "stuck"}]
    BY <1>2, <2>1 DEF Types
  <2>3. Types'
    BY <1>1, <1>2, <1>7, <2>1, <2>2 DEF Types
  <2>4. Done(p)' = b
    <3>1. Kept(p)' = Kept(p)
      BY <1>1, <1>7, <2>2 DEF Kept
    <3>2. QED
      BY <1>6, <3>1 DEF Done
  <2>5. BufferHolds(p)'
    <3>1. BufferIs(s, b, msg[p], pt_data')
      BY <1>2, <1>7 DEF BufferIs
    <3>2. QED
      BY <1>1, <1>2, <2>2, <2>4, <3>1 DEF BufferHolds
  <2>6. InTime(p)'
    <3>1. ASSUME Ahead(s, b + 1), NEW e \in EndsOf(s), e <= b
          PROVE  waited + 1 < h - e \/ (waited + 1 = h - e /\ fifo[p] # <<>>)
      <4>1. e \in Nat
        BY <1>2, <1>3, <3>1, EndsFar, b <= b + 2
      <4>2. waited = 0 \/ waited < h - e
        BY <1>8, <3>1
      <4>3. fifo[p] # <<>>
        <5>1. fifo[p] = <<>> => ~Silent(p)
          BY <1>1, <3>1, NotSilent
        <5>2. QED
          BY <1>1, <5>1
      <4> HIDE DEF waited, h, b, n
      <4>4. waited + 1 < h - e \/ waited + 1 = h - e
        BY <1>2, <1>3, <1>5, <3>1, <4>1, <4>2
      <4>5. QED
        BY <4>3, <4>4
    <3>2. pt_data'.timeout_ms > 0 /\ ResponseTimeout - pt_data'.timeout_ms = waited + 1
      BY <1>5, <1>7, <1>9
    <3>3. stream'[p] = s /\ fifo'[p] = fifo[p] /\ Had(p)' = h
      BY <1>1, <1>6
    <3> HIDE DEF waited, h, b, s
    <3>4. QED
      BY <2>2, <2>4, <3>1, <3>2, <3>3 DEF InTime
  <2>7. QED
    BY <1>1, <1>2, <1>6, <2>1, <2>2, <2>3, <2>4, <2>5, <2>6, OnlyPort DEF PortHolds
<1>10. CASE ~(t > 0)
  <2>1. EndRead(p, msg[p], n) /\ UNCHANGED <<stream, line>>
    BY <1>1, <1>10
  <2>2. t = 0 /\ waited + 1 = ResponseTimeout
    BY <1>3, <1>5, <1>10
  <2>3. ~IsDue(s, b)
    <3>1. SUFFICES ASSUME IsDue(s, b) PROVE FALSE
      OBVIOUS
    <3>2. PICK f \in FramesOf(s) : f[1] = b + 1
      BY <3>1 DEF IsDue
    <3>3. b + n < f[2] /\ f[2] \in Nat /\ f[1] + 5 <= f[2]
      <4>1. f[2] \in Nat /\ f[1] + 5 <= f[2]
        BY <1>3, FrameEnds
      <4> DEFINE m == msg[p]
      <4>2. BufferIs(s, b, m, pt_data) /\ pt_data.sum \in Nat
        BY <1>2, <1>3
      <4> HIDE DEF m, s, b
      <4>3. b + pt_data.sum < f[2]
        BY <1>2, <1>3, <3>2, <4>2, Unfinished
      <4>4. QED
        BY <4>1, <4>3
    <3>4. PICK e \in EndsOf(s) : e < f[1] /\ f[2] - e <= ResponseTimeout
      BY <1>3 DEF LineIsFair, EndsOf
    <3>5. e \in Nat
      <4>1. ASSUME NEW g \in FramesOf(s) PROVE g[2] \in Nat
        BY <1>3, FrameEnds
      <4>2. QED
        BY <4>1 DEF EndsOf
    <3>6. e <= b
      BY <1>2, <3>2, <3>4, <3>5
    <3>7. Ahead(s, b + 1)
      BY <3>1 DEF IsDue
    <3>8. waited = 0 \/ waited < h - e
      BY <1>8, <3>6, <3>7
    <3> HIDE DEF waited, h, b, n
    <3>9. QED
      BY <1>2, <1>3, <1>5, <2>2, <3>2, <3>3, <3>4, <3>5, <3>6, <3>8
  <2>4. n = 0 \/ (n = 1 /\ ~IsDue(s, b)) \/ ~Ahead(s, b + 1)
    <3>1. CASE n >= 2
      <4>1. b + n <= Len(s)
        BY <1>2
      <4>2. QED
        BY <1>2, <1>3, <2>3, <3>1, <4>1, HeldIsDue
    <3>2. CASE ~(n >= 2)
      BY <1>3, <2>3, <3>2
    <3>3. QED
      BY <3>1, <3>2
  <2>5. fifo' \in [Ports -> Seq(Bytes)] /\ msg' \in [Ports -> [1 .. MsgLen -> Bytes]]
    BY <1>1, <1>2 DEF Types
  <2>6. b + n <= Len(s) /\ Had(p)' = b + n /\ \A k \in 1 .. n : msg[p][k] = s[b + k]
    BY <1>2, <1>6 DEF BufferIs
  <2> HIDE DEF b, n
  <2>7. QED
    BY <1>2, <1>3, <1>6, <1>7, <2>1, <2>4, <2>5, <2>6, ReadEnded
<1>11. QED
  BY <1>9, <1>10

--------------------------------------------------------------------------------
(* The theorems                                                            *)

LEMMA InitHolds ==
  ASSUME OnePort, LinesAreFair, Init
  PROVE  IInv
<1>1. Types
  <2>1. stream \in [Ports -> Seq(Bytes)]
    BY DEF Init, LinesAreFair
  <2>2. Stale \in Bytes
    BY DEF Stale, Noise, Bytes
  <2>3. msg \in [Ports -> [1 .. MsgLen -> Bytes]]
    BY <2>2 DEF Init
  <2>4. pt_data \in PtDatas
    BY Numbers DEF Init, FreshPtData, PtDatas
  <2>5. QED
    BY <2>1, <2>3, <2>4 DEF Init, Types
<1>2. ASSUME NEW p \in Ports PROVE PortHolds(p)
  <2> DEFINE s == stream[p]
  <2>1. s \in Seq(Bytes) /\ Len(s) \in Nat
    BY <1>1, TypesGive
  <2>2. line[p] = s /\ fifo[p] = <<>> /\ pc[p] = "start" /\ running = NONE /\ delivered[p] = <<>>
    BY DEF Init
  <2>3. Had(p) = 0
    <3>1. Had(p) = Len(s) - Len(s) - Len(<<>>) /\ Len(<<>>) = 0
      BY <2>2 DEF Had
    <3>2. Len(s) - Len(s) - 0 = 0
      BY <2>1
    <3>3. QED
      BY <3>1, <3>2
  <2>4. Done(p) = 0
    BY <2>2, <2>3 DEF Done, Kept
  <2>5. UartHolds(p)
    <3>1. \A i \in 1 .. Len(s) : Len(s) - Len(s) + i = i
      BY <2>1
    <3>2. QED
      BY <2>2, <2>3, <3>1 DEF UartHolds
  <2>6. BufferHolds(p) /\ InTime(p)
    BY <2>2 DEF BufferHolds, InTime
  <2>7. Outside(s, 0)
    <3>1. ASSUME NEW f \in FramesOf(s) PROVE 0 < f[1]
      BY <2>1, FrameIs
    <3>2. QED
      BY <3>1 DEF Outside
  <2>8. delivered[p] = GoodFramesIn(s, 0)
    BY <2>1, <2>2, FoundIs
  <2>9. QED
    BY <2>2, <2>4, <2>5, <2>6, <2>7, <2>8, NoneIsNoPort DEF PortHolds
<1>3. QED
  BY <1>1, <1>2 DEF IInv

LEMMA NextKeeps ==
  ASSUME OnePort, LinesAreFair, IInv, [Next]_vars
  PROVE  IInv'
<1>1. ASSUME NEW p \in Ports, ByteArrives(p) \/ apbus_serial_read(p)
      PROVE  IInv'
  <2>1. CASE ByteArrives(p)
    BY <2>1, ByteArrivesKeeps
  <2>2. CASE StartRead(p)
    BY <2>2, StartReadKeeps
  <2>3. CASE SeekHeader(p)
    BY <2>3, SeekHeaderKeeps
  <2>4. CASE ReadRest(p)
    BY <2>4, ReadRestKeeps
  <2>5. CASE NothingToRead(p)
    BY <2>5, NothingToReadKeeps
  <2>6. CASE BufferFull(p)
    BY <2>6, BufferFullKeeps
  <2>7. CASE Resume(p)
    BY <2>7, ResumeKeeps
  <2>8. QED
    BY <1>1, <2>1, <2>2, <2>3, <2>4, <2>5, <2>6, <2>7 DEF apbus_serial_read
<1>2. CASE UNCHANGED vars
  BY <1>2 DEF vars, IInv, Types, PortHolds, UartHolds, BufferHolds, InTime, Had, Kept, Done
<1>3. QED
  BY <1>1, <1>2 DEF Next

LEMMA ReaderAlways ==
  ASSUME OnePort, LinesAreFair
  PROVE  Spec => []IInv
<1>1. Init => IInv
  BY InitHolds
<1>2. IInv /\ [Next]_vars => IInv'
  BY NextKeeps
<1>3. QED
  BY <1>1, <1>2, PTL DEF Spec

LEMMA RestIsSuffix ==
  ASSUME NEW s \in Seq(Bytes), NEW l \in Seq(Bytes), Len(l) <= Len(s),
         \A i \in 1 .. Len(l) : l[i] = s[Len(s) - Len(l) + i]
  PROVE  IsSuffix(l, s)
<1> DEFINE n == Len(s)
           a == Len(l)
           rs == Reverse(s)
           rl == Reverse(l)
<1>1. n \in Nat /\ a \in Nat /\ a <= n
  OBVIOUS
<1>2. rs = [i \in 1 .. n |-> s[n - i + 1]] /\ rl = [i \in 1 .. a |-> l[a - i + 1]]
  BY DEF Reverse
<1> HIDE DEF rs, rl
<1>3. \A i \in 1 .. n : s[i] \in Bytes
  OBVIOUS
<1>4. \A i \in 1 .. a : l[i] \in Bytes /\ l[i] = s[n - a + i]
  OBVIOUS
<1> HIDE DEF n, a
<1>5. rs \in Seq(Bytes) /\ Len(rs) = n /\ rl \in Seq(Bytes) /\ Len(rl) = a
  <2>1. (\A i \in 1 .. n : n - i + 1 \in 1 .. n) /\ (\A i \in 1 .. a : a - i + 1 \in 1 .. a)
    BY <1>1
  <2>2. rs \in [1 .. n -> Bytes] /\ rl \in [1 .. a -> Bytes]
    BY <1>2, <1>3, <1>4, <2>1
  <2>3. QED
    BY <1>1, <2>2
<1>6. \A i \in 1 .. a : rl[i] = rs[i]
  <2>1. ASSUME NEW i \in 1 .. a PROVE rl[i] = rs[i]
    <3>1. a - i + 1 \in 1 .. a /\ n - a + (a - i + 1) = n - i + 1 /\ i \in 1 .. n
      BY <1>1
    <3>2. QED
      BY <1>2, <1>4, <3>1
  <2>2. QED
    BY <2>1
<1>7. SubSeq(rs, 1, a) = SubSeq(rl, 1, a)
  <2>1. SubSeq(rs, 1, a) = [i \in 1 .. a |-> rs[i]] /\ SubSeq(rl, 1, a) = [i \in 1 .. a |-> rl[i]]
    BY <1>1, <1>5
  <2>2. QED
    BY <1>6, <2>1
<1>8. IsPrefix(rl, rs)
  BY <1>1, <1>5, <1>7 DEF IsPrefix
<1>9. QED
  BY <1>8 DEF IsSuffix, rs, rl

\* Over a line that is fair, whatever its noise, the frames that were damaged on
\* it and the moments the bytes come and the main loop runs, the reader delivers
\* undamaged frames only, in their order, and has lost none of those it passed.
THEOREM ReaderDelivers ==
  ASSUME OnePort, LinesAreFair
  PROVE  Spec => []DeliversFramesSent
<1>1. IInv => DeliversFramesSent
  <2> SUFFICES ASSUME IInv, NEW p \in Ports PROVE IsPrefix(delivered[p], GoodFrames(stream[p]))
    BY DEF DeliversFramesSent
  <2>1. Types /\ Done(p) \in Nat /\ Had(p) = Done(p) + Kept(p) /\ Had(p) <= Len(stream[p])
        /\ delivered[p] = GoodFramesIn(stream[p], Done(p))
    BY PortGives
  <2>2. stream[p] \in Seq(Bytes) /\ Len(stream[p]) \in Nat /\ pt_data.sum \in 0 .. MsgLen /\ MsgLen \in Nat
    BY <2>1, TypesGive
  <2>3. Kept(p) \in Nat
    BY <2>2 DEF Kept
  <2>4. Done(p) \in 0 .. Len(stream[p])
    BY <2>1, <2>2, <2>3
  <2>5. QED
    BY <2>1, <2>2, <2>4, FoundBefore
<1>2. QED
  BY <1>1, ReaderAlways, PTL

--------------------------------------------------------------------------------
(* Any line                                                                *)

LinesAreBytes == Streams \subseteq Seq(Bytes)

AnyPtDatas ==
  [sum : Nat, timeout_ms : 0 .. ResponseTimeout, remaining_len : Nat, step : {0, 1}, body_len : Nat]

Places == {"start", "loop", "yield", "stuck", "overrun"}

\* What the count of the bytes obeys, whatever the bytes are.
Counts ==
  /\ pt_data \in AnyPtDatas
  /\ pt_data.step = 1 => pt_data.sum + pt_data.remaining_len = FrameLen(pt_data.body_len)
  /\ pc \in [Ports -> Places]
  /\ running \in Ports \cup {NONE}
  /\ \A p \in Ports : pc[p] \notin {"start", "overrun"} => pt_data.timeout_ms > 0 /\ pt_data.sum <= MsgLen
  /\ \A p \in Ports : pc[p] = "overrun" => running = p /\ pt_data.sum > MsgLen
  /\ \A p \in Ports : running = p => pc[p] \in {"loop", "overrun"}
  /\ \A p \in Ports : pc[p] = "start" => pt_data.sum <= MsgLen
  /\ Ports = {} => pt_data.sum <= MsgLen

BytesCome ==
  /\ stream \in [Ports -> Streams]
  /\ line \in [Ports -> Seq(Bytes)]
  /\ fifo \in [Ports -> Seq(Bytes)]
  /\ \A p \in Ports :
       /\ Len(line[p]) <= Len(stream[p])
       /\ \A i \in 1 .. Len(line[p]) : line[p][i] = stream[p][Len(stream[p]) - Len(line[p]) + i]

AnyInv == BytesCome /\ Counts

\* The counts after a step of the only port there is.
LEMMA CountsAfter ==
  ASSUME OnePort, NEW p \in Ports, Counts, NEW at \in Places, pc' = [pc EXCEPT ![p] = at],
         pt_data' \in AnyPtDatas,
         pt_data'.step = 1 => pt_data'.sum + pt_data'.remaining_len = FrameLen(pt_data'.body_len),
         running' = IF at \in {"loop", "overrun"} THEN p ELSE NONE,
         at = "overrun" <=> pt_data'.sum > MsgLen,
         at \in {"loop", "yield", "stuck"} => pt_data'.timeout_ms > 0
  PROVE  Counts'
<1>1. pc' \in [Ports -> Places] /\ pc'[p] = at
  BY DEF Counts
<1>2. running' \in Ports \cup {NONE}
  OBVIOUS
<1>3. ~(at = "overrun") => pt_data'.sum <= MsgLen
  BY Numbers DEF AnyPtDatas
<1>4. ASSUME NEW q \in Ports
      PROVE  /\ pc'[q] \notin {"start", "overrun"} => pt_data'.timeout_ms > 0 /\ pt_data'.sum <= MsgLen
             /\ pc'[q] = "overrun" => running' = q /\ pt_data'.sum > MsgLen
             /\ running' = q => pc'[q] \in {"loop", "overrun"}
             /\ pc'[q] = "start" => pt_data'.sum <= MsgLen
  <2>1. q = p
    BY DEF OnePort
  <2>2. NONE # p
    BY NoneIsNoPort
  <2>3. QED
    BY <1>1, <1>3, <2>1, <2>2 DEF Places
<1>5. QED
  BY <1>1, <1>2, <1>4 DEF Counts

\* What the reader takes from the UART leaves bytes there.
LEMMA BytesLeft ==
  ASSUME BytesCome, NEW p \in Ports, NEW r \in 0 .. Len(fifo[p]),
         fifo' = [fifo EXCEPT ![p] = SubSeq(@, r + 1, Len(@))], UNCHANGED <<stream, line>>
  PROVE  BytesCome'
<1> DEFINE q == fifo[p]
           rest == SubSeq(q, r + 1, Len(q))
<1>1. q \in Seq(Bytes) /\ r \in Nat
  BY DEF BytesCome
<1> HIDE DEF q
<1>2. rest \in Seq(Bytes)
  BY <1>1
<1> HIDE DEF rest
<1>3. fifo' = [fifo EXCEPT ![p] = rest]
  BY DEF rest, q
<1>4. fifo' \in [Ports -> Seq(Bytes)]
  BY <1>2, <1>3 DEF BytesCome
<1>5. QED
  BY <1>4 DEF BytesCome

LEMMA ByteArrivesAnyLine ==
  ASSUME LinesAreBytes, AnyInv, NEW p \in Ports, ByteArrives(p)
  PROVE  AnyInv'
<1> DEFINE l == line[p]
           q == fifo[p]
           n == Len(stream[p])
           more == Append(q, Head(l))
           left == Tail(l)
<1>1. /\ fifo' = [fifo EXCEPT ![p] = more] /\ line' = [line EXCEPT ![p] = left] /\ l # <<>>
      /\ UNCHANGED <<stream, msg, pt_data, pc, running, delivered>>
  BY DEF ByteArrives
<1>2. /\ BytesCome /\ Counts /\ l \in Seq(Bytes) /\ q \in Seq(Bytes)
      /\ Len(l) <= n /\ \A i \in 1 .. Len(l) : l[i] = stream[p][n - Len(l) + i]
  BY DEF AnyInv, BytesCome
<1> HIDE DEF l, q
<1>3. /\ left \in Seq(Bytes) /\ Len(left) = Len(l) - 1 /\ Len(l) \in Nat \ {0}
      /\ \A i \in 1 .. Len(l) - 1 : left[i] = l[i + 1]
  BY <1>1, <1>2
<1>4. Head(l) \in Bytes
  BY <1>1, <1>2
<1> DEFINE x == Head(l)
<1>5. Append(q, x) \in Seq(Bytes)
  <2>1. x \in Bytes
    BY <1>4
  <2> HIDE DEF x
  <2>2. QED
    BY <1>2, <2>1
<1> HIDE DEF left, more
<1>6. fifo' \in [Ports -> Seq(Bytes)] /\ line' \in [Ports -> Seq(Bytes)] /\ line'[p] = left
  BY <1>1, <1>2, <1>3, <1>5 DEF BytesCome, more
<1>7. n - Len(left) = (n - Len(l)) + 1 /\ Len(left) <= n
      /\ \A i \in 1 .. Len(left) : left[i] = stream[p][n - Len(left) + i]
  <2> DEFINE a == Len(l)
  <2>1. a \in Nat \ {0} /\ Len(left) = a - 1 /\ a <= n /\ \A i \in 1 .. a : l[i] = stream[p][n - a + i]
    BY <1>2, <1>3
  <2>2. n \in Int
    <3>1. stream[p] \in Streams
      BY <1>2 DEF BytesCome
    <3>2. stream[p] \in Seq(Bytes)
      BY <3>1 DEF LinesAreBytes
    <3>3. QED
      BY <3>2
  <2>3. \A i \in 1 .. a - 1 : left[i] = l[i + 1]
    BY <1>3
  <2> HIDE DEF a, n
  <2>4. n - (a - 1) = (n - a) + 1 /\ a - 1 <= n
    BY <2>1, <2>2
  <2>5. ASSUME NEW i \in 1 .. a - 1 PROVE left[i] = stream[p][n - (a - 1) + i]
    <3>1. i + 1 \in 1 .. a /\ n - a + (i + 1) = n - (a - 1) + i
      BY <2>1, <2>2
    <3>2. QED
      BY <2>1, <2>3, <3>1
  <2>6. QED
    BY <2>1, <2>4, <2>5 DEF a
<1>8. BytesCome'
  BY <1>1, <1>2, <1>6, <1>7 DEF BytesCome
<1>9. Counts'
  BY <1>1, <1>2 DEF Counts
<1>10. QED
  BY <1>8, <1>9 DEF AnyInv

LEMMA ReadAnyLine ==
  ASSUME OnePort, AnyInv, NEW p \in Ports, apbus_serial_read(p)
  PROVE  AnyInv'
<1>1. /\ BytesCome /\ Counts /\ fifo[p] \in Seq(Bytes) /\ pt_data \in AnyPtDatas
      /\ pc[p] \notin {"start", "overrun"} => pt_data.timeout_ms > 0 /\ pt_data.sum <= MsgLen
      /\ pt_data.step = 1 => pt_data.sum + pt_data.remaining_len = FrameLen(pt_data.body_len)
      /\ pc[p] = "start" => pt_data.sum <= MsgLen
  BY DEF AnyInv, BytesCome, Counts
<1>2. /\ pt_data.sum \in Nat /\ pt_data.timeout_ms \in 0 .. ResponseTimeout /\ pt_data.remaining_len \in Nat
      /\ pt_data.step \in {0, 1} /\ pt_data.body_len \in Nat
      /\ ResponseTimeout \in Nat \ {0} /\ MsgLen \in Nat /\ MsgLen > 4
  BY <1>1, Numbers DEF AnyPtDatas
<1>3. pt_data.sum <= MsgLen => ~(pt_data.sum > MsgLen)
  BY <1>2
<1>4. ASSUME UNCHANGED <<stream, line, fifo>> PROVE BytesCome'
  BY <1>1, <1>4 DEF BytesCome
<1>5. CASE StartRead(p)
  <2>1. /\ pc' = [pc EXCEPT ![p] = "loop"] /\ running' = p /\ UNCHANGED <<stream, line, fifo>>
        /\ pt_data' = [sum |-> 0, timeout_ms |-> ResponseTimeout, remaining_len |-> 0, step |-> 0, body_len |-> 0]
    BY <1>5 DEF StartRead, FreshPtData
  <2>2. pt_data' \in AnyPtDatas /\ pt_data'.step = 0 /\ ~(pt_data'.sum > MsgLen) /\ pt_data'.timeout_ms > 0
    BY <1>2, <2>1 DEF AnyPtDatas
  <2>3. PICK at \in Places : at = "loop"
    BY DEF Places
  <2>4. /\ pc' = [pc EXCEPT ![p] = at] /\ running' = IF at \in {"loop", "overrun"} THEN p ELSE NONE
        /\ ~(at = "overrun")
    BY <2>1, <2>3
  <2>5. Counts'
    <3>1. pt_data'.step = 1 => pt_data'.sum + pt_data'.remaining_len = FrameLen(pt_data'.body_len)
      BY <2>2
    <3>2. at = "overrun" <=> pt_data'.sum > MsgLen
      BY <2>2, <2>4
    <3>3. QED
      BY <1>1, <2>2, <2>4, <3>1, <3>2, CountsAfter
  <2>6. QED
    BY <1>4, <2>1, <2>5 DEF AnyInv
<1>6. CASE SeekHeader(p)
  <2> DEFINE b == Head(fifo[p])
  <2>1. /\ pc[p] = "loop" /\ running = p /\ UNCHANGED <<stream, line, pc, running>> /\ fifo[p] # <<>>
        /\ pt_data.step = 0 /\ fifo' = [fifo EXCEPT ![p] = Tail(@)]
    BY <1>6 DEF SeekHeader, Continue
  <2>2. /\ \/ pt_data' = [pt_data EXCEPT !.sum = IF b.value = BC THEN 1 ELSE 0]
           \/ pt_data' = [pt_data EXCEPT !.sum = AfterBC(b.value)]
           \/ pt_data' = [pt_data EXCEPT !.sum = 3, !.body_len = b.value]
           \/ pt_data' = [pt_data EXCEPT !.sum = 4, !.step = 1,
                                         !.body_len = pt_data.body_len + 256 * b.value,
                                         !.remaining_len = pt_data.body_len + 256 * b.value + Fixed]
    BY <1>6 DEF SeekHeader
  <2>3. b.value \in Nat
    <3>1. b \in Bytes
      BY <1>1, <2>1
    <3>2. QED
      BY <3>1 DEF Bytes
  <2> DEFINE v == b.value
             len == pt_data.body_len + 256 * v
             rest == len + Fixed
  <2>4. len \in Nat /\ rest \in Nat /\ 4 + rest = FrameLen(len)
    <3> DEFINE l == pt_data.body_len
    <3>1. l \in Nat /\ v \in Nat
      BY <1>2, <2>3
    <3> HIDE DEF l, v
    <3>2. l + 256 * v \in Nat
      BY <3>1
    <3> HIDE DEF len
    <3>3. len \in Nat
      BY <3>2 DEF len, l
    <3>4. QED
      BY <3>3 DEF FrameLen, Fixed
  <2>5. \E x \in 0 .. 3, y \in Nat : \/ pt_data' = [pt_data EXCEPT !.sum = x]
                                     \/ pt_data' = [pt_data EXCEPT !.sum = x, !.body_len = y]
                                     \/ pt_data' = [pt_data EXCEPT !.sum = 4, !.step = 1, !.body_len = len,
                                                                   !.remaining_len = rest]
    <3>1. AfterBC(v) \in 0 .. 3 /\ (IF v = BC THEN 1 ELSE 0) \in 0 .. 3 /\ 3 \in 0 .. 3 /\ 0 \in Nat
      BY DEF AfterBC
    <3>2. QED
      BY <2>2, <2>3, <3>1
  <2> HIDE DEF len, rest
  <2>6. /\ pt_data' \in AnyPtDatas /\ pt_data'.timeout_ms = pt_data.timeout_ms /\ ~(pt_data'.sum > MsgLen)
        /\ pt_data'.step = 1 => pt_data'.sum + pt_data'.remaining_len = FrameLen(pt_data'.body_len)
    <3>1. PICK x \in 0 .. 3, y \in Nat : \/ pt_data' = [pt_data EXCEPT !.sum = x]
                                         \/ pt_data' = [pt_data EXCEPT !.sum = x, !.body_len = y]
                                         \/ pt_data' = [pt_data EXCEPT !.sum = 4, !.step = 1, !.body_len = len,
                                                                       !.remaining_len = rest]
      BY <2>5
    <3>2. x \in Nat /\ ~(x > MsgLen) /\ ~(4 > MsgLen)
      BY <1>2
    <3>3. CASE pt_data' = [pt_data EXCEPT !.sum = x] \/ pt_data' = [pt_data EXCEPT !.sum = x, !.body_len = y]
      <4>1. /\ pt_data' \in AnyPtDatas /\ pt_data'.timeout_ms = pt_data.timeout_ms /\ pt_data'.sum = x
            /\ pt_data'.step = 0
        BY <1>1, <2>1, <3>2, <3>3 DEF AnyPtDatas
      <4>2. QED
        BY <3>2, <4>1
    <3>4. CASE pt_data' = [pt_data EXCEPT !.sum = 4, !.step = 1, !.body_len = len, !.remaining_len = rest]
      <4>1. /\ pt_data' \in AnyPtDatas /\ pt_data'.timeout_ms = pt_data.timeout_ms /\ pt_data'.sum = 4
            /\ pt_data'.remaining_len = rest /\ pt_data'.body_len = len
        BY <1>1, <2>4, <3>4 DEF AnyPtDatas
      <4>2. QED
        BY <2>4, <3>2, <4>1
    <3>5. QED
      BY <3>1, <3>3, <3>4
  <2>7. pc' = [pc EXCEPT ![p] = "loop"] /\ running' = p
    BY <1>1, <2>1 DEF Counts
  <2>8. Counts'
    BY <1>1, <2>1, <2>6, <2>7, CountsAfter DEF Places
  <2>9. fifo' = [fifo EXCEPT ![p] = SubSeq(@, 1 + 1, Len(@))] /\ 1 \in 0 .. Len(fifo[p])
    <3>1. Tail(fifo[p]) = SubSeq(fifo[p], 1 + 1, Len(fifo[p]))
      BY <1>1, <2>1, TailIsSubSeq, 1 + 1 = 2
    <3>2. Len(fifo[p]) \in Nat \ {0}
      BY <1>1, <2>1
    <3>3. 1 \in 0 .. Len(fifo[p])
      BY <3>2
    <3>4. fifo' = [fifo EXCEPT ![p] = SubSeq(@, 1 + 1, Len(@))]
      BY <2>1, <3>1, Zenon
    <3>5. QED
      BY <3>3, <3>4
  <2>10. BytesCome'
    BY <1>1, <2>1, <2>9, BytesLeft
  <2>11. QED
    BY <2>8, <2>10 DEF AnyInv
<1>7. CASE ReadRest(p)
  <2> DEFINE rl == Readable(p)
             sum == pt_data.sum + rl
             left == pt_data.remaining_len - rl
             ends == sum <= MsgLen /\ sum = FrameLen(pt_data.body_len)
             at == IF sum > MsgLen THEN "overrun" ELSE IF ends THEN "start" ELSE "loop"
  <2>1. /\ running = p /\ pc[p] = "loop" /\ pt_data.step = 1 /\ fifo[p] # <<>>
        /\ fifo' = [fifo EXCEPT ![p] = SubSeq(@, rl + 1, Len(@))] /\ UNCHANGED <<stream, line>>
        /\ pt_data' = [pt_data EXCEPT !.sum = sum, !.remaining_len = left]
    BY <1>7 DEF ReadRest
  <2>2. (CASE sum > MsgLen -> Overrun(p)
           [] ends -> running' = NONE /\ pc' = [pc EXCEPT ![p] = "start"]
           [] OTHER -> Continue)
    BY <1>7 DEF ReadRest, EndRead
  <2>3. rl \in 0 .. Len(fifo[p]) /\ rl \in Nat /\ left \in Nat
    <3> DEFINE q == Len(fifo[p])
               r == pt_data.remaining_len
    <3>1. q \in Nat /\ r \in Nat /\ rl = IF q < r THEN q ELSE r
      BY <1>1, <1>2 DEF Readable
    <3> HIDE DEF q, r, rl
    <3>2. rl \in 0 .. q /\ rl \in Nat /\ r - rl \in Nat
      BY <3>1
    <3>3. QED
      BY <3>2 DEF q, r
  <2> HIDE DEF rl
  <2>4. sum \in Nat /\ sum + left = FrameLen(pt_data.body_len)
    <3> DEFINE n == pt_data.sum
               r == pt_data.remaining_len
               whole == FrameLen(pt_data.body_len)
    <3>1. n \in Nat /\ r \in Nat /\ n + r = whole
      BY <1>1, <1>2, <2>1
    <3> HIDE DEF n, r, whole
    <3>2. n + rl \in Nat /\ (n + rl) + (r - rl) = whole
      BY <2>3, <3>1
    <3>3. QED
      BY <3>2 DEF n, r, whole
  <2> HIDE DEF sum, left
  <2>5. /\ pt_data' \in AnyPtDatas /\ pt_data'.timeout_ms = pt_data.timeout_ms
        /\ pt_data'.sum = sum /\ pt_data'.remaining_len = left /\ pt_data'.body_len = pt_data.body_len
    BY <1>1, <2>1, <2>3, <2>4 DEF AnyPtDatas
  <2>6. at \in Places /\ (at = "overrun" <=> sum > MsgLen)
    BY DEF Places
  <2>7. pc' = [pc EXCEPT ![p] = at] /\ running' = IF at \in {"loop", "overrun"} THEN p ELSE NONE
    <3>1. CASE sum > MsgLen
      <4>1. ~ends
        BY <1>2, <2>4, <3>1
      <4>2. Overrun(p)
        BY <2>2, <3>1, <4>1
      <4>3. QED
        BY <2>1, <3>1, <4>2 DEF Overrun
    <3>2. CASE ~(sum > MsgLen) /\ ends
      BY <2>2, <3>2
    <3>3. CASE ~(sum > MsgLen) /\ ~ends
      <4>1. pc' = pc /\ running' = p
        BY <2>1, <2>2, <3>3 DEF Continue
      <4>2. pc = [pc EXCEPT ![p] = "loop"]
        BY <1>1, <2>1 DEF Counts
      <4>3. QED
        BY <3>3, <4>1, <4>2
    <3>4. QED
      BY <3>1, <3>2, <3>3
  <2> HIDE DEF at
  <2>8. Counts'
    BY <1>1, <2>1, <2>4, <2>5, <2>6, <2>7, CountsAfter
  <2>9. BytesCome'
    BY <1>1, <2>1, <2>3, BytesLeft
  <2>10. QED
    BY <2>8, <2>9 DEF AnyInv
<1>8. ASSUME NEW at \in {"start", "yield", "stuck"}, pc[p] = "loop" \/ pc[p] = "yield",
             pc' = [pc EXCEPT ![p] = at], running' = NONE, UNCHANGED <<stream, line, fifo>>,
             NEW t \in 0 .. ResponseTimeout, pt_data' = [pt_data EXCEPT !.timeout_ms = t], at # "start" => t > 0
      PROVE  AnyInv'
  <2>1. /\ pt_data' \in AnyPtDatas /\ pt_data'.timeout_ms = t /\ ~(pt_data'.sum > MsgLen)
        /\ pt_data'.step = 1 => pt_data'.sum + pt_data'.remaining_len = FrameLen(pt_data'.body_len)
    BY <1>1, <1>3, <1>8 DEF AnyPtDatas
  <2>2. at \in Places /\ at # "overrun" /\ at # "loop"
    BY <1>8 DEF Places
  <2>3. Counts'
    BY <1>1, <1>8, <2>1, <2>2, CountsAfter
  <2>4. QED
    BY <1>4, <1>8, <2>3 DEF AnyInv
<1>9. pt_data = [pt_data EXCEPT !.timeout_ms = pt_data.timeout_ms]
  BY <1>1 DEF AnyPtDatas
<1>10. CASE NothingToRead(p)
  <2>1. pc[p] = "loop" /\ UNCHANGED <<stream, line, fifo, pt_data>>
    BY <1>10 DEF NothingToRead
  <2>2. \E at \in {"start", "yield", "stuck"} : pc' = [pc EXCEPT ![p] = at] /\ running' = NONE
    BY <1>10 DEF NothingToRead, EndRead, Yield
  <2>3. QED
    BY <1>1, <1>2, <1>8, <1>9, <2>1, <2>2
<1>11. CASE BufferFull(p)
  <2>1. /\ pc[p] = "loop" /\ UNCHANGED <<stream, line, fifo, pt_data>>
        /\ pc' = [pc EXCEPT ![p] = "start"] /\ running' = NONE
    BY <1>11 DEF BufferFull, EndRead
  <2>2. QED
    BY <1>1, <1>2, <1>8, <1>9, <2>1
<1>12. CASE Resume(p)
  <2> DEFINE t == pt_data.timeout_ms - 1
  <2>1. /\ pc[p] = "yield" /\ UNCHANGED <<stream, line, fifo>> /\ pt_data' = [pt_data EXCEPT !.timeout_ms = t]
        /\ IF t > 0 THEN running' = p /\ pc' = [pc EXCEPT ![p] = "loop"]
                    ELSE running' = NONE /\ pc' = [pc EXCEPT ![p] = "start"]
    BY <1>12 DEF Resume, EndRead
  <2>2. t \in 0 .. ResponseTimeout
    BY <1>1, <1>2, <2>1
  <2> HIDE DEF t
  <2>3. CASE t > 0
    <3>1. /\ pt_data' \in AnyPtDatas /\ pt_data'.timeout_ms = t /\ ~(pt_data'.sum > MsgLen)
          /\ pt_data'.step = 1 => pt_data'.sum + pt_data'.remaining_len = FrameLen(pt_data'.body_len)
      BY <1>1, <1>3, <2>1, <2>2 DEF AnyPtDatas
    <3>2. Counts'
      BY <1>1, <2>1, <2>3, <3>1, CountsAfter DEF Places
    <3>3. QED
      BY <1>4, <2>1, <3>2 DEF AnyInv
  <2>4. CASE ~(t > 0)
    BY <1>8, <2>1, <2>2, <2>4
  <2>5. QED
    BY <2>3, <2>4
<1>13. QED
  BY <1>5, <1>6, <1>7, <1>10, <1>11, <1>12 DEF apbus_serial_read

\* Whatever the line brings, the fields of serial_pt_data keep their ranges and
\* the bytes read and to be read make up the length that was announced; more than
\* the buffer's length is counted only where the bytes were written behind it.
THEOREM ReaderTypes ==
  ASSUME OnePort, LinesAreBytes
  PROVE  Spec => []TypeOK
<1>1. Init => AnyInv
  <2> SUFFICES ASSUME Init PROVE AnyInv
    OBVIOUS
  <2>1. stream \in [Ports -> Seq(Bytes)] /\ line = stream
    BY DEF Init, LinesAreBytes
  <2>2. BytesCome
    <3>1. ASSUME NEW p \in Ports
          PROVE  /\ Len(line[p]) <= Len(stream[p])
                 /\ \A i \in 1 .. Len(line[p]) : line[p][i] = stream[p][Len(stream[p]) - Len(line[p]) + i]
      <4> DEFINE n == Len(stream[p])
      <4>1. n \in Nat /\ Len(line[p]) = n /\ line[p] = stream[p]
        BY <2>1
      <4> HIDE DEF n
      <4>2. n <= n /\ \A i \in 1 .. n : n - n + i = i
        BY <4>1
      <4>3. QED
        BY <4>1, <4>2 DEF n
    <3>2. QED
      BY <2>1, <3>1 DEF Init, BytesCome
  <2>3. Counts
    <3>1. pt_data \in AnyPtDatas /\ pt_data.step = 0 /\ pt_data.sum <= MsgLen
      BY Numbers DEF Init, FreshPtData, AnyPtDatas
    <3>2. QED
      BY <3>1, NoneIsNoPort DEF Init, Counts, Places
  <2>4. QED
    BY <2>2, <2>3 DEF AnyInv
<1>2. AnyInv /\ [Next]_vars => AnyInv'
  <2> SUFFICES ASSUME AnyInv, [Next]_vars PROVE AnyInv'
    OBVIOUS
  <2>1. CASE UNCHANGED vars
    BY <2>1 DEF vars, AnyInv, BytesCome, Counts
  <2>2. ASSUME NEW p \in Ports, ByteArrives(p) PROVE AnyInv'
    BY <2>2, ByteArrivesAnyLine
  <2>3. ASSUME NEW p \in Ports, apbus_serial_read(p) PROVE AnyInv'
    BY <2>3, ReadAnyLine
  <2>4. QED
    BY <2>1, <2>2, <2>3 DEF Next
<1>3. AnyInv => TypeOK
  <2> SUFFICES ASSUME AnyInv PROVE TypeOK
    OBVIOUS
  <2>1. BytesCome /\ Counts
    BY DEF AnyInv
  <2>2. ASSUME NEW p \in Ports PROVE IsSuffix(line[p], stream[p])
    <3>1. stream[p] \in Seq(Bytes) /\ line[p] \in Seq(Bytes)
      BY <2>1 DEF BytesCome, LinesAreBytes
    <3>2. QED
      BY <2>1, <3>1, RestIsSuffix DEF BytesCome
  <2>3. pt_data.sum > MsgLen <=> \E p \in Ports : pc[p] = "overrun"
    <3>1. pt_data.sum \in Nat /\ MsgLen \in Nat
      BY <2>1, Numbers DEF Counts, AnyPtDatas
    <3>2. ASSUME NEW p \in Ports, pt_data.sum > MsgLen PROVE pc[p] = "overrun"
      <4>1. ~(pt_data.sum <= MsgLen)
        BY <3>1, <3>2
      <4>2. QED
        BY <2>1, <4>1 DEF Counts
    <3>3. QED
      BY <2>1, <3>1, <3>2 DEF Counts
  <2>4. QED
    BY <2>1, <2>2, <2>3 DEF TypeOK, BytesCome, Counts, AnyPtDatas, Places
<1>4. QED
  BY <1>1, <1>2, <1>3, PTL DEF Spec

\* On a fair line nothing is written behind the buffer.
THEOREM ReaderStaysInBuffer ==
  ASSUME OnePort, LinesAreFair
  PROVE  Spec => [](\A p \in Ports : pc[p] # "overrun")
<1>1. IInv => \A p \in Ports : pc[p] # "overrun"
  BY DEF IInv, Types
<1>2. QED
  BY <1>1, ReaderAlways, PTL
================================================================================
