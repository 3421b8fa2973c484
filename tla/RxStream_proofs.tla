--------------------------- MODULE RxStream_proofs ---------------------------
(***************************************************************************)
(* Proofs about RxStream, for words and a buffer of any size, any packets  *)
(* that leave room in the buffer, and a socket that cuts the stream after  *)
(* any byte.                                                               *)
(***************************************************************************)
EXTENDS RxStream, Integers, SequenceTheorems, WellFoundedInduction, TLAPS

Word == [packet : Nat, at : Nat \ {0}, kind : Kinds]
Out == Seq(Seq(Word))

LEMMA Parameters == W \in Nat \ {0} /\ BufSize \in Nat \ {0} /\ MaxPackets \in Nat \ {0}
BY RxAssumption

LEMMA KindIs ==
  ASSUME NEW k \in Kinds
  PROVE  /\ k.words \in Nat \ {0}
         /\ k.receipt => k.words = 1
         /\ k.words + W <= BufSize + 1
BY RxAssumption

LEMMA PacketIs ==
  ASSUME NEW k \in Kinds, NEW p \in Nat
  PROVE  /\ PacketWords(k, p) \in Seq(Word)
         /\ Len(PacketWords(k, p)) = k.words
         /\ \A j \in 1 .. k.words : PacketWords(k, p)[j] = WordOf(k, p, j)
<1>1. k.words \in Nat
  BY KindIs
<1>2. \A j \in 1 .. k.words : WordOf(k, p, j) \in Word
  BY <1>1 DEF WordOf, Word
<1>. QED  BY <1>1, <1>2 DEF PacketWords

-----------------------------------------------------------------------------
(* Dividing by the size of a word *)

LEMMA Divided ==
  ASSUME NEW n \in Nat
  PROVE  n \div W \in Nat /\ n % W \in 0 .. W - 1 /\ n = W * (n \div W) + (n % W)
BY Parameters

LEMMA DividedSum ==
  ASSUME NEW a \in Nat, NEW n \in Nat, a % W = 0
  PROVE  (a + n) \div W = (a \div W) + (n \div W)
<1>1. a = W * (a \div W) + (a % W) /\ a \div W \in Nat
  BY Divided
<1>2. \A x \in Nat : a = W * x + 0 => (a + n) \div W = x + (n \div W)
  BY Parameters
<1>. QED  BY <1>1, <1>2

LEMMA DividedMost ==
  ASSUME NEW a \in Nat, NEW n \in Nat, a <= W * n
  PROVE  a \div W <= n
<1>1. a \div W \in Nat /\ a % W \in Nat /\ W * (a \div W) + (a % W) <= W * n
  BY Divided
<1>2. \A x \in Nat, y \in Nat : W * x + y <= W * n => x <= n
  BY Parameters
<1>. QED  BY <1>1, <1>2

-----------------------------------------------------------------------------
(* What the recursive function of Expected is *)

LEMMA LeastNat ==
  ASSUME NEW S \in SUBSET Nat, S # {}
  PROVE  \E m \in S : \A k \in S : m <= k
<1>. DEFINE R == OpToRel(<, Nat)
<1>1. IsWellFoundedOn(R, Nat)
  BY NatLessThanWellFounded
<1>2. \A k, m \in Nat : k < m => <<k, m>> \in R
  BY DEF OpToRel
<1>. HIDE DEF R
<1>3. PICK m \in S : \A k \in S : ~ (<<k, m>> \in R)
  BY <1>1, WFMin, Zenon
<1>4. \A k \in S : ~ (k < m)
  BY <1>2, <1>3, Zenon
<1>5. \A k \in S : m <= k
  BY <1>4
<1>. QED  BY <1>5

(* Induction over the numbers, for the set of those a fact holds of. *)
LEMMA SetInduction ==
  ASSUME NEW S, 0 \in S, \A n \in Nat : n \in S => n + 1 \in S
  PROVE  \A n \in Nat : n \in S
<1>. SUFFICES ASSUME Nat \ S # {} PROVE FALSE
  OBVIOUS
<1>1. PICK m \in Nat \ S : \A k \in Nat \ S : m <= k
  BY LeastNat, Zenon
<1>2. m # 0 /\ m - 1 \in Nat
  BY <1>1
<1>3. m - 1 \in S
  BY <1>1, <1>2
<1>. QED  BY <1>1, <1>2, <1>3

Add(s, k, q) == IF s[k].known THEN Append(q, PacketWords(s[k], k)) ELSE q

LEMMA AddIs ==
  ASSUME NEW s \in Seq(Kinds), NEW k \in 1 .. Len(s), NEW q \in Out
  PROVE  Add(s, k, q) \in Out
<1>1. PacketWords(s[k], k) \in Seq(Word)
  BY PacketIs
<1>. QED  BY <1>1 DEF Add, Out

(* The packets to dispatch, of the first n packets of s. *)
Listed(s, n, f) ==
  /\ f \in [0 .. n -> Out]
  /\ f[0] = << >>
  /\ \A k \in 1 .. n : f[k] = Add(s, k, f[k - 1])

LEMMA ListedExists ==
  ASSUME NEW s \in Seq(Kinds), NEW n \in 0 .. Len(s)
  PROVE  \E f : Listed(s, n, f)
<1>. DEFINE S == {m \in Nat : m <= Len(s) => \E f : Listed(s, m, f)}
<1>1. 0 \in S
  <2>. DEFINE f == [k \in 0 .. 0 |-> << >>]
  <2>1. f \in [0 .. 0 -> Out] /\ f[0] = << >>
    BY DEF Out
  <2>2. \A k \in 1 .. 0 : FALSE
    OBVIOUS
  <2>. HIDE DEF f
  <2>3. Listed(s, 0, f)
    BY <2>1, <2>2 DEF Listed
  <2>. QED  BY <2>3
<1>2. ASSUME NEW m \in Nat, m \in S PROVE m + 1 \in S
  <2>. SUFFICES ASSUME m + 1 <= Len(s) PROVE \E f : Listed(s, m + 1, f)
    OBVIOUS
  <2>1. PICK f : Listed(s, m, f)
    BY <1>2
  <2>. DEFINE g == [k \in 0 .. m + 1 |-> IF k = m + 1 THEN Add(s, m + 1, f[m]) ELSE f[k]]
  <2>2. f[m] \in Out
    BY <2>1 DEF Listed
  <2>3. Add(s, m + 1, f[m]) \in Out
    <3>1. m + 1 \in 1 .. Len(s)
      OBVIOUS
    <3>. QED  BY <2>2, <3>1, AddIs
  <2>4. g \in [0 .. m + 1 -> Out] /\ g[0] = << >>
    BY <2>1, <2>3 DEF Listed
  <2>5. ASSUME NEW k \in 1 .. m + 1 PROVE g[k] = Add(s, k, g[k - 1])
    <3>1. CASE k = m + 1
      BY <3>1
    <3>2. CASE k # m + 1
      <4>1. k \in 1 .. m /\ g[k] = f[k] /\ g[k - 1] = f[k - 1]
        BY <3>2
      <4>. HIDE DEF g
      <4>. QED  BY <2>1, <4>1 DEF Listed
    <3>. QED  BY <3>1, <3>2
  <2>. HIDE DEF g
  <2>6. Listed(s, m + 1, g)
    BY <2>4, <2>5 DEF Listed
  <2>. QED  BY <2>6
<1>3. \A m \in Nat : m \in S
  <2>. HIDE DEF S
  <2>. QED  BY <1>1, <1>2, SetInduction
<1>4. n \in S
  BY <1>3
<1>. QED  BY <1>4

LEMMA ListedAgree ==
  ASSUME NEW s \in Seq(Kinds), NEW t \in Seq(Kinds), NEW a \in Nat, NEW b \in Nat,
         NEW n \in Nat, n <= a, n <= b,
         \A k \in 1 .. n : s[k] = t[k],
         NEW f, NEW g, Listed(s, a, f), Listed(t, b, g)
  PROVE  f[n] = g[n]
<1>. DEFINE S == {k \in Nat : k <= n => f[k] = g[k]}
<1>1. 0 \in S
  BY DEF Listed
<1>2. ASSUME NEW k \in Nat, k \in S PROVE k + 1 \in S
  <2>. SUFFICES ASSUME k + 1 <= n PROVE f[k + 1] = g[k + 1]
    OBVIOUS
  <2>1. f[k] = g[k] /\ s[k + 1] = t[k + 1]
    BY <1>2
  <2>2. f[k + 1] = Add(s, k + 1, f[k])
    <3>1. k + 1 \in 1 .. a /\ (k + 1) - 1 = k
      OBVIOUS
    <3>. QED  BY <3>1 DEF Listed
  <2>3. g[k + 1] = Add(t, k + 1, g[k])
    <3>1. k + 1 \in 1 .. b /\ (k + 1) - 1 = k
      OBVIOUS
    <3>. QED  BY <3>1 DEF Listed
  <2>. QED  BY <2>1, <2>2, <2>3 DEF Add
<1>3. \A k \in Nat : k \in S
  <2>. HIDE DEF S
  <2>. QED  BY <1>1, <1>2, SetInduction
<1>. QED  BY <1>3

LEMMA ExpectedListed ==
  ASSUME NEW s \in Seq(Kinds), NEW n \in 0 .. Len(s)
  PROVE  \E f : Listed(s, n, f) /\ Expected(s, n) = f[n]
<1>. DEFINE Step(h, m) == IF m = 0 THEN << >>
                          ELSE IF s[m].known THEN Append(h[m - 1], PacketWords(s[m], m)) ELSE h[m - 1]
<1>1. PICK f : Listed(s, n, f)
  BY ListedExists
<1>2. f = [m \in 0 .. n |-> Step(f, m)]
  <2>1. ASSUME NEW m \in 0 .. n PROVE f[m] = Step(f, m)
    <3>1. CASE m = 0
      BY <1>1, <3>1 DEF Listed
    <3>2. CASE m # 0
      <4>1. m \in 1 .. n
        BY <3>2
      <4>2. f[m] = Add(s, m, f[m - 1])
        BY <1>1, <4>1 DEF Listed
      <4>. QED  BY <3>2, <4>2, Zenon DEF Add
    <3>. QED  BY <3>1, <3>2
  <2>2. DOMAIN f = 0 .. n /\ f = [m \in DOMAIN f |-> f[m]]
    BY <1>1 DEF Listed
  <2>. HIDE DEF Step
  <2>. QED  BY <2>1, <2>2
<1>3. PICK g : g = [m \in 0 .. n |-> Step(g, m)] /\ Expected(s, n) = g[n]
  BY <1>2, Zenon DEF Expected
<1>4. ASSUME NEW k \in 0 .. n PROVE g[k] = Step(g, k)
  <2>. HIDE DEF Step
  <2>. QED  BY <1>3
<1>5. ASSUME NEW k \in 1 .. n PROVE g[k] = Add(s, k, g[k - 1])
  <2>1. k \in 0 .. n /\ k # 0
    OBVIOUS
  <2>2. g[k] = Step(g, k)
    BY <1>4, <2>1, Zenon
  <2>. QED  BY <2>1, <2>2, Zenon DEF Add
<1>6. g[0] = << >>
  <2>1. 0 \in 0 .. n
    OBVIOUS
  <2>. QED  BY <1>4, <2>1
<1>. HIDE DEF Step
<1>. DEFINE S == {m \in Nat : m <= n => g[m] \in Out}
<1>7. 0 \in S
  <2>1. << >> \in Out
    BY DEF Out
  <2>. QED  BY <1>6, <2>1
<1>8. ASSUME NEW m \in Nat, m \in S PROVE m + 1 \in S
  <2>. SUFFICES ASSUME m + 1 <= n PROVE g[m + 1] \in Out
    OBVIOUS
  <2>1. g[m + 1] = Add(s, m + 1, g[m])
    <3>1. m + 1 \in 1 .. n /\ (m + 1) - 1 = m
      OBVIOUS
    <3>. QED  BY <1>5, <3>1
  <2>2. g[m] \in Out /\ m + 1 \in 1 .. Len(s)
    BY <1>8
  <2>. QED  BY <2>1, <2>2, AddIs
<1>9. \A m \in Nat : m \in S
  <2>. HIDE DEF S
  <2>. QED  BY <1>7, <1>8, SetInduction
<1>10. Listed(s, n, g)
  <2>1. \A m \in 0 .. n : g[m] \in Out
    BY <1>9
  <2>2. DOMAIN g = 0 .. n /\ g = [m \in DOMAIN g |-> g[m]]
    BY <1>3
  <2>. HIDE <1>3
  <2>3. g \in [0 .. n -> Out]
    BY <2>1, <2>2
  <2>. QED  BY <1>5, <1>6, <2>3 DEF Listed
<1>. QED  BY <1>3, <1>10

LEMMA ExpectedNone == ASSUME NEW s \in Seq(Kinds) PROVE Expected(s, 0) = << >>
<1>1. 0 \in 0 .. Len(s)
  OBVIOUS
<1>2. PICK f : Listed(s, 0, f) /\ Expected(s, 0) = f[0]
  BY <1>1, ExpectedListed
<1>. QED  BY <1>2 DEF Listed

LEMMA ExpectedNext ==
  ASSUME NEW s \in Seq(Kinds), NEW n \in Nat, n + 1 <= Len(s)
  PROVE  Expected(s, n + 1) = Add(s, n + 1, Expected(s, n))
<1>1. n \in 0 .. Len(s) /\ n + 1 \in 0 .. Len(s)
  OBVIOUS
<1>2. PICK f : Listed(s, n, f) /\ Expected(s, n) = f[n]
  BY <1>1, ExpectedListed
<1>3. PICK g : Listed(s, n + 1, g) /\ Expected(s, n + 1) = g[n + 1]
  BY <1>1, ExpectedListed
<1>4. f[n] = g[n]
  <2>1. n <= n /\ n <= n + 1 /\ n + 1 \in Nat
    OBVIOUS
  <2>. QED  BY <1>2, <1>3, <2>1, ListedAgree
<1>5. g[n + 1] = Add(s, n + 1, g[n])
  <2>1. n + 1 \in 1 .. n + 1 /\ (n + 1) - 1 = n
    OBVIOUS
  <2>. QED  BY <1>3, <2>1 DEF Listed
<1>. QED  BY <1>2, <1>3, <1>4, <1>5

LEMMA ExpectedSame ==
  ASSUME NEW s \in Seq(Kinds), NEW k \in Kinds, NEW n \in 0 .. Len(s)
  PROVE  Expected(Append(s, k), n) = Expected(s, n)
<1>. DEFINE t == Append(s, k)
<1>1. /\ t \in Seq(Kinds) /\ n \in 0 .. Len(t)
      /\ \A i \in 1 .. n : s[i] = t[i]
  OBVIOUS
<1>. HIDE DEF t
<1>2. PICK f : Listed(s, n, f) /\ Expected(s, n) = f[n]
  BY ExpectedListed
<1>3. PICK g : Listed(t, n, g) /\ Expected(t, n) = g[n]
  BY <1>1, ExpectedListed
<1>4. n <= n /\ n \in Nat
  OBVIOUS
<1>5. f[n] = g[n]
  BY <1>1, <1>2, <1>3, <1>4, ListedAgree
<1>. QED  BY <1>2, <1>3, <1>5 DEF t

-----------------------------------------------------------------------------
(* The inductive invariant *)

Types ==
  /\ sent \in Seq(Kinds) /\ stream \in Seq(Word)
  /\ got \in Nat /\ got <= W * Len(stream)
  /\ in_buf \in Seq(Word \cup {Mixed})
  /\ {busy, torn, overran, open} \subseteq BOOLEAN
  /\ busy => in_buf # << >>
  /\ ~ open => ~ busy /\ in_buf = << >>

(* off[p] words of the stream are those of the first p packets. *)
Laid(off) ==
  /\ off \in [0 .. Len(sent) -> Nat]
  /\ off[0] = 0 /\ off[Len(sent)] = Len(stream)
  /\ \A p \in 1 .. Len(sent) :
       /\ off[p] = off[p - 1] + sent[p].words
       /\ \A j \in 1 .. sent[p].words : stream[off[p - 1] + j] = WordOf(sent[p], p, j)

(* The words kept are those from word n of the stream on that were read. *)
Kept(n) ==
  /\ n + Len(in_buf) = got \div W
  /\ \A i \in 1 .. Len(in_buf) : in_buf[i] = stream[n + i]

(* A straggler waits for more words. *)
Short == ~ busy /\ in_buf # << >> => Len(in_buf) < in_buf[1].kind.words

(* The loop has come to the end of packet m, and dispatched as far as that. *)
Upto(off, m) ==
  /\ m \in 0 .. Len(sent)
  /\ handled = Expected(sent, m)
  /\ ~ Slipped /\ open => Kept(off[m]) /\ Short

RInv == Types /\ RoomForWord /\ \E off : Laid(off) /\ \E m : Upto(off, m)

LEMMA InitRInv == Init => RInv
<1>. SUFFICES ASSUME Init PROVE RInv
  OBVIOUS
<1>. USE DEF Init
<1>1. Types
  <2>1. << >> \in Seq(Kinds) /\ << >> \in Seq(Word) /\ << >> \in Seq(Word \cup {Mixed})
    OBVIOUS
  <2>2. Len(stream) = 0 /\ 0 <= W * 0
    BY Parameters
  <2>. QED  BY <2>1, <2>2 DEF Types
<1>2. RoomForWord
  <2>1. W <= BufSize
    BY Parameters, RxAssumption
  <2>. QED  BY <2>1, Parameters DEF RoomForWord, Room
<1>. DEFINE off == [p \in 0 .. 0 |-> 0]
<1>3. Laid(off)
  BY DEF Laid
<1>4. Upto(off, 0)
  <2>1. << >> \in Seq(Kinds) /\ Len(sent) = 0
    OBVIOUS
  <2>2. handled = Expected(sent, 0)
    BY <2>1, ExpectedNone
  <2>3. 0 \div W = 0
    BY Parameters
  <2>4. Kept(0)
    BY <2>3 DEF Kept
  <2>. QED  BY <2>1, <2>2, <2>4 DEF Upto, Short
<1>. HIDE DEF off
<1>. QED  BY <1>1, <1>2, <1>3, <1>4 DEF RInv

(* Where the loop is in step, it is at the first word of a packet. *)
LEMMA AtHeader ==
  ASSUME Types, NEW off, Laid(off), NEW m, Upto(off, m), ~ Slipped, open, in_buf # << >>
  PROVE  /\ m \in Nat /\ m + 1 \in 1 .. Len(sent) /\ sent[m + 1] \in Kinds
         /\ in_buf[1] = WordOf(sent[m + 1], m + 1, 1)
         /\ off[m + 1] = off[m] + sent[m + 1].words
         /\ \A j \in 1 .. Len(in_buf) : j <= sent[m + 1].words =>
              in_buf[j] = PacketWords(sent[m + 1], m + 1)[j]
<1>1. /\ m \in 0 .. Len(sent) /\ m \in Nat /\ off[m] \in Nat
      /\ off[m] + Len(in_buf) = got \div W
      /\ \A i \in 1 .. Len(in_buf) : in_buf[i] = stream[off[m] + i]
  BY DEF Upto, Kept, Laid
<1>2. Len(in_buf) \in Nat /\ Len(in_buf) >= 1
  BY DEF Types
<1>3. got \div W <= Len(stream)
  BY DividedMost DEF Types
<1>4. m # Len(sent)
  <2>1. Len(stream) \in Nat
    BY DEF Types
  <2>. QED  BY <1>1, <1>2, <1>3, <2>1 DEF Laid
<1>5. m + 1 \in 1 .. Len(sent) /\ (m + 1) - 1 = m /\ Len(sent) \in Nat
  BY <1>1, <1>4 DEF Types
<1>6. sent[m + 1] \in Kinds
  BY <1>5 DEF Types
<1>7. sent[m + 1].words \in Nat \ {0}
  BY <1>6, KindIs
<1>8. /\ off[m + 1] = off[m] + sent[m + 1].words
      /\ \A j \in 1 .. sent[m + 1].words : stream[off[m] + j] = WordOf(sent[m + 1], m + 1, j)
  BY <1>5 DEF Laid
<1>9. ASSUME NEW j \in 1 .. Len(in_buf), j <= sent[m + 1].words
      PROVE  /\ in_buf[j] = WordOf(sent[m + 1], m + 1, j)
             /\ in_buf[j] = PacketWords(sent[m + 1], m + 1)[j]
  <2>1. j \in 1 .. sent[m + 1].words
    BY <1>2, <1>7, <1>9
  <2>2. in_buf[j] = WordOf(sent[m + 1], m + 1, j)
    BY <1>1, <1>8, <2>1
  <2>3. m + 1 \in Nat
    BY <1>1
  <2>. QED  BY <1>6, <2>1, <2>2, <2>3, PacketIs
<1>10. 1 \in 1 .. Len(in_buf) /\ 1 <= sent[m + 1].words
  BY <1>2, <1>7
<1>. QED  BY <1>1, <1>5, <1>6, <1>8, <1>9, <1>10

LEMMA ReadsKinds ==
  ASSUME Types, in_buf # << >>, NEW k \in ReadsAs(in_buf[1])
  PROVE  k \in Kinds
<1>1. in_buf[1] \in Word \cup {Mixed}
  BY DEF Types
<1>2. Mixed.at # 1
  BY DEF Mixed
<1>. QED  BY <1>1, <1>2 DEF ReadsAs, Word

LEMMA ReadsHeader ==
  ASSUME NEW k, NEW p
  PROVE  ReadsAs(WordOf(k, p, 1)) = {k}
BY DEF ReadsAs, WordOf

(* The first n words are taken off the buffer. *)
LEMMA Consumed ==
  ASSUME Types, NEW n \in Nat, in_buf' = SubSeq(in_buf, n + 1, Len(in_buf))
  PROVE  /\ in_buf' \in Seq(Word \cup {Mixed})
         /\ n <= Len(in_buf) =>
              /\ Len(in_buf') = Len(in_buf) - n
              /\ \A i \in 1 .. Len(in_buf') : in_buf'[i] = in_buf[n + i] /\ n + i \in 1 .. Len(in_buf)
         /\ Len(in_buf') <= Len(in_buf)
<1>1. PICK l \in Nat : l = Len(in_buf)
  BY DEF Types
<1>2. in_buf \in Seq(Word \cup {Mixed})
  BY DEF Types
<1>. DEFINE rest == SubSeq(in_buf, n + 1, l)
<1>3. rest \in Seq(Word \cup {Mixed})
  <2>1. \A i \in n + 1 .. l : in_buf[i] \in Word \cup {Mixed}
    BY <1>1, <1>2
  <2>. QED  BY <1>1, <1>2, <2>1
<1>4. Len(rest) = IF n + 1 <= l THEN l - n ELSE 0
  BY <1>1, <1>2
<1>5. \A i \in 1 .. Len(rest) : rest[i] = in_buf[n + i]
  BY <1>1, <1>2
<1>. HIDE DEF rest
<1>6. in_buf' = rest
  BY <1>1 DEF rest
<1>7. PICK r \in Nat : r = Len(rest) /\ r = IF n + 1 <= l THEN l - n ELSE 0
  BY <1>4
<1>8. /\ Len(rest) <= l
      /\ n <= l => Len(rest) = l - n /\ \A i \in 1 .. Len(rest) : n + i \in 1 .. l
  BY <1>7
<1>. QED  BY <1>1, <1>3, <1>5, <1>6, <1>8

(* A packet taken off the buffer. *)
LEMMA NextPacket ==
  ASSUME Types, NEW off, Laid(off), NEW m, Upto(off, m), ~ Slipped, open, in_buf # << >>,
         NEW k, k = sent[m + 1], Whole(k), Consume(k), UNCHANGED <<sent, stream, got, torn, overran, open>>,
         handled' = Add(sent, m + 1, handled)
  PROVE  Upto(off, m + 1)'
<1>1. /\ m \in Nat /\ m + 1 \in 1 .. Len(sent) /\ k \in Kinds /\ k.words \in Nat \ {0}
      /\ off[m + 1] = off[m] + k.words
      /\ off[m] \in Nat
  BY AtHeader, KindIs DEF Upto, Laid
<1>2. handled' = Expected(sent, m + 1)
  <2>1. m + 1 <= Len(sent) /\ sent \in Seq(Kinds)
    BY <1>1 DEF Types
  <2>. QED  BY <1>1, <2>1, ExpectedNext DEF Upto
<1>3. /\ Len(in_buf') = Len(in_buf) - k.words
      /\ \A i \in 1 .. Len(in_buf') : in_buf'[i] = in_buf[k.words + i] /\ k.words + i \in 1 .. Len(in_buf)
  BY <1>1, Consumed DEF Consume, Whole
<1>4. Len(in_buf) \in Nat /\ Len(in_buf') \in Nat
  BY <1>1, Consumed DEF Types, Consume
<1>5. /\ off[m] + Len(in_buf) = got \div W
      /\ \A i \in 1 .. Len(in_buf) : in_buf[i] = stream[off[m] + i]
  BY DEF Upto, Kept
<1>6. off[m + 1] + Len(in_buf') = got \div W
  BY <1>1, <1>3, <1>4, <1>5
<1>7. ASSUME NEW i \in 1 .. Len(in_buf') PROVE in_buf'[i] = stream[off[m + 1] + i]
  <2>1. in_buf'[i] = stream[off[m] + (k.words + i)]
    BY <1>3, <1>5
  <2>2. off[m] + (k.words + i) = off[m + 1] + i
    BY <1>1, <1>4
  <2>. QED  BY <2>1, <2>2
<1>8. Kept(off[m + 1])'
  BY <1>6, <1>7 DEF Kept
<1>9. Short'
  BY DEF Consume, Short
<1>. QED  BY <1>1, <1>2, <1>8, <1>9 DEF Upto

(* A step of the loop keeps the types, and what it leaves leaves room. *)
LEMMA TreatTypes == Types /\ Treat => Types' /\ RoomForWord'
<1>. SUFFICES ASSUME Types, Treat PROVE Types' /\ RoomForWord'
  OBVIOUS
<1>1. PICK k \in ReadsAs(in_buf[1]) : Dispatch(k) \/ Skip(k) \/ KeepStraggler(k)
  BY DEF Treat
<1>2. k \in Kinds /\ k.words \in Nat \ {0} /\ k.words + W <= BufSize + 1 /\ in_buf # << >>
  BY ReadsKinds, KindIs DEF Treat, Types
<1>3. UNCHANGED <<sent, stream, got, torn, open>> /\ open /\ busy
  BY DEF Treat, Types
<1>4. CASE Consume(k) /\ overran' \in BOOLEAN
  <2>1. in_buf' \in Seq(Word \cup {Mixed})
    BY <1>2, <1>4, Consumed DEF Consume
  <2>2. busy' = (in_buf' # << >>)
    BY <1>4 DEF Consume
  <2>3. Types'
    BY <1>3, <1>4, <2>1, <2>2 DEF Types
  <2>4. RoomForWord'
    <3>1. CASE busy'
      BY <3>1 DEF RoomForWord
    <3>2. CASE ~ busy'
      <4>1. Len(in_buf') = 0
        <5>1. in_buf' = << >>
          BY <2>2, <3>2
        <5>. QED  BY <5>1
      <4>. QED  BY <4>1, RxAssumption DEF RoomForWord, Room
    <3>. QED  BY <3>1, <3>2
  <2>. QED  BY <2>3, <2>4
<1>5. CASE KeepStraggler(k)
  <2>1. busy' = FALSE /\ in_buf' = in_buf /\ overran' = overran /\ Len(in_buf) < k.words
    BY <1>2, <1>5 DEF KeepStraggler, Whole, Types
  <2>2. Types'
    BY <1>3, <2>1 DEF Types
  <2>3. RoomForWord'
    <3>1. Len(in_buf) \in Nat
      BY DEF Types
    <3>. QED  BY <1>2, <2>1, <3>1, Parameters DEF RoomForWord, Room
  <2>. QED  BY <2>2, <2>3
<1>6. overran' \in BOOLEAN
  BY <1>1 DEF Dispatch, Skip, KeepStraggler, Types
<1>. QED  BY <1>1, <1>4, <1>5, <1>6 DEF Dispatch, Skip

LEMMA TreatUpto ==
  ASSUME Types, NEW off, Laid(off), NEW m, Upto(off, m), Treat
  PROVE  Laid(off)' /\ \E n : Upto(off, n)'
<1>1. PICK k \in ReadsAs(in_buf[1]) : Dispatch(k) \/ Skip(k) \/ KeepStraggler(k)
  BY DEF Treat
<1>2. UNCHANGED <<sent, stream, got, torn, open>> /\ open /\ busy /\ in_buf # << >>
  BY DEF Treat, Types
<1>3. Laid(off)'
  BY <1>2 DEF Laid
<1>4. CASE Slipped
  <2>1. handled' = handled /\ Slipped'
    <3>1. handled' = handled
      BY <1>1, <1>4 DEF Dispatch, Skip, KeepStraggler
    <3>2. overran => overran'
      BY <1>1 DEF Dispatch, Skip, KeepStraggler
    <3>. QED  BY <1>2, <1>4, <3>1, <3>2 DEF Slipped
  <2>2. Upto(off, m)'
    BY <1>2, <2>1 DEF Upto
  <2>. QED  BY <1>3, <2>2
<1>5. CASE ~ Slipped
  <2>1. /\ m \in Nat /\ m + 1 \in 1 .. Len(sent)
        /\ sent[m + 1] \in Kinds
        /\ in_buf[1] = WordOf(sent[m + 1], m + 1, 1)
        /\ \A j \in 1 .. Len(in_buf) : j <= sent[m + 1].words =>
             in_buf[j] = PacketWords(sent[m + 1], m + 1)[j]
    BY <1>2, <1>5, AtHeader
  <2>2. k = sent[m + 1]
    <3>1. ReadsAs(in_buf[1]) = {sent[m + 1]}
      BY <2>1, ReadsHeader
    <3>. QED  BY <1>1, <3>1
  <2>3. k.words \in Nat \ {0} /\ (k.receipt => k.words = 1)
    BY <2>1, <2>2, KindIs
  <2>4. PICK l \in Nat \ {0} : l = Len(in_buf)
    BY <1>2 DEF Types
  <2>5. CASE Dispatch(k)
    <3>1. Whole(k)
      BY <2>3, <2>4, <2>5 DEF Dispatch, Whole
    <3>2. SubSeq(in_buf, 1, k.words) = PacketWords(k, m + 1)
      <4>. DEFINE s == SubSeq(in_buf, 1, k.words)
                  t == PacketWords(k, m + 1)
      <4>1. k.words <= l /\ in_buf \in Seq(Word \cup {Mixed})
        BY <2>4, <3>1 DEF Whole, Types
      <4>2. s = [i \in 1 .. k.words |-> in_buf[i]]
        BY <2>3, <2>4, <4>1
      <4>3. t = [i \in 1 .. k.words |-> t[i]]
        BY DEF PacketWords
      <4>4. \A i \in 1 .. k.words : in_buf[i] = t[i]
        BY <2>1, <2>2, <2>3, <2>4, <4>1
      <4>. HIDE DEF s, t
      <4>5. s = t
        BY <4>2, <4>3, <4>4
      <4>. QED  BY <4>5 DEF s, t
    <3>3. handled' = Add(sent, m + 1, handled)
      BY <1>5, <2>2, <2>5, <3>2 DEF Dispatch, Add
    <3>4. Consume(k) /\ overran' = overran
      BY <2>5 DEF Dispatch
    <3>5. Upto(off, m + 1)'
      BY <1>2, <1>5, <2>2, <3>1, <3>3, <3>4, NextPacket
    <3>. QED  BY <1>3, <3>5
  <2>6. CASE Skip(k) /\ Whole(k)
    <3>1. handled' = Add(sent, m + 1, handled)
      BY <2>2, <2>6 DEF Skip, Add
    <3>2. Consume(k) /\ overran' = overran
      BY <1>5, <2>6 DEF Skip, Types, Slipped
    <3>3. Upto(off, m + 1)'
      BY <1>2, <1>5, <2>2, <2>6, <3>1, <3>2, NextPacket
    <3>. QED  BY <1>3, <3>3
  <2>7. CASE Skip(k) /\ ~ Whole(k)
    <3>1. Slipped' /\ handled' = handled
      BY <2>7 DEF Skip, Slipped
    <3>2. Upto(off, m)'
      BY <1>2, <3>1 DEF Upto
    <3>. QED  BY <1>3, <3>2
  <2>8. CASE KeepStraggler(k)
    <3>1. in_buf' = in_buf /\ handled' = handled /\ overran' = overran /\ ~ Whole(k)
      BY <2>8 DEF KeepStraggler
    <3>2. in_buf[1].kind = k
      BY <2>1, <2>2 DEF WordOf
    <3>3. Short'
      BY <2>3, <2>4, <3>1, <3>2 DEF Short, Whole
    <3>4. ~ Slipped /\ open => Kept(off[m])'
      BY <1>2, <3>1 DEF Upto, Kept
    <3>5. Upto(off, m)'
      BY <1>2, <3>1, <3>3, <3>4 DEF Upto, Slipped
    <3>. QED  BY <1>3, <3>5
  <2>. QED  BY <1>1, <2>5, <2>6, <2>7, <2>8
<1>. QED  BY <1>4, <1>5

LEMMA Joined ==
  ASSUME NEW S, NEW a \in Seq(S), NEW b \in Seq(S), NEW x \in Nat, NEW y \in Nat, x = Len(a), y = Len(b)
  PROVE  /\ a \o b \in Seq(S) /\ Len(a \o b) = x + y
         /\ \A i \in 1 .. x : (a \o b)[i] = a[i]
         /\ \A i \in 1 .. y : (a \o b)[x + i] = b[i]
OBVIOUS

(* A read adds whole words, from where the last one ended. *)
LEMMA WordsRead ==
  ASSUME Types, NEW n \in 1 .. Room, n <= Unread
  PROVE  [i \in 1 .. n \div W |-> ReadWord(i)] \in Seq(Word \cup {Mixed})
<1>. DEFINE words == [i \in 1 .. n \div W |-> ReadWord(i)]
<1>1. n \in Nat /\ got + n \in Nat /\ got + n <= W * Len(stream) /\ Len(stream) \in Nat
  <2>1. Len(stream) \in Nat /\ W * Len(stream) \in Nat
    BY Parameters DEF Types
  <2>2. n \in Nat
    OBVIOUS
  <2>. QED  BY <2>1, <2>2 DEF Types, Unread
<1>2. n \div W \in Nat
  BY <1>1, Divided
<1>3. words \in Seq(Word \cup {Mixed})
  <2>1. ASSUME NEW i \in 1 .. n \div W PROVE ReadWord(i) \in Word \cup {Mixed}
    <3>1. CASE got % W = 0
      <4>1. (got + n) \div W <= Len(stream)
        BY <1>1, DividedMost
      <4>2. (got + n) \div W = (got \div W) + (n \div W) /\ got \div W \in Nat
        BY <1>1, <3>1, Divided, DividedSum DEF Types
      <4>3. (got \div W) + i \in 1 .. Len(stream)
        BY <1>1, <1>2, <4>1, <4>2
      <4>. QED  BY <3>1, <4>3 DEF Types, ReadWord
    <3>2. CASE got % W # 0
      BY <3>2 DEF ReadWord
    <3>. QED  BY <3>1, <3>2
  <2>. QED  BY <1>2, <2>1
<1>. QED  BY <1>3

LEMMA ReadTypes ==
  ASSUME Types, open, ~ busy, NEW n \in 1 .. Room, n <= Unread, Read(n)
  PROVE  Types' /\ RoomForWord'
<1>. DEFINE words == [i \in 1 .. n \div W |-> ReadWord(i)]
<1>1. n \in Nat /\ got + n \in Nat /\ got + n <= W * Len(stream) /\ Len(stream) \in Nat
  <2>1. Len(stream) \in Nat /\ W * Len(stream) \in Nat
    BY Parameters DEF Types
  <2>2. n \in Nat
    OBVIOUS
  <2>. QED  BY <2>1, <2>2 DEF Types, Unread
<1>3. words \in Seq(Word \cup {Mixed})
  BY WordsRead
<1>4. in_buf' \in Seq(Word \cup {Mixed})
  <2>1. in_buf' = in_buf \o words
    BY DEF Read
  <2>. HIDE DEF words
  <2>. QED  BY <1>3, <2>1 DEF Types
<1>5. /\ got' = got + n /\ (busy' = (in_buf' # << >>)) /\ torn' = (torn \/ got % W # 0)
      /\ UNCHANGED <<sent, stream, overran, open>>
  BY DEF Read
<1>6. busy' \in BOOLEAN /\ torn' \in BOOLEAN
  BY <1>5 DEF Types
<1>7. Types'
  BY <1>1, <1>4, <1>5, <1>6 DEF Types
<1>8. RoomForWord'
  <2>1. CASE busy'
    BY <2>1 DEF RoomForWord
  <2>2. CASE ~ busy'
    <3>1. in_buf' = << >>
      BY <1>5, <2>2
    <3>2. Len(in_buf') = 0
      BY <3>1
    <3>. QED  BY <3>2, RxAssumption DEF RoomForWord, Room
  <2>. QED  BY <2>1, <2>2
<1>. QED  BY <1>7, <1>8

LEMMA ReadUpto ==
  ASSUME Types, NEW off, Laid(off), NEW m, Upto(off, m),
         open, ~ busy, NEW n \in 1 .. Room, n <= Unread, Read(n)
  PROVE  Laid(off)' /\ Upto(off, m)'
<1>. DEFINE words == [i \in 1 .. n \div W |-> ReadWord(i)]
<1>1. /\ UNCHANGED <<sent, stream, handled, overran, open>> /\ got' = got + n
      /\ in_buf' = in_buf \o words /\ (busy' = (in_buf' # << >>))
      /\ torn' = (torn \/ got % W # 0)
  BY DEF Read
<1>2. Laid(off)'
  BY <1>1 DEF Laid
<1>3. ASSUME ~ Slipped' PROVE Kept(off[m])' /\ Short'
  <2>1. ~ Slipped /\ got % W = 0
    BY <1>1, <1>3 DEF Slipped
  <2>2. /\ off[m] \in Nat /\ off[m] + Len(in_buf) = got \div W
        /\ \A i \in 1 .. Len(in_buf) : in_buf[i] = stream[off[m] + i]
    BY <2>1 DEF Upto, Kept, Laid
  <2>3. n \in Nat /\ n \div W \in Nat
    BY Divided
  <2>4. (got + n) \div W = (got \div W) + (n \div W)
    BY <2>1, <2>3, DividedSum DEF Types
  <2>5. PICK l \in Nat : l = Len(in_buf)
    BY DEF Types
  <2>6. PICK d \in Nat : d = n \div W
    BY <2>3
  <2>7. words \in Seq(Word \cup {Mixed}) /\ words = [i \in 1 .. d |-> ReadWord(i)]
    BY <2>6, WordsRead
  <2>8. \A i \in 1 .. d : ReadWord(i) = stream[got \div W + i]
    BY <2>1 DEF ReadWord
  <2>. HIDE DEF words
  <2>9. Len(words) = d /\ \A i \in 1 .. d : words[i] = stream[got \div W + i]
    BY <2>7, <2>8
  <2>10. /\ Len(in_buf') = l + d
         /\ \A i \in 1 .. l : in_buf'[i] = in_buf[i]
         /\ \A i \in 1 .. d : in_buf'[l + i] = stream[got \div W + i]
    <3>1. /\ Len(in_buf') = l + d
          /\ \A i \in 1 .. l : in_buf'[i] = in_buf[i]
          /\ \A i \in 1 .. d : in_buf'[l + i] = words[i]
      BY <1>1, <2>5, <2>7, <2>9, Joined DEF Types
    <3>. QED  BY <2>9, <3>1
  <2>11. off[m] + Len(in_buf') = got' \div W
    BY <1>1, <2>2, <2>4, <2>5, <2>6, <2>10
  <2>12. ASSUME NEW i \in 1 .. Len(in_buf') PROVE in_buf'[i] = stream[off[m] + i]
    <3>1. CASE i <= l
      BY <2>2, <2>5, <2>10, <3>1
    <3>2. CASE i > l
      <4>1. i - l \in 1 .. d /\ l + (i - l) = i
        BY <2>5, <2>10, <3>2
      <4>2. in_buf'[i] = stream[got \div W + (i - l)]
        <5>1. PICK q \in 1 .. d : q = i - l
          BY <4>1
        <5>2. in_buf'[l + q] = stream[got \div W + q]
          BY <2>10
        <5>. QED  BY <4>1, <5>1, <5>2
      <4>3. got \div W + (i - l) = off[m] + i
        <5>1. got \div W = off[m] + l /\ off[m] \in Nat
          BY <2>2, <2>5
        <5>. QED  BY <2>5, <4>1, <5>1
      <4>. QED  BY <4>2, <4>3
    <3>. QED  BY <2>5, <2>10, <3>1, <3>2
  <2>13. Kept(off[m])'
    BY <1>1, <2>11, <2>12 DEF Kept
  <2>14. Short'
    BY <1>1 DEF Short
  <2>. QED  BY <2>13, <2>14
<1>4. Upto(off, m)'
  BY <1>1, <1>3 DEF Upto
<1>. QED  BY <1>2, <1>4

(* The FPGA sends a whole packet. *)
LEMMA SendKeeps ==
  ASSUME RInv, NEW k \in Kinds, Send(k)
  PROVE  RInv'
<1>. DEFINE n == Len(sent)
            s == Len(stream)
            new == PacketWords(k, n + 1)
<1>1. /\ sent' = Append(sent, k) /\ stream' = stream \o new
      /\ UNCHANGED <<got, in_buf, busy, handled, torn, overran, open>>
  BY DEF Send
<1>2. /\ n \in Nat /\ s \in Nat /\ sent \in Seq(Kinds) /\ stream \in Seq(Word) /\ k.words \in Nat \ {0}
      /\ got \in Nat /\ got <= W * s
  BY KindIs DEF RInv, Types
<1>3. /\ new \in Seq(Word) /\ Len(new) = k.words
      /\ \A j \in 1 .. k.words : new[j] = WordOf(k, n + 1, j)
  <2>1. n + 1 \in Nat
    BY <1>2
  <2>. QED  BY <2>1, PacketIs
<1>. HIDE DEF new
<1>4. /\ sent' \in Seq(Kinds) /\ Len(sent') = n + 1 /\ sent'[n + 1] = k
      /\ \A p \in 1 .. n : sent'[p] = sent[p]
  BY <1>1, <1>2
<1>5. /\ stream' \in Seq(Word) /\ Len(stream') = s + k.words
      /\ \A i \in 1 .. s : stream'[i] = stream[i]
      /\ \A j \in 1 .. k.words : stream'[s + j] = new[j]
  <2>1. k.words = Len(new) /\ s = Len(stream)
    BY <1>3
  <2>. HIDE DEF s
  <2>2. k.words \in Nat /\ s \in Nat
    BY <1>2
  <2>3. /\ stream \o new \in Seq(Word) /\ Len(stream \o new) = s + k.words
        /\ \A i \in 1 .. s : (stream \o new)[i] = stream[i]
        /\ \A j \in 1 .. k.words : (stream \o new)[s + j] = new[j]
    BY <1>2, <1>3, <2>1, <2>2, Joined
  <2>. QED  BY <1>1, <2>3
<1>. HIDE DEF n, s
<1>6. Types'
  <2>1. \A x, y \in Nat : got <= W * x => got <= W * (x + y)
    BY <1>2, Parameters
  <2>2. got' <= W * Len(stream')
    BY <1>1, <1>2, <1>5, <2>1
  <2>. QED  BY <1>1, <1>4, <1>5, <2>2 DEF RInv, Types
<1>7. RoomForWord'
  BY <1>1 DEF RInv, RoomForWord, Room
<1>8. PICK off : Laid(off) /\ \E m : Upto(off, m)
  BY DEF RInv
<1>9. PICK m : Upto(off, m)
  BY <1>8
<1>10. /\ off \in [0 .. n -> Nat] /\ off[0] = 0 /\ off[n] = s
       /\ \A p \in 1 .. n :
            /\ off[p] = off[p - 1] + sent[p].words
            /\ \A j \in 1 .. sent[p].words : stream[off[p - 1] + j] = WordOf(sent[p], p, j)
  BY <1>8 DEF Laid, n, s
<1>11. PICK new_off : new_off = [p \in 0 .. n + 1 |-> IF p = n + 1 THEN s + k.words ELSE off[p]]
  OBVIOUS
<1>12. /\ new_off \in [0 .. n + 1 -> Nat]
       /\ new_off[n + 1] = s + k.words
       /\ \A p \in 0 .. n : new_off[p] = off[p]
  BY <1>2, <1>10, <1>11
<1>13. ASSUME NEW p \in 1 .. n, NEW j \in 1 .. sent[p].words
       PROVE  off[p - 1] + j \in 1 .. s
  (* off grows up to off[n] = s *)
  <2>. DEFINE S == {q \in Nat : q <= n - p => off[p] + q <= off[p + q]}
  <2>0. \A q \in 1 .. n : sent[q] \in Kinds /\ sent[q].words \in Nat \ {0} /\ off[q] \in Nat
    BY <1>2, <1>10, KindIs DEF n
  <2>1. 0 \in S
    BY <1>2, <2>0
  <2>2. ASSUME NEW q \in Nat, q \in S PROVE q + 1 \in S
    <3>. SUFFICES ASSUME q + 1 <= n - p PROVE off[p] + (q + 1) <= off[p + (q + 1)]
      OBVIOUS
    <3>1. p + (q + 1) \in 1 .. n /\ p + q \in 1 .. n /\ (p + (q + 1)) - 1 = p + q
      BY <1>2
    <3>2. off[p + (q + 1)] = off[p + q] + sent[p + (q + 1)].words
      BY <1>10, <3>1
    <3>3. off[p] + q <= off[p + q]
      BY <1>2, <2>2
    <3>. QED  BY <2>0, <3>1, <3>2, <3>3
  <2>3. \A q \in Nat : q \in S
    <3>. HIDE DEF S
    <3>. QED  BY <2>1, <2>2, SetInduction
  <2>4. n - p \in Nat /\ p + (n - p) = n
    BY <1>2
  <2>5. off[p] + (n - p) <= off[n]
    BY <2>3, <2>4
  <2>6. off[p] <= s
    BY <1>10, <2>0, <2>4, <2>5
  <2>7. off[p] = off[p - 1] + sent[p].words /\ off[p - 1] \in Nat
    BY <1>2, <1>10
  <2>. QED  BY <1>2, <2>0, <2>6, <2>7
<1>14. Laid(new_off)'
  <2>1. new_off[0] = 0
    BY <1>2, <1>10, <1>12
  <2>2. ASSUME NEW p \in 1 .. n + 1
        PROVE  /\ new_off[p] = new_off[p - 1] + sent'[p].words
               /\ \A j \in 1 .. sent'[p].words :
                    stream'[new_off[p - 1] + j] = WordOf(sent'[p], p, j)
    <3>1. CASE p = n + 1
      <4>1. p - 1 = n /\ n \in 0 .. n
        BY <1>2, <3>1
      <4>2. new_off[p - 1] = s /\ new_off[p] = s + k.words /\ sent'[p] = k
        BY <1>4, <1>10, <1>12, <3>1, <4>1
      <4>. QED  BY <1>3, <1>5, <3>1, <4>2
    <3>2. CASE p # n + 1
      <4>1. p \in 1 .. n /\ p \in 0 .. n /\ p - 1 \in 0 .. n
        BY <1>2, <3>2
      <4>2. new_off[p] = off[p] /\ new_off[p - 1] = off[p - 1] /\ sent'[p] = sent[p]
        BY <1>4, <1>12, <4>1
      <4>3. ASSUME NEW j \in 1 .. sent[p].words
            PROVE  stream'[off[p - 1] + j] = WordOf(sent[p], p, j)
        BY <1>5, <1>10, <1>13, <4>1
      <4>. QED  BY <1>10, <4>1, <4>2, <4>3
    <3>. QED  BY <3>1, <3>2
  <2>3. new_off \in [0 .. Len(sent') -> Nat] /\ new_off[Len(sent')] = Len(stream')
    BY <1>4, <1>5, <1>12
  <2>4. \A p \in 1 .. Len(sent') :
          /\ new_off[p] = new_off[p - 1] + sent'[p].words
          /\ \A j \in 1 .. sent'[p].words :
               stream'[new_off[p - 1] + j] = WordOf(sent'[p], p, j)
    BY <1>4, <2>2, Zenon
  <2>. QED  BY <2>1, <2>3, <2>4, Zenon DEF Laid
<1>15. Upto(new_off, m)'
  <2>1. m \in 0 .. n
    BY <1>9 DEF Upto, n
  <2>2. m \in 0 .. n + 1 /\ new_off[m] = off[m] /\ off[m] \in Nat
    BY <1>2, <1>10, <1>12, <2>1
  <2>3. handled' = Expected(sent', m)
    BY <1>1, <1>2, <1>9, <2>1, ExpectedSame DEF Upto, n
  <2>4. ASSUME ~ Slipped, open PROVE Kept(off[m])' /\ Short'
    <3>1. Kept(off[m]) /\ Short
      BY <1>9, <2>4 DEF Upto
    <3>2. got \div W <= s
      BY <1>2, DividedMost
    <3>3. PICK l \in Nat : l = Len(in_buf)
      BY DEF RInv, Types
    <3>4. \A i \in 1 .. l : off[m] + i \in 1 .. s
      BY <1>2, <2>2, <3>1, <3>2, <3>3 DEF Kept
    <3>5. Kept(off[m])'
      BY <1>1, <1>5, <3>1, <3>3, <3>4 DEF Kept
    <3>. QED  BY <1>1, <3>1, <3>5 DEF Short
  <2>5. m \in 0 .. Len(sent')
    BY <1>4, <2>2
  <2>6. ~ Slipped' /\ open' => Kept(new_off[m])' /\ Short'
    <3>1. Slipped' = Slipped /\ open' = open /\ Kept(new_off[m])' = Kept(off[m])'
      BY <1>1, <2>2 DEF Slipped
    <3>. QED  BY <2>4, <3>1
  <2>. QED  BY <2>3, <2>5, <2>6, Zenon DEF Upto
<1>. QED  BY <1>6, <1>7, <1>14, <1>15 DEF RInv

LEMMA StepRInv == RInv /\ [Next]_vars => RInv'
<1>. SUFFICES ASSUME RInv, [Next]_vars PROVE RInv'
  OBVIOUS
<1>0. Types /\ RoomForWord
  BY DEF RInv
<1>1. PICK off : Laid(off) /\ \E m : Upto(off, m)
  BY DEF RInv
<1>2. PICK m : Upto(off, m)
  BY <1>1
<1>3. CASE Treat
  BY <1>0, <1>1, <1>2, <1>3, TreatTypes, TreatUpto DEF RInv
<1>4. CASE ReadCb
  <2>1. PICK n \in 1 .. Room : open /\ ~ busy /\ n <= Unread /\ Read(n)
    BY <1>4 DEF ReadCb
  <2>. QED  BY <1>0, <1>1, <1>2, <2>1, ReadTypes, ReadUpto DEF RInv
<1>5. CASE ReadFails
  <2>. USE <1>5 DEF ReadFails
  <2>1. Types'
    <3>1. in_buf' = << >> /\ << >> \in Seq(Word \cup {Mixed})
      OBVIOUS
    <3>. QED  BY <1>0, <3>1 DEF Types
  <2>2. RoomForWord'
    <3>1. Len(in_buf') = 0
      OBVIOUS
    <3>. QED  BY <3>1, RxAssumption DEF RoomForWord, Room
  <2>3. Laid(off)'
    BY <1>1 DEF Laid
  <2>4. Upto(off, m)'
    BY <1>2 DEF Upto
  <2>. QED  BY <2>1, <2>2, <2>3, <2>4 DEF RInv
<1>6. ASSUME NEW k \in Kinds, Send(k) PROVE RInv'
  BY <1>6, SendKeeps
<1>7. CASE UNCHANGED vars
  <2>. USE <1>7 DEF vars
  <2>1. Types' /\ RoomForWord'
    BY <1>0 DEF Types, RoomForWord, Room
  <2>2. Laid(off)' /\ Upto(off, m)'
    BY <1>1, <1>2 DEF Laid, Upto, Slipped, Kept, Short
  <2>. QED  BY <2>1, <2>2 DEF RInv
<1>. QED  BY <1>3, <1>4, <1>5, <1>6, <1>7 DEF Next

(* Whatever the FPGA sends and wherever the socket cuts it, what the loop  *)
(* holds is what follows the packets it dispatched.                        *)
THEOREM StreamInvariant == Spec => []RInv
<1>1. RInv /\ [Next]_vars => RInv'
  BY StepRInv
<1>. QED  BY InitRInv, <1>1, PTL DEF Spec

(* Every receipt and log for a dbg_guv is dispatched once, whole and in    *)
(* order, up to a read that begins inside a word or a skipped log that was *)
(* not all there.                                                          *)
THEOREM DispatchedInOrder == Spec => []DispatchInOrder
<1>1. RInv => DispatchInOrder
  BY DEF RInv, Upto, DispatchInOrder
<1>. QED  BY <1>1, StreamInvariant, PTL

(* Until then the loop takes nothing for a header that is not one.         *)
THEOREM HeadersOnly == Spec => []InStep
<1>1. RInv => InStep
  <2>. SUFFICES ASSUME RInv, busy, ~ Slipped PROVE in_buf[1].at = 1
    BY DEF InStep
  <2>1. Types /\ open /\ in_buf # << >>
    BY DEF RInv, Types
  <2>2. PICK off : Laid(off) /\ \E m : Upto(off, m)
    BY DEF RInv
  <2>3. PICK m : Upto(off, m)
    BY <2>2
  <2>4. in_buf[1] = WordOf(sent[m + 1], m + 1, 1)
    BY <2>1, <2>2, <2>3, AtHeader
  <2>. QED  BY <2>4 DEF WordOf
<1>. QED  BY <1>1, StreamInvariant, PTL

(* Between two reads the buffer holds at most the beginning of one log.    *)
THEOREM OneLogKept == Spec => []KeepsOneLog
<1>1. RInv => KeepsOneLog
  <2>. SUFFICES ASSUME RInv, ~ busy, ~ Slipped, in_buf # << >>
                PROVE  /\ Len(in_buf) < in_buf[1].kind.words
                       /\ in_buf = SubSeq(PacketWords(in_buf[1].kind, in_buf[1].packet), 1, Len(in_buf))
    BY DEF KeepsOneLog
  <2>1. Types /\ open
    BY DEF RInv, Types
  <2>2. PICK off : Laid(off) /\ \E m : Upto(off, m)
    BY DEF RInv
  <2>3. PICK m : Upto(off, m)
    BY <2>2
  <2>4. /\ m \in Nat /\ sent[m + 1] \in Kinds
        /\ in_buf[1] = WordOf(sent[m + 1], m + 1, 1)
        /\ \A j \in 1 .. Len(in_buf) : j <= sent[m + 1].words =>
             in_buf[j] = PacketWords(sent[m + 1], m + 1)[j]
    BY <2>1, <2>2, <2>3, AtHeader
  <2>5. Len(in_buf) < in_buf[1].kind.words
    BY <2>1, <2>3 DEF Upto, Short
  <2>. DEFINE t == PacketWords(sent[m + 1], m + 1)
  <2>6. in_buf[1].kind = sent[m + 1] /\ in_buf[1].packet = m + 1
    BY <2>4 DEF WordOf
  <2>7. /\ t \in Seq(Word) /\ Len(t) = sent[m + 1].words /\ sent[m + 1].words \in Nat
    <3>1. m + 1 \in Nat
      BY <2>4
    <3>. QED  BY <2>4, <3>1, PacketIs, KindIs
  <2>8. PICK l \in Nat : l = Len(in_buf)
    BY <2>1 DEF Types
  <2>9. l < sent[m + 1].words /\ \A j \in 1 .. l : in_buf[j] = t[j]
    BY <2>4, <2>5, <2>6, <2>7, <2>8
  <2>. HIDE DEF t
  <2>10. SubSeq(t, 1, l) = [j \in 1 .. l |-> t[j]]
    BY <2>7, <2>8, <2>9
  <2>11. in_buf = [j \in 1 .. l |-> in_buf[j]]
    BY <2>1, <2>8 DEF Types
  <2>12. in_buf = SubSeq(t, 1, l)
    BY <2>9, <2>10, <2>11
  <2>. QED  BY <2>5, <2>6, <2>8, <2>12 DEF t
<1>. QED  BY <1>1, StreamInvariant, PTL

(* In step or not, the next read has room for a word.                      *)
THEOREM RoomIsLeft == Spec => []RoomForWord
<1>1. RInv => RoomForWord
  BY DEF RInv
<1>. QED  BY <1>1, StreamInvariant, PTL
=============================================================================
