---------------------------- MODULE ShardBytesProofs ----------------------------
(***************************************************************************)
(* Proofs about ShardBytes, for frames of any number and lengths, a pipe   *)
(* and chunks of any size, and reads and writes of any sizes.              *)
(***************************************************************************)
EXTENDS ShardBytes, DataLemmas, TLAPS

LEMMA ElementIn ==
  ASSUME NEW R, NEW s \in Seq(R), NEW i \in 1..Len(s)
  PROVE  s[i] \in R
OBVIOUS

LEMMA FramesAre ==
  ASSUME frames \in Frames
  PROVE  /\ Len(frames) \in Nat
         /\ \A i \in 1..Len(frames) :
              /\ frames[i].kind \in {"marker", "payload"}
              /\ frames[i].len \in Nat
              /\ SizeOf(frames[i]) \in Nat \ {0}
              /\ frames[i].kind = "marker" => SizeOf(frames[i]) = Prefix + frames[i].len
              /\ frames[i].kind = "payload" =>
                   /\ SizeOf(frames[i]) = frames[i].len
                   /\ i > 1 /\ frames[i-1].kind = "marker"
<1>1. frames \in Seq([kind : {"marker", "payload"}, len : Nat]) /\ Prefix \in Nat \ {0}
  BY BytesAssumption
<1>2. Len(frames) \in Nat
  BY <1>1
<1> SUFFICES ASSUME NEW i \in 1..Len(frames)
             PROVE  /\ frames[i].kind \in {"marker", "payload"}
                    /\ frames[i].len \in Nat
                    /\ SizeOf(frames[i]) \in Nat \ {0}
                    /\ frames[i].kind = "marker" => SizeOf(frames[i]) = Prefix + frames[i].len
                    /\ frames[i].kind = "payload" =>
                         /\ SizeOf(frames[i]) = frames[i].len
                         /\ i > 1 /\ frames[i-1].kind = "marker"
  BY <1>2
<1>3. frames[i] \in [kind : {"marker", "payload"}, len : Nat]
  <2>1. PICK R : R = [kind : {"marker", "payload"}, len : Nat]
    OBVIOUS
  <2>2. frames \in Seq(R)
    BY <1>1, <2>1
  <2>3. frames[i] \in R
    BY <2>2, ElementIn
  <2> QED BY <2>1, <2>3
<1>4. frames[i].kind \in {"marker", "payload"} /\ frames[i].len \in Nat
  BY <1>3
<1>5. frames[i].kind = "payload" => frames[i].len > 0 /\ i > 1 /\ frames[i-1].kind = "marker"
  BY BytesAssumption
<1> QED BY <1>1, <1>4, <1>5 DEF SizeOf

-----------------------------------------------------------------------------
\* Where the frames end.

LEMMA OffsetNext ==
  ASSUME frames \in Frames, NEW n \in 0..(Len(frames) - 1)
  PROVE  /\ Offset(n + 1) = Offset(n) + SizeOf(frames[n + 1])
         /\ Offset(n) \in Int
<1> DEFINE f == [i \in 1..Len(frames) |-> SizeOf(frames[i])]
<1>1. n \in Nat /\ n + 1 \in 1..Len(frames) /\ 1..(n + 1) \subseteq 1..Len(frames)
  BY FramesAre
<1>2. \A i \in 1..(n + 1) : f[i] = SizeOf(frames[i]) /\ f[i] \in Int
  BY <1>1, FramesAre
<1>3. f[n + 1] = SizeOf(frames[n + 1])
  BY <1>1
<1>4. Offset(n + 1) = SumOver(f, 1..(n + 1)) /\ Offset(n) = SumOver(f, 1..n)
  BY DEF Offset, SumOver
<1> HIDE DEF f
<1>5. IntegersOn(f, 1..(n + 1))
  BY <1>2 DEF IntegersOn
<1>6. PICK S, T : S = 1..(n + 1) /\ T = 1..n
  OBVIOUS
<1>7. SumOver(f, S) = SumOver(f, T) + f[n + 1] /\ SumOver(f, T) \in Int
  BY <1>1, <1>5, <1>6, SumNext
<1> QED BY <1>3, <1>4, <1>6, <1>7

LEMMA OffsetZero == Offset(0) = 0
<1>1. PICK T : T = 1..0
  OBVIOUS
<1>2. T = {}
  BY <1>1
<1>3. SumOver([i \in 1..Len(frames) |-> SizeOf(frames[i])], T) = 0
  BY <1>2, SumEmpty
<1> QED BY <1>1, <1>3 DEF Offset, SumOver

\* Every frame takes a byte at least.
LEMMA OffsetGrows ==
  ASSUME frames \in Frames
  PROVE  /\ \A n \in 0..Len(frames) : Offset(n) \in Nat
         /\ \A m, n \in 0..Len(frames) : m < n => Offset(m) + 1 <= Offset(n)
         /\ \A m, n \in 0..Len(frames) : m <= n => Offset(m) <= Offset(n)
<1> DEFINE T == {n \in Nat : n <= Len(frames) =>
                   /\ Offset(n) \in Nat
                   /\ \A m \in 0..(n - 1) : Offset(m) + 1 <= Offset(n)}
<1>1. Len(frames) \in Nat
  BY FramesAre
<1>2. 0 \in T
  BY OffsetZero
<1>3. ASSUME NEW n \in T
      PROVE  n + 1 \in T
  <2> SUFFICES ASSUME n + 1 <= Len(frames)
               PROVE  /\ Offset(n + 1) \in Nat
                      /\ \A m \in 0..n : Offset(m) + 1 <= Offset(n + 1)
    OBVIOUS
  <2>1. n \in Nat /\ n \in 0..(Len(frames) - 1) /\ n + 1 \in 1..Len(frames)
    BY <1>1
  <2>2. Offset(n) \in Nat /\ \A m \in 0..(n - 1) : Offset(m) + 1 <= Offset(n)
    BY <1>1, <2>1
  <2>3. Offset(n + 1) = Offset(n) + SizeOf(frames[n + 1]) /\ SizeOf(frames[n + 1]) \in Nat \ {0}
    BY <2>1, OffsetNext, FramesAre
  <2>4. \A m \in 0..(n - 1) : Offset(m) + 1 <= Offset(n) /\ Offset(n) + 1 <= Offset(n + 1)
    BY <2>2, <2>3
  <2>5. \A m \in 0..(n - 1) : Offset(m) \in Int
    <3> TAKE m \in 0..(n - 1)
    <3>1. m \in 0..(Len(frames) - 1)
      BY <2>1
    <3> QED BY <3>1, OffsetNext
  <2>6. ASSUME NEW m \in 0..n
        PROVE  Offset(m) + 1 <= Offset(n + 1)
    <3>1. CASE m = n
      BY <2>2, <2>3, <3>1
    <3>2. CASE m # n
      <4>1. m \in 0..(n - 1)
        BY <2>1, <3>2
      <4> QED BY <2>2, <2>3, <2>4, <2>5, <4>1
    <3> QED BY <3>1, <3>2
  <2>7. Offset(n + 1) \in Nat
    BY <2>2, <2>3
  <2> QED BY <2>6, <2>7
<1>4. T = Nat
  <2> HIDE DEF T
  <2>1. T \subseteq Nat
    BY DEF T
  <2> QED BY <1>2, <1>3, <2>1, SetInduction
<1>5. \A n \in 0..Len(frames) :
        Offset(n) \in Nat /\ \A m \in 0..(n - 1) : Offset(m) + 1 <= Offset(n)
  <2> TAKE n \in 0..Len(frames)
  <2>1. n \in T /\ n <= Len(frames)
    BY <1>1, <1>4
  <2> QED BY <2>1
<1> HIDE DEF T
<1>6. ASSUME NEW m \in 0..Len(frames), NEW n \in 0..Len(frames), m < n
      PROVE  Offset(m) + 1 <= Offset(n)
  <2>1. m \in 0..(n - 1)
    BY <1>6
  <2> QED BY <1>5, <2>1
<1>7. ASSUME NEW m \in 0..Len(frames), NEW n \in 0..Len(frames), m <= n
      PROVE  Offset(m) <= Offset(n)
  <2>1. Offset(m) \in Nat /\ Offset(n) \in Nat
    BY <1>5
  <2>2. CASE m = n
    BY <2>1, <2>2
  <2>3. CASE m # n
    BY <1>6, <1>7, <2>1, <2>3
  <2> QED BY <2>2, <2>3
<1> QED BY <1>5, <1>6, <1>7

\* The first n frames are written when so many bytes are.
LEMMA SentIs ==
  ASSUME frames \in Frames, NEW w \in Nat, NEW s,
         s = Max({n \in 0..Len(frames) : Offset(n) <= w})
  PROVE  /\ s \in 0..Len(frames) /\ Offset(s) <= w
         /\ \A n \in 0..Len(frames) : Offset(n) <= w => n <= s
<1> DEFINE Fit == {n \in 0..Len(frames) : Offset(n) <= w}
           Over == {k \in Nat : \E n \in Fit : k = Len(frames) - n}
<1>1. Len(frames) \in Nat
  BY FramesAre
<1>2. 0 \in Fit
  BY <1>1, OffsetZero
<1>3. Len(frames) \in Over
  BY <1>1, <1>2
<1>4. PICK k \in Over : \A j \in Over : k <= j
  <2>1. Over \in SUBSET Nat /\ Over # {}
    BY <1>3
  <2> HIDE DEF Over
  <2> QED BY <2>1, LeastElement
<1>5. PICK n \in Fit : k = Len(frames) - n
  BY <1>4
<1>6. \A m \in Fit : n >= m
  <2> TAKE m \in Fit
  <2>1. Len(frames) - m \in Over /\ m \in Nat /\ n \in Nat
    BY <1>1
  <2>2. k <= Len(frames) - m
    BY <1>4, <2>1
  <2> QED BY <1>1, <1>5, <2>1, <2>2
<1>7. s \in Fit /\ \A m \in Fit : s >= m
  <2> HIDE DEF Fit
  <2>1. s = CHOOSE x \in Fit : \A y \in Fit : x >= y
    BY DEF Max, Fit
  <2> QED BY <1>6, <2>1
<1> QED BY <1>7

\* The one number of frames whose end is not past w, while that of the next is.
LEMMA SentAt ==
  ASSUME frames \in Frames, NEW w \in Nat, NEW s,
         s = Max({n \in 0..Len(frames) : Offset(n) <= w}),
         NEW n \in 0..Len(frames), Offset(n) <= w, n < Len(frames) => w < Offset(n + 1)
  PROVE  s = n
<1>1. s \in 0..Len(frames) /\ Offset(s) <= w /\ n <= s /\ Len(frames) \in Nat
  BY SentIs, FramesAre
<1>2. CASE n < s
  <2>1. n + 1 \in 0..Len(frames) /\ n + 1 <= s /\ n < Len(frames)
    BY <1>1, <1>2
  <2>2. Offset(n + 1) <= Offset(s) /\ Offset(n + 1) \in Nat /\ Offset(s) \in Nat
    BY <1>1, <2>1, OffsetGrows
  <2> QED BY <1>1, <2>1, <2>2
<1> QED BY <1>1, <1>2

-----------------------------------------------------------------------------
\* The payloads among the first frames.

LEMMA PayloadNext ==
  ASSUME frames \in Frames, NEW n \in 0..(Len(frames) - 1)
  PROVE  /\ frames[n + 1].kind = "marker" => PayloadBytes(n + 1) = PayloadBytes(n)
         /\ frames[n + 1].kind = "payload" =>
              PayloadBytes(n + 1) = PayloadBytes(n) + frames[n + 1].len
         /\ PayloadBytes(n) \in Int
<1> DEFINE f == [i \in 1..Len(frames) |-> frames[i].len]
<1>1. n \in Nat /\ n + 1 \in 1..Len(frames) /\ 1..(n + 1) \subseteq 1..Len(frames)
  BY FramesAre
<1>2. \A i \in 1..(n + 1) : f[i] = frames[i].len /\ f[i] \in Int
  BY <1>1, FramesAre
<1>3. f[n + 1] = frames[n + 1].len
  BY <1>1
<1>4. PICK S, T : /\ S = {i \in 1..(n + 1) : frames[i].kind = "payload"}
                  /\ T = {i \in 1..n : frames[i].kind = "payload"}
  OBVIOUS
<1>5. PayloadBytes(n + 1) = SumOver(f, S) /\ PayloadBytes(n) = SumOver(f, T)
  BY <1>4 DEF PayloadBytes, SumOver
<1> HIDE DEF f
<1>6. IntegersOn(f, 1..(n + 1))
  BY <1>2 DEF IntegersOn
<1>7. T \subseteq 1..n
  BY <1>4
<1>8. SumOver(f, T) \in Int
  <2>1. PICK U : U = T \cup {n + 1}
    OBVIOUS
  <2> QED BY <1>1, <1>6, <1>7, <2>1, SumNextIn
<1>9. ASSUME frames[n + 1].kind = "marker"
      PROVE  PayloadBytes(n + 1) = PayloadBytes(n)
  <2>1. S = T
    <3>1. \A i : i \in 1..(n + 1) <=> i \in 1..n \/ i = n + 1
      BY <1>1
    <3> QED BY <1>4, <1>9, <3>1
  <2> QED BY <1>5, <2>1
<1>10. ASSUME frames[n + 1].kind = "payload"
       PROVE  PayloadBytes(n + 1) = PayloadBytes(n) + frames[n + 1].len
  <2>1. S = T \cup {n + 1}
    <3>1. \A i : i \in 1..(n + 1) <=> i \in 1..n \/ i = n + 1
      BY <1>1
    <3> QED BY <1>4, <1>10, <3>1
  <2>2. SumOver(f, S) = SumOver(f, T) + f[n + 1]
    BY <1>1, <1>6, <1>7, <2>1, SumNextIn
  <2> QED BY <1>3, <1>5, <2>2
<1>11. PayloadBytes(n) \in Int
  BY <1>5, <1>8
<1> QED BY <1>9, <1>10, <1>11

-----------------------------------------------------------------------------
\* The pieces of a file.

Piece == 0..ChunkSize

\* The bytes in them.
Held(pieces) == SumOver(pieces, 1..Len(pieces))

FileType == [large : BOOLEAN, pieces : Seq(Piece)]

\* A piece is added behind the others.
LEMMA AppendPiece ==
  ASSUME NEW p \in Seq(Piece), NEW q \in Seq(Piece), Len(q) = Len(p) + 1,
         \A i \in 1..Len(p) : q[i] = p[i]
  PROVE  /\ Held(q) = Held(p) + q[Len(q)]
         /\ Held(p) \in Int
<1>1. Len(p) \in Nat
  OBVIOUS
<1>2. Piece \subseteq Int
  BY BytesAssumption DEF Piece
<1>3. \A i \in 1..Len(q) : q[i] \in Int
  <2> TAKE i \in 1..Len(q)
  <2>1. q[i] \in Piece
    BY ElementIn
  <2> QED BY <1>2, <2>1
<1>4. PICK m, S, T : m = Len(p) /\ S = 1..(m + 1) /\ T = 1..m
  OBVIOUS
<1>5. IntegersOn(q, 1..(m + 1))
  BY <1>1, <1>3, <1>4 DEF IntegersOn
<1>6. SumOver(q, S) = SumOver(q, T) + q[m + 1] /\ SumOver(q, T) \in Int
  BY <1>1, <1>4, <1>5, SumNext
<1>7. IsFiniteSet(T) /\ \A i \in T : q[i] = p[i]
  BY <1>1, <1>4, FS_Interval
<1>8. SumOver(q, T) = SumOver(p, T)
  BY <1>7, SumSame
<1>9. 1..Len(q) = S /\ 1..Len(p) = T /\ q[m + 1] = q[Len(q)]
  BY <1>1, <1>4
<1> QED BY <1>6, <1>8, <1>9 DEF Held

\* The last piece grows.
LEMMA GrowPiece ==
  ASSUME NEW p \in Seq(Piece), Len(p) > 0, NEW n \in Nat, p[Len(p)] + n \in Piece,
         NEW q, q = [p EXCEPT ![Len(p)] = @ + n]
  PROVE  /\ q \in Seq(Piece)
         /\ Len(q) = Len(p)
         /\ \A i \in 1..(Len(p) - 1) : q[i] = p[i]
         /\ q[Len(p)] = p[Len(p)] + n
         /\ Held(q) = Held(p) + n
<1>1. Len(p) \in Nat /\ Len(p) \in 1..Len(p)
  OBVIOUS
<1>2. /\ q \in Seq(Piece)
      /\ Len(q) = Len(p)
      /\ q[Len(p)] = p[Len(p)] + n
      /\ \A i \in 1..Len(p) : i # Len(p) => q[i] = p[i]
  BY <1>1
<1>3. Piece \subseteq Int
  BY BytesAssumption DEF Piece
<1>4. \A i \in 1..Len(p) : p[i] \in Int /\ q[i] \in Int
  <2> TAKE i \in 1..Len(p)
  <2>1. p[i] \in Piece /\ q[i] \in Piece
    BY <1>2, ElementIn
  <2> QED BY <1>3, <2>1
<1>5. PICK S, x : S = 1..Len(p) /\ x = Len(p)
  OBVIOUS
<1>6. /\ IsFiniteSet(S) /\ x \in S
      /\ IntegersOn(p, S) /\ IntegersOn(q, S)
      /\ \A y \in S \ {x} : q[y] = p[y]
  <2>1. IsFiniteSet(S) /\ x \in S
    BY <1>1, <1>5, FS_Interval
  <2>2. IntegersOn(p, S) /\ IntegersOn(q, S)
    BY <1>4, <1>5 DEF IntegersOn
  <2>3. \A y \in S \ {x} : q[y] = p[y]
    BY <1>2, <1>5
  <2> QED BY <2>1, <2>2, <2>3
<1>7. SumOver(q, S) = SumOver(p, S) - p[x] + q[x]
  BY ONLY <1>6, SumUpdate
<1>8. SumOver(p, S) \in Int /\ p[x] \in Int
  BY <1>6, SumType DEF IntegersOn
<1>9. SumOver(q, S) = SumOver(p, S) + n
  <2>1. q[x] = p[x] + n
    BY <1>2, <1>5
  <2> HIDE <1>2, <1>5, <1>4
  <2>2. \A a, b \in Int : a - b + (b + n) = a + n
    OBVIOUS
  <2> QED BY <1>7, <1>8, <2>1, <2>2
<1>10. 1..Len(q) = S /\ 1..Len(p) = S
  BY <1>2, <1>5
<1>11. Held(q) = Held(p) + n
  BY <1>9, <1>10 DEF Held
<1>12. \A i \in 1..(Len(p) - 1) : q[i] = p[i]
  <2> TAKE i \in 1..(Len(p) - 1)
  <2>1. i \in 1..Len(p) /\ i # Len(p)
    BY <1>1
  <2> QED BY <1>2, <2>1
<1> QED BY <1>2, <1>11, <1>12

\* What the memory store has of a file: a small file is one piece, and a large one
\* has full chunks but for the last.
FitsMemory(f) ==
  /\ Len(f.pieces) > 0
  /\ f.large => \A i \in 1..(Len(f.pieces) - 1) : f.pieces[i] = ChunkSize
  /\ ~f.large => Len(f.pieces) = 1 /\ f.pieces[1] <= SmallMax

\* n more bytes go into the last piece.
PieceFits(f, n) ==
  /\ f.large => LastOf(f.pieces) + n <= ChunkSize
  /\ ~f.large => LastOf(f.pieces) + n <= SmallMax

\* There is room for a byte at least once reserve_chunk() returns.
LEMMA ReserveFits ==
  ASSUME NEW f \in FileType, FitsMemory(f), NEW n \in Nat \ {0}
  PROVE  LET g == Reserve(f, n)
         IN  /\ g \in FileType
             /\ FitsMemory(g)
             /\ Held(g.pieces) = Held(f.pieces)
             /\ g.large => RoomIn(g) \in Nat \ {0}
             /\ ~g.large => PieceFits(g, n)
<1> DEFINE g == Reserve(f, n)
<1>0. ChunkSize \in Nat /\ SmallMax \in Nat /\ SmallMax < ChunkSize /\ 0 \in Piece
  BY BytesAssumption DEF Piece
<1>1. /\ f.pieces \in Seq(Piece) /\ f.large \in BOOLEAN
      /\ f = [large |-> f.large, pieces |-> f.pieces]
      /\ Len(f.pieces) \in Nat /\ Len(f.pieces) \in 1..Len(f.pieces)
  BY DEF FileType, FitsMemory
<1>2. LastOf(f.pieces) \in Piece /\ LastOf(f.pieces) \in Nat /\ LastOf(f.pieces) <= ChunkSize
  <2>1. LastOf(f.pieces) \in Piece
    BY <1>1, ElementIn DEF LastOf
  <2> QED BY <1>0, <2>1 DEF Piece
<1>3. CASE f.large /\ LastOf(f.pieces) < ChunkSize
  <2>1. g = f
    BY <1>3 DEF Reserve
  <2>2. RoomIn(f) \in Nat \ {0}
    BY <1>0, <1>2, <1>3 DEF RoomIn
  <2> QED BY <1>3, <2>1, <2>2
<1>4. CASE f.large /\ ~(LastOf(f.pieces) < ChunkSize)
  <2>1. g = [large |-> TRUE, pieces |-> Append(f.pieces, 0)]
    BY <1>1, <1>4 DEF Reserve
  <2>2. g \in [large : BOOLEAN, pieces : Seq(Piece)] /\ g.large /\ g.pieces = Append(f.pieces, 0)
    <3>1. Append(f.pieces, 0) \in Seq(Piece)
      BY <1>0, <1>1
    <3> QED BY <2>1, <3>1
  <2> HIDE DEF g
  <2>3. PICK p, q : p = f.pieces /\ q = g.pieces
    OBVIOUS
  <2>4. /\ Len(q) = Len(p) + 1
        /\ \A i \in 1..Len(p) : q[i] = p[i]
        /\ q[Len(p) + 1] = 0
        /\ Held(q) = Held(p) + 0
        /\ Held(p) \in Int
    <3>1. /\ p \in Seq(Piece) /\ q \in Seq(Piece) /\ Len(q) = Len(p) + 1
          /\ \A i \in 1..Len(p) : q[i] = p[i]
          /\ q[Len(p) + 1] = 0
      <4>1. /\ p \in Seq(Piece) /\ q = Append(p, 0)
        BY <1>1, <2>2, <2>3
      <4> QED BY <1>0, <4>1
    <3>2. Held(q) = Held(p) + q[Len(q)] /\ Held(p) \in Int
      BY <3>1, AppendPiece
    <3> QED BY <3>1, <3>2
  <2>5. p[Len(p)] = ChunkSize /\ \A i \in 1..(Len(p) - 1) : p[i] = ChunkSize
    BY <1>0, <1>2, <1>4, <2>3 DEF LastOf, FitsMemory
  <2>6. \A i \in 1..(Len(q) - 1) : q[i] = ChunkSize
    BY <1>1, <2>3, <2>4, <2>5
  <2>7. FitsMemory(g)
    BY <1>1, <2>2, <2>3, <2>4, <2>6 DEF FitsMemory
  <2>8. RoomIn(g) = ChunkSize - 0
    BY <2>3, <2>4 DEF RoomIn, LastOf
  <2>9. Held(q) = Held(p)
    BY <2>4
  <2>10. RoomIn(g) \in Nat \ {0}
    BY <1>0, <2>8
  <2> QED BY <2>2, <2>3, <2>7, <2>9, <2>10 DEF FileType, g
<1>5. CASE ~f.large
  <2>1. PICK large : large = (LastOf(f.pieces) + n > SmallMax)
    OBVIOUS
  <2>2. g \in FileType /\ g.pieces = f.pieces /\ (g.large <=> LastOf(f.pieces) + n > SmallMax)
    <3>1. g = [large |-> large, pieces |-> f.pieces]
      BY <1>1, <1>5, <2>1 DEF Reserve
    <3>2. large \in BOOLEAN
      BY <2>1
    <3>3. g \in FileType /\ g.pieces = f.pieces /\ g.large = large
      BY <1>1, <3>1, <3>2 DEF FileType
    <3> QED BY <2>1, <3>3
  <2> HIDE DEF g
  <2>3. Len(f.pieces) = 1 /\ f.pieces[1] <= SmallMax /\ LastOf(f.pieces) = f.pieces[1]
    BY <1>5 DEF FitsMemory, LastOf
  <2>4. FitsMemory(g)
    BY <2>2, <2>3 DEF FitsMemory
  <2>5. RoomIn(g) \in Nat \ {0}
    BY <1>0, <1>2, <2>2, <2>3 DEF RoomIn
  <2>6. ~g.large => PieceFits(g, n)
    BY <1>0, <1>2, <2>2 DEF PieceFits
  <2> QED BY <2>2, <2>4, <2>5, <2>6 DEF g
<1> QED BY <1>1, <1>3, <1>4, <1>5

LEMMA CopyFits ==
  ASSUME NEW f \in FileType, FitsMemory(f), NEW n \in Nat, PieceFits(f, n)
  PROVE  LET g == CopyInto(f, n)
         IN  /\ g \in FileType
             /\ FitsMemory(g)
             /\ Held(g.pieces) = Held(f.pieces) + n
<1> DEFINE g == CopyInto(f, n)
<1>0. ChunkSize \in Nat /\ SmallMax \in Nat /\ SmallMax < ChunkSize
  BY BytesAssumption
<1>1. /\ f.pieces \in Seq(Piece) /\ f.large \in BOOLEAN
      /\ f = [large |-> f.large, pieces |-> f.pieces]
      /\ Len(f.pieces) \in Nat /\ Len(f.pieces) \in 1..Len(f.pieces)
  BY DEF FileType, FitsMemory
<1>2. LastOf(f.pieces) = f.pieces[Len(f.pieces)] /\ LastOf(f.pieces) \in Nat
  <2>1. LastOf(f.pieces) \in Piece
    BY <1>1, ElementIn DEF LastOf
  <2> QED BY <1>0, <2>1 DEF Piece, LastOf
<1>3. f.pieces[Len(f.pieces)] + n \in Piece
  BY <1>0, <1>1, <1>2 DEF Piece, PieceFits
<1>4. PICK p, q : p = f.pieces /\ q = [p EXCEPT ![Len(p)] = @ + n]
  OBVIOUS
<1>5. /\ q \in Seq(Piece)
      /\ Len(q) = Len(p)
      /\ \A i \in 1..(Len(p) - 1) : q[i] = p[i]
      /\ q[Len(p)] = p[Len(p)] + n
      /\ Held(q) = Held(p) + n
  BY <1>1, <1>3, <1>4, GrowPiece
<1>6. g = [large |-> f.large, pieces |-> q]
  BY <1>1, <1>4, SMTT(30) DEF CopyInto
<1>7. g \in FileType /\ g.pieces = q /\ g.large = f.large
  BY <1>1, <1>5, <1>6 DEF FileType
<1> HIDE DEF g
<1>8. FitsMemory(g)
  <2>1. Len(q) > 0
    BY <1>1, <1>4, <1>5
  <2>2. f.large => \A i \in 1..(Len(q) - 1) : q[i] = ChunkSize
    BY <1>1, <1>4, <1>5 DEF FitsMemory
  <2>3. ~f.large => Len(q) = 1 /\ q[1] <= SmallMax
    BY <1>1, <1>2, <1>4, <1>5 DEF FitsMemory, PieceFits
  <2> QED BY <1>7, <2>1, <2>2, <2>3 DEF FitsMemory
<1> QED BY <1>4, <1>5, <1>7, <1>8 DEF g

-----------------------------------------------------------------------------
(***************************************************************************)
(* The inductive invariant.                                                *)
(***************************************************************************)
Typed ==
  /\ frames \in Frames
  /\ store \in Stores
  /\ closed \in BOOLEAN
  /\ short \in BOOLEAN
  /\ written \in 0..Offset(Len(frames))
  /\ read \in 0..written
  /\ taken \in 0..Len(frames)
  /\ at \in {"prefix", "body", "piece", "payload", "eof", "failed"}
  /\ want \in Nat
  /\ have \in 0..want
  /\ left \in Nat
  /\ file \in FileType

\* Where the reader is: what it has read is the frames it has taken, and of the
\* next what its loop has got.  A payload comes next just while one is read.
ReaderAt ==
  /\ at \in {"piece", "payload"} <=> (PayloadDue(taken) /\ ~Ended)
  /\ at = "prefix" => want = Prefix /\ read = Offset(taken) + have
  /\ at = "body" =>
       /\ taken < Len(frames)
       /\ frames[taken + 1].kind = "marker"
       /\ want = frames[taken + 1].len
       /\ read = Offset(taken) + Prefix + have
  /\ at \in {"piece", "payload"} => left <= frames[taken + 1].len
  /\ at = "piece" => read = Offset(taken) + frames[taken + 1].len - left
  /\ at = "payload" =>
       /\ want \in 1..left
       /\ read = Offset(taken) + frames[taken + 1].len - left + have

\* Where it is once it has taken a part of a payload for the whole.
ReaderShort ==
  /\ closed
  /\ read = written
  /\ \/ at = "piece" /\ left = 0 /\ taken < Len(frames)
     \/ at = "prefix" /\ want = Prefix /\ have = 0
     \/ at = "eof"

NoneEmpty(f) == \A i \in 1..Len(f.pieces) : f.pieces[i] > 0

\* What it has kept, and that the piece at hand fits behind it.
FileFits ==
  /\ store = "memory" =>
       FitsMemory(file) /\ (at = "payload" => PieceFits(file, want))
  /\ store = "sender" =>
       NoneEmpty(file) /\ (at = "payload" => want <= ChunkSize)

FileSum ==
  store # "disk" /\ ~short /\ ~Ended => Held(file.pieces) = PayloadBytes(taken) + Before

BytesInv ==
  /\ Typed
  /\ ~short => ReaderAt
  /\ short => ReaderShort
  /\ FileFits
  /\ FileSum

LEMMA BytesInit == Init => BytesInv
<1> SUFFICES ASSUME Init PROVE BytesInv
  OBVIOUS
<1> USE DEF Init
<1>0. Prefix \in Nat \ {0} /\ ChunkSize \in Nat /\ SmallMax \in Nat \ {0}
  BY BytesAssumption
<1>1. Len(frames) \in Nat /\ Offset(Len(frames)) \in Nat /\ Offset(0) = 0
  BY FramesAre, OffsetGrows, OffsetZero
<1>2. file \in FileType
  <2>1. 0 \in Piece
    BY <1>0 DEF Piece
  <2>2. << >> \in Seq(Piece) /\ <<0>> \in Seq(Piece)
    BY <2>1
  <2> QED BY <2>2 DEF FileType
<1>3. Typed
  <2>1. written \in 0..Offset(Len(frames)) /\ read \in 0..written /\ taken \in 0..Len(frames)
    BY <1>1
  <2>2. have \in 0..want /\ want \in Nat /\ left \in Nat
    BY <1>0
  <2> QED BY <1>2, <2>1, <2>2 DEF Typed
<1>4. ReaderAt
  <2>1. ~PayloadDue(0)
    BY <1>1, FramesAre DEF PayloadDue
  <2> QED BY <1>0, <1>1, <2>1 DEF ReaderAt, Ended
<1>5. FileFits
  <2>1. store = "memory" => FitsMemory(file)
    BY <1>0 DEF FitsMemory
  <2>2. store = "sender" => NoneEmpty(file)
    BY DEF NoneEmpty
  <2> QED BY <2>1, <2>2 DEF FileFits
<1>6. FileSum
  <2>1. PICK f : f = [i \in 1..Len(frames) |-> frames[i].len]
    OBVIOUS
  <2>2. {i \in 1..0 : frames[i].kind = "payload"} = {}
    OBVIOUS
  <2>3. PayloadBytes(0) = SumOver(f, {i \in 1..0 : frames[i].kind = "payload"})
    BY <2>1 DEF PayloadBytes, SumOver
  <2>4. PayloadBytes(0) = 0
    BY <2>2, <2>3, SumEmpty
  <2>5. Before = 0
    BY DEF Before
  <2>6. store # "disk" => Held(file.pieces) = 0
    <3>1. CASE store = "memory"
      <4>1. PICK p, S, T : p = file.pieces /\ S = 1..(0 + 1) /\ T = 1..0
        OBVIOUS
      <4>2. p = <<0>> /\ p[0 + 1] = 0
        BY <3>1, <4>1
      <4>3. IntegersOn(p, 1..(0 + 1))
        BY <4>2 DEF IntegersOn
      <4>4. SumOver(p, S) = SumOver(p, T) + p[0 + 1]
        BY ONLY <4>1, <4>3, SumNext
      <4>5. SumOver(p, T) = 0
        <5>1. T = {}
          BY <4>1
        <5> QED BY <5>1, SumEmpty
      <4>6. 1..Len(p) = S
        BY <4>1, <4>2
      <4>7. SumOver(p, S) = 0
        BY <4>2, <4>4, <4>5
      <4>8. Held(p) = SumOver(p, S)
        BY <4>6 DEF Held
      <4> QED BY <4>1, <4>7, <4>8
    <3>2. CASE store # "memory"
      <4>1. PICK p, S : p = file.pieces /\ S = 1..Len(p)
        OBVIOUS
      <4>2. S = {}
        BY <3>2, <4>1
      <4>3. SumOver(p, S) = 0
        BY <4>2, SumEmpty
      <4>4. Held(p) = SumOver(p, S)
        BY <4>1 DEF Held
      <4> QED BY <4>1, <4>3, <4>4
    <3> QED BY <3>1, <3>2
  <2> QED BY <2>4, <2>5, <2>6 DEF FileSum
<1> QED BY <1>3, <1>4, <1>5, <1>6 DEF BytesInv

\* The same of what is written, named: the sums depend on nothing else.
OffsetOf(list, n) == SumOver([i \in 1..Len(list) |-> SizeOf(list[i])], 1..n)

PayloadsOf(list, n) ==
  SumOver([i \in 1..Len(list) |-> list[i].len], {i \in 1..n : list[i].kind = "payload"})

LEMMA OffsetIs ==
  ASSUME NEW n
  PROVE  Offset(n) = OffsetOf(frames, n) /\ PayloadBytes(n) = PayloadsOf(frames, n)
BY DEF Offset, OffsetOf, PayloadBytes, PayloadsOf, SumOver

LEMMA OffsetsAre ==
  /\ Offset(taken) = OffsetOf(frames, taken)
  /\ Offset(Len(frames)) = OffsetOf(frames, Len(frames))
  /\ PayloadBytes(taken) = PayloadsOf(frames, taken)
BY OffsetIs

LEMMA SameFrames ==
  ASSUME frames' = frames
  PROVE  /\ Offset(taken)' = Offset(taken')
         /\ Offset(Len(frames))' = Offset(Len(frames))
         /\ PayloadBytes(taken)' = PayloadBytes(taken')
         /\ PayloadDue(taken)' <=> PayloadDue(taken')
<1>1. /\ (Offset(taken) = OffsetOf(frames, taken))'
      /\ (Offset(Len(frames)) = OffsetOf(frames, Len(frames)))'
      /\ (PayloadBytes(taken) = PayloadsOf(frames, taken))'
  BY OffsetsAre, PTL
<1>2. /\ OffsetOf(frames, taken)' = OffsetOf(frames, taken')
      /\ OffsetOf(frames, Len(frames))' = OffsetOf(frames, Len(frames))
      /\ PayloadsOf(frames, taken)' = PayloadsOf(frames, taken')
  OBVIOUS
<1>3. /\ Offset(taken') = OffsetOf(frames, taken')
      /\ Offset(Len(frames)) = OffsetOf(frames, Len(frames))
      /\ PayloadBytes(taken') = PayloadsOf(frames, taken')
  BY OffsetIs
<1>4. PayloadDue(taken)' <=> PayloadDue(taken')
  BY DEF PayloadDue
<1> QED BY <1>1, <1>2, <1>3, <1>4

\* The writer.
LEMMA WriterStep ==
  ASSUME BytesInv, Writer
  PROVE  BytesInv'
<1>1. /\ UNCHANGED <<frames, store, readerVars>>
      /\ closed => closed' /\ UNCHANGED written
      /\ closed' \in BOOLEAN
      /\ written' \in written..Offset(Len(frames))
  <2>1. CASE CloseShard
    BY <2>1 DEF BytesInv, Typed, CloseShard, readerVars
  <2>2. CASE \E n \in 1..PipeRoom : WriteSome(n)
    <3>1. PICK n \in 1..PipeRoom : WriteSome(n)
      BY <2>2
    <3>2. frames \in Frames /\ written \in Nat
      BY OffsetGrows, FramesAre DEF BytesInv, Typed
    <3>3. PICK s : s = Sent
      OBVIOUS
    <3>4. s \in 0..Len(frames) /\ s < Len(frames) /\ Len(frames) \in Nat
      <4>1. s = Max({k \in 0..Len(frames) : Offset(k) <= written})
        BY <3>3 DEF Sent
      <4> QED BY <3>1, <3>2, <3>3, <4>1, SentIs, FramesAre DEF WriteSome
    <3>5. s + 1 \in 0..Len(frames) /\ Len(frames) \in 0..Len(frames) /\ s + 1 <= Len(frames)
      BY <3>4
    <3>6. Offset(s + 1) <= Offset(Len(frames)) /\ Offset(s + 1) \in Nat /\ Offset(Len(frames)) \in Nat
      BY <3>2, <3>5, OffsetGrows
    <3>7. written + n <= Offset(s + 1) /\ written' = written + n /\ n \in Nat
      BY <3>1, <3>3, BytesAssumption DEF WriteSome
    <3>8. written' \in written..Offset(Len(frames))
      BY <3>2, <3>6, <3>7
    <3> QED BY <3>1, <3>8 DEF WriteSome, BytesInv, Typed, readerVars
  <2> QED BY <2>1, <2>2 DEF Writer
<1>2. /\ frames' = frames /\ store' = store /\ read' = read /\ taken' = taken /\ at' = at
      /\ left' = left /\ want' = want /\ have' = have /\ file' = file /\ short' = short
  BY <1>1 DEF readerVars
<1>3. /\ Offset(taken)' = Offset(taken)
      /\ Offset(Len(frames))' = Offset(Len(frames))
      /\ PayloadBytes(taken)' = PayloadBytes(taken)
      /\ PayloadDue(taken)' <=> PayloadDue(taken)
  BY <1>2, SameFrames
<1>4. Typed'
  <2>1. Typed
    BY DEF BytesInv
  <2>2. Offset(Len(frames)) \in Nat
    BY <2>1, OffsetGrows, FramesAre DEF Typed
  <2>3. written' \in 0..Offset(Len(frames)) /\ read \in 0..written'
    BY <1>1, <2>1, <2>2 DEF Typed
  <2> QED BY <1>1, <1>2, <1>3, <2>1, <2>3 DEF Typed
<1>5. (~short => ReaderAt)'
  BY <1>2, <1>3 DEF BytesInv, ReaderAt, Ended
<1>6. (short => ReaderShort)'
  BY <1>1, <1>2 DEF BytesInv, ReaderShort
<1>7. FileFits'
  BY <1>2 DEF BytesInv, FileFits, FitsMemory, PieceFits, LastOf, NoneEmpty
<1>8. FileSum'
  <2>1. Before' = Before
    BY <1>2 DEF Before
  <2>2. Held(file.pieces)' = Held(file.pieces)
    BY <1>2
  <2>3. Ended' = Ended
    BY <1>2 DEF Ended
  <2> QED BY <1>2, <1>3, <2>1, <2>2, <2>3 DEF BytesInv, FileSum
<1> QED BY <1>4, <1>5, <1>6, <1>7, <1>8, PTL DEF BytesInv

\* The numbers that the steps of the reader reckon with.
LEMMA Numbers ==
  ASSUME BytesInv
  PROVE  /\ Prefix \in Nat \ {0} /\ ChunkSize \in Nat
         /\ Len(frames) \in Nat /\ taken \in 0..Len(frames)
         /\ Offset(taken) \in Nat
         /\ Offset(Len(frames)) \in Nat
         /\ written \in Nat /\ read \in Nat /\ read <= written
         /\ written <= Offset(Len(frames))
         /\ want \in Nat /\ have \in Nat /\ have <= want /\ left \in Nat
         /\ taken < Len(frames) =>
              /\ frames[taken + 1].len \in Nat
              /\ Offset(taken + 1) = Offset(taken) + SizeOf(frames[taken + 1])
<1>1. Typed
  BY DEF BytesInv
<1>2. /\ frames \in Frames /\ Len(frames) \in Nat /\ Len(frames) \in 0..Len(frames)
      /\ taken \in 0..Len(frames)
  BY <1>1, FramesAre DEF Typed
<1>3. Offset(taken) \in Nat /\ Offset(Len(frames)) \in Nat
  BY <1>2, OffsetGrows
<1>4. taken < Len(frames) =>
        /\ frames[taken + 1].len \in Nat
        /\ Offset(taken + 1) = Offset(taken) + SizeOf(frames[taken + 1])
  BY <1>2, OffsetNext, FramesAre
<1> QED BY <1>1, <1>2, <1>3, <1>4, BytesAssumption DEF Typed

\* What a step of the reader leaves as it is.
LEMMA ReaderKeeps ==
  ASSUME BytesInv, UNCHANGED writerVars
  PROVE  /\ frames' = frames /\ store' = store /\ written' = written /\ closed' = closed
         /\ Offset(taken)' = Offset(taken')
         /\ PayloadBytes(taken)' = PayloadBytes(taken')
         /\ PayloadDue(taken)' <=> PayloadDue(taken')
         /\ /\ read' \in 0..written /\ taken' \in 0..Len(frames)
            /\ at' \in {"prefix", "body", "piece", "payload", "eof", "failed"}
            /\ want' \in Nat /\ have' \in 0..want' /\ left' \in Nat
            /\ file' \in FileType /\ short' \in BOOLEAN
            => Typed'
<1>1. frames' = frames /\ store' = store /\ written' = written /\ closed' = closed
  BY DEF writerVars
<1>2. /\ Offset(taken)' = Offset(taken')
      /\ PayloadBytes(taken)' = PayloadBytes(taken')
      /\ PayloadDue(taken)' <=> PayloadDue(taken')
      /\ Offset(Len(frames))' = Offset(Len(frames))
  BY <1>1, SameFrames
<1> QED BY <1>1, <1>2 DEF BytesInv, Typed

\* A loop gets a part of what it wants.
LEMMA ReadSomeStep ==
  ASSUME BytesInv, NEW n \in 1..PipeRoom, ReadSome(n)
  PROVE  BytesInv'
<1>1. /\ UNCHANGED <<writerVars, taken, at, left, want, file, short>>
      /\ Reading /\ n <= want - have /\ n <= written - read
      /\ read' = read + n /\ have' = have + n
  BY DEF ReadSome
<1>2. n \in Nat \ {0}
  BY BytesAssumption
<1>3. Typed'
  <2>0. read \in Nat /\ written \in Nat /\ have \in Nat /\ want \in Nat
    BY Numbers
  <2>1. read + n \in 0..written /\ have + n \in 0..want
    BY ONLY <1>1, <1>2, <2>0
  <2> QED BY <1>1, <2>1, ReaderKeeps DEF BytesInv, Typed
<1>4. ~short
  <2> SUFFICES ASSUME short PROVE FALSE
    BY DEF BytesInv, Typed
  <2>1. at = "prefix" /\ read = written
    BY <1>1 DEF BytesInv, ReaderShort, Reading
  <2> QED BY <1>1, <1>2, <2>1, Numbers
<1>5. ReaderAt'
  <2>1. ReaderAt
    BY <1>4 DEF BytesInv
  <2>2. Offset(taken)' = Offset(taken) /\ (PayloadDue(taken)' <=> PayloadDue(taken)) /\ frames' = frames
    BY <1>1, ReaderKeeps
  <2>3. at = "prefix" => read' = Offset(taken) + have'
    BY <1>1, <1>2, <2>1, Numbers DEF ReaderAt
  <2>4. at = "body" => read' = Offset(taken) + Prefix + have'
    <3> SUFFICES ASSUME at = "body" PROVE read' = Offset(taken) + Prefix + have'
      OBVIOUS
    <3>1. read = Offset(taken) + Prefix + have
      BY <2>1 DEF ReaderAt
    <3>2. have \in Nat /\ Offset(taken) \in Nat /\ Prefix \in Nat
      BY Numbers
    <3> QED BY ONLY <1>1, <1>2, <3>1, <3>2
  <2>5. at = "payload" => read' = Offset(taken) + frames[taken + 1].len - left + have'
    <3> SUFFICES ASSUME at = "payload" PROVE read' = Offset(taken) + frames[taken + 1].len - left + have'
      OBVIOUS
    <3>1. taken < Len(frames) /\ read = Offset(taken) + frames[taken + 1].len - left + have
      BY <2>1 DEF ReaderAt, PayloadDue
    <3>2. PICK len \in Nat : len = frames[taken + 1].len
      BY <3>1, Numbers
    <3>3. read \in Nat /\ have \in Nat /\ left \in Nat /\ Offset(taken) \in Nat
      BY Numbers
    <3>4. PICK o \in Nat : o = Offset(taken)
      BY <3>3
    <3>5. read = o + len - left + have
      BY ONLY <3>1, <3>2, <3>4
    <3>6. read + n = o + len - left + (have + n)
      BY ONLY <1>2, <3>2, <3>3, <3>4, <3>5
    <3> QED BY <1>1, <3>2, <3>4, <3>6
  <2>6. at # "piece"
    BY <1>1 DEF Reading
  <2>7. /\ (at \in {"piece", "payload"} <=> (PayloadDue(taken) /\ ~Ended))'
        /\ (at \in {"piece", "payload"} => left <= frames[taken + 1].len)'
    BY <1>1, <2>1, <2>2 DEF ReaderAt, Ended
  <2> QED BY <1>1, <2>1, <2>2, <2>3, <2>4, <2>5, <2>6, <2>7 DEF ReaderAt
<1>6. FileFits'
  BY <1>1, ReaderKeeps DEF BytesInv, FileFits, FitsMemory, PieceFits, LastOf, NoneEmpty
<1>7. FileSum'
  <2>1. Before' = Before /\ Ended' = Ended /\ Held(file.pieces)' = Held(file.pieces)
    BY <1>1, ReaderKeeps DEF Before, Ended
  <2>2. PayloadBytes(taken)' = PayloadBytes(taken)
    BY <1>1, ReaderKeeps
  <2> QED BY <1>1, <2>1, <2>2, ReaderKeeps DEF BytesInv, FileSum
<1>8. ~short'
  BY <1>1, <1>4
<1> QED BY <1>3, <1>5, <1>6, <1>7, <1>8, PTL DEF BytesInv

LEMMA PrefixReadStep ==
  ASSUME BytesInv, PrefixRead
  PROVE  BytesInv'
<1>1. /\ UNCHANGED <<writerVars, read, taken, left, file, short>>
      /\ at = "prefix" /\ have = want
      /\ at' = "body" /\ want' = frames[taken + 1].len /\ have' = 0
  BY DEF PrefixRead, Begin
<1>2. ~short
  BY <1>1, Numbers DEF BytesInv, Typed, ReaderShort
<1>3. ReaderAt
  BY <1>2 DEF BytesInv
<1>4. read = Offset(taken) + Prefix
  BY <1>1, <1>3, Numbers DEF ReaderAt
<1>5. taken < Len(frames)
  <2>1. CASE taken = Len(frames)
    BY <1>4, <2>1, Numbers
  <2> QED BY <2>1, Numbers
<1>6. ~PayloadDue(taken)
  BY <1>1, <1>3 DEF ReaderAt, Ended
<1>7. frames[taken + 1].kind = "marker"
  BY <1>5, <1>6, Numbers, FramesAre DEF BytesInv, Typed, PayloadDue
<1>8. Typed'
  BY <1>1, <1>5, Numbers, ReaderKeeps DEF BytesInv, Typed
<1>9. ReaderAt'
  <2>1. /\ Offset(taken)' = Offset(taken) /\ (PayloadDue(taken)' <=> PayloadDue(taken))
        /\ frames' = frames
    BY <1>1, ReaderKeeps
  <2>2. read' = Offset(taken) + Prefix + have'
    BY <1>1, <1>4, Numbers
  <2> QED BY <1>1, <1>5, <1>6, <1>7, <2>1, <2>2 DEF ReaderAt, Ended
<1>10. FileFits'
  BY <1>1, ReaderKeeps DEF BytesInv, FileFits, FitsMemory, PieceFits, LastOf, NoneEmpty
<1>11. FileSum'
  <2>1. Before' = Before /\ ~Ended /\ Held(file.pieces)' = Held(file.pieces)
    BY <1>1, ReaderKeeps DEF Before, Ended
  <2>2. PayloadBytes(taken)' = PayloadBytes(taken)
    BY <1>1, ReaderKeeps
  <2> QED BY <1>1, <2>1, <2>2, ReaderKeeps DEF BytesInv, FileSum
<1>12. ~short'
  BY <1>1, <1>2
<1> QED BY <1>8, <1>9, <1>10, <1>11, <1>12, PTL DEF BytesInv

LEMMA BodyReadStep ==
  ASSUME BytesInv, BodyRead
  PROVE  BytesInv'
<1>1. /\ UNCHANGED <<writerVars, read, file, short>>
      /\ at = "body" /\ have = want
      /\ taken' = taken + 1
  BY DEF BodyRead
<1>2. \/ /\ PayloadDue(taken + 1) /\ at' = "piece" /\ left' = frames[taken + 2].len
         /\ UNCHANGED <<want, have>>
      \/ /\ ~PayloadDue(taken + 1) /\ at' = "prefix" /\ want' = Prefix /\ have' = 0
         /\ UNCHANGED left
  BY DEF BodyRead, Begin
<1>3. ~short /\ ~short'
  BY <1>1 DEF BytesInv, Typed, ReaderShort
<1>4. ReaderAt
  BY <1>3 DEF BytesInv
<1>5. taken < Len(frames) /\ frames[taken + 1].kind = "marker"
  BY <1>1, <1>4 DEF ReaderAt
<1>6. read = Offset(taken + 1)
  <2>1. SizeOf(frames[taken + 1]) = Prefix + frames[taken + 1].len
    BY <1>5 DEF SizeOf
  <2>2. read = Offset(taken) + Prefix + frames[taken + 1].len
    BY <1>1, <1>4 DEF ReaderAt
  <2>3. Offset(taken + 1) = Offset(taken) + SizeOf(frames[taken + 1])
    BY <1>5, Numbers
  <2>4. Offset(taken) \in Nat /\ Prefix \in Nat /\ frames[taken + 1].len \in Nat
    BY <1>5, Numbers
  <2> QED BY ONLY <2>1, <2>2, <2>3, <2>4
<1>7. PayloadDue(taken + 1) =>
        frames[taken + 2].len \in Nat /\ taken + 2 = (taken + 1) + 1 /\ taken + 1 < Len(frames)
  <2> SUFFICES ASSUME PayloadDue(taken + 1)
               PROVE  /\ frames[taken + 2].len \in Nat /\ taken + 2 = (taken + 1) + 1
                      /\ taken + 1 < Len(frames)
    OBVIOUS
  <2>0. taken \in Nat /\ Len(frames) \in Nat /\ taken + 1 < Len(frames)
    BY Numbers DEF PayloadDue
  <2>1. taken + 1 < Len(frames) /\ taken + 2 \in 1..Len(frames) /\ taken + 2 = (taken + 1) + 1
    BY ONLY <2>0
  <2> QED BY <2>1, FramesAre DEF BytesInv, Typed
<1>8. Typed'
  BY <1>1, <1>2, <1>5, <1>7, Numbers, ReaderKeeps, SMTT(30) DEF BytesInv, Typed
<1>9. /\ Offset(taken)' = Offset(taken + 1) /\ (PayloadDue(taken)' <=> PayloadDue(taken + 1))
      /\ PayloadBytes(taken)' = PayloadBytes(taken + 1)
      /\ frames' = frames /\ store' = store
  BY <1>1, ReaderKeeps
<1>10. Offset(taken + 1) \in Nat
  BY <1>6, Numbers
<1>11. ReaderAt'
  <2>1. CASE PayloadDue(taken + 1)
    <3>1. at' = "piece" /\ left' = frames[taken + 2].len /\ taken' + 1 = taken + 2
      BY <1>1, <1>2, <1>7, <2>1
    <3>2. left' <= frames'[taken' + 1].len
      BY <1>7, <1>9, <2>1, <3>1
    <3>3. read' = Offset(taken)' + frames'[taken' + 1].len - left'
      BY <1>1, <1>6, <1>7, <1>9, <1>10, <2>1, <3>1
    <3> QED BY <1>9, <2>1, <3>1, <3>2, <3>3 DEF ReaderAt, Ended
  <2>2. CASE ~PayloadDue(taken + 1)
    <3>1. at' = "prefix" /\ want' = Prefix /\ have' = 0
      BY <1>2, <2>2
    <3>2. read' = Offset(taken)' + have'
      BY <1>1, <1>6, <1>9, <1>10, <3>1
    <3> QED BY <1>9, <2>2, <3>1, <3>2 DEF ReaderAt, Ended
  <2> QED BY <2>1, <2>2
<1>12. FileFits'
  BY <1>1, <1>2, ReaderKeeps DEF BytesInv, FileFits, FitsMemory, PieceFits, LastOf, NoneEmpty
<1>13. FileSum'
  <2>1. Before = 0 /\ Before' = 0 /\ ~Ended /\ Held(file.pieces)' = Held(file.pieces)
    <3>1. Before' = 0
      <4>1. CASE PayloadDue(taken + 1)
        <5>1. at' = "piece" /\ left' = frames[taken + 2].len /\ taken' + 1 = taken + 2
          BY <1>1, <1>2, <1>7, <4>1
        <5>2. frames'[taken' + 1].len - left' = 0
          BY <1>7, <1>9, <4>1, <5>1
        <5> QED BY <5>1, <5>2 DEF Before
      <4>2. CASE ~PayloadDue(taken + 1)
        BY <1>2, <4>2 DEF Before
      <4> QED BY <4>1, <4>2
    <3> QED BY <1>1, <3>1 DEF Before, Ended
  <2>2. PayloadBytes(taken + 1) = PayloadBytes(taken)
    <3>1. taken \in 0..(Len(frames) - 1)
      BY <1>5, Numbers
    <3> QED BY <1>5, <3>1, PayloadNext DEF BytesInv, Typed
  <2> QED BY <1>1, <1>9, <2>1, <2>2 DEF BytesInv, FileSum
<1> QED BY <1>3, <1>8, <1>11, <1>12, <1>13, PTL DEF BytesInv

\* The store takes a byte of the payload at least, and no more than fits.
LEMMA BeginPieceStep ==
  ASSUME BytesInv, BeginPiece
  PROVE  BytesInv'
<1>1. /\ UNCHANGED <<writerVars, read, taken, left, short>>
      /\ at = "piece" /\ left > 0
      /\ at' = "payload" /\ have' = 0
      /\ want' = CASE store = "disk"   -> left
                   [] store = "sender" -> AtMost(left, ChunkSize)
                   [] store = "memory" -> CopySize(left)
      /\ file' = IF store = "memory" THEN Reserve(file, left) ELSE file
  BY DEF BeginPiece, Begin
<1>2. ~short /\ ~short'
  BY <1>1 DEF BytesInv, Typed, ReaderShort
<1>3. ReaderAt /\ Typed /\ FileFits
  BY <1>2 DEF BytesInv
<1>4. left \in Nat \ {0} /\ ChunkSize \in Nat \ {0}
  BY <1>1, Numbers, BytesAssumption
<1>5. store \in {"disk", "sender", "memory"}
  BY <1>3, BytesAssumption DEF Typed
<1> DEFINE Got == /\ want' \in 1..left /\ file' \in FileType
                  /\ Held(file'.pieces) = Held(file.pieces)
                  /\ store = "memory" => FitsMemory(file') /\ PieceFits(file', want')
                  /\ store = "sender" => NoneEmpty(file') /\ want' <= ChunkSize
<1>6. ASSUME store = "memory"
      PROVE  Got
  <2>1. PICK g : g = Reserve(file, left)
    OBVIOUS
  <2>2. FitsMemory(file) /\ file \in FileType
    BY <1>3, <1>6 DEF FileFits, Typed
  <2>3. /\ g \in FileType /\ FitsMemory(g)
        /\ Held(g.pieces) = Held(file.pieces)
        /\ g.large => RoomIn(g) \in Nat \ {0}
        /\ ~g.large => PieceFits(g, left)
    BY <1>4, <2>1, <2>2, ReserveFits
  <2>4. file' = g
    BY <1>1, <1>6, <2>1
  <2>5. want' = IF g.large THEN AtMost(left, RoomIn(g)) ELSE left
    BY <1>1, <1>6, <2>1 DEF CopySize
  <2>6. want' \in 1..left /\ (g.large => want' <= RoomIn(g)) /\ (~g.large => want' = left)
    BY <1>4, <2>3, <2>5 DEF AtMost
  <2>7. PieceFits(g, want')
    <3>1. CASE g.large
      <4>1. LastOf(g.pieces) \in Int
        <5>1. g.pieces \in Seq(Piece) /\ Len(g.pieces) \in 1..Len(g.pieces)
          BY <2>3 DEF FileType, FitsMemory
        <5>2. LastOf(g.pieces) \in Piece
          BY <5>1, ElementIn DEF LastOf
        <5> QED BY <1>4, <5>2 DEF Piece
      <4> QED BY <1>4, <2>3, <2>6, <3>1, <4>1 DEF PieceFits, RoomIn
    <3>2. CASE ~g.large
      BY <2>3, <2>6, <3>2
    <3> QED BY <3>1, <3>2
  <2> QED BY <1>6, <2>3, <2>4, <2>6, <2>7
<1>7. Got
  <2>1. CASE store = "memory"
    BY <1>6, <2>1
  <2>2. CASE store # "memory"
    <3>1. file' = file
      BY <1>1, <2>2
    <3>2. want' \in 1..left /\ (store = "sender" => want' <= ChunkSize)
      BY <1>1, <1>4, <1>5, <2>2 DEF AtMost
    <3> QED BY <1>3, <2>2, <3>1, <3>2 DEF Typed, FileFits
  <2> QED BY <2>1, <2>2
<1>8. Typed'
  <2>1. want' \in Nat /\ have' \in 0..want' /\ file' \in FileType
    <3>1. want' \in 1..left /\ file' \in FileType
      BY <1>7
    <3>2. have' = 0
      BY <1>1
    <3> QED BY <1>4, <3>1, <3>2
  <2> QED BY <1>1, <1>3, <2>1, ReaderKeeps DEF Typed
<1>9. /\ Offset(taken)' = Offset(taken) /\ (PayloadDue(taken)' <=> PayloadDue(taken))
      /\ PayloadBytes(taken)' = PayloadBytes(taken)
      /\ frames' = frames /\ store' = store
  BY <1>1, ReaderKeeps
<1>10. ReaderAt'
  <2>1. taken < Len(frames) /\ PayloadDue(taken)
    BY <1>1, <1>3 DEF ReaderAt, PayloadDue
  <2>2. read' = Offset(taken) + frames[taken + 1].len - left + have'
    BY <1>1, <1>3, <2>1, Numbers DEF ReaderAt
  <2> QED BY <1>1, <1>3, <1>7, <1>9, <2>1, <2>2 DEF ReaderAt, Ended
<1>11. FileFits'
  BY <1>1, <1>7, <1>9 DEF FileFits
<1>12. FileSum'
  <2>1. Before' = Before /\ ~Ended
    BY <1>1, <1>9 DEF Before, Ended
  <2>2. Held(file.pieces)' = Held(file.pieces)
    BY <1>7
  <2> QED BY <1>2, <1>9, <2>1, <2>2 DEF BytesInv, FileSum
<1> QED BY <1>2, <1>8, <1>10, <1>11, <1>12, PTL DEF BytesInv

LEMMA PieceReadStep ==
  ASSUME BytesInv, PieceRead
  PROVE  BytesInv'
<1>1. /\ UNCHANGED <<writerVars, read, taken, want, have, short>>
      /\ at = "payload" /\ have = want
      /\ file' = Keep(have)
      /\ left' = left - want
      /\ at' = "piece"
  BY DEF PieceRead, GotPiece
<1>2. ~short /\ ~short'
  BY <1>1 DEF BytesInv, Typed, ReaderShort
<1>3. ReaderAt /\ Typed /\ FileFits
  BY <1>2 DEF BytesInv
<1>4. want \in 1..left /\ left \in Nat /\ left' \in Nat
  BY <1>1, <1>3, Numbers DEF ReaderAt
<1>5. store \in {"disk", "sender", "memory"} /\ file \in FileType
  BY <1>3, BytesAssumption DEF Typed
<1> DEFINE Kept == /\ file' \in FileType
                   /\ store # "disk" => Held(file'.pieces) = Held(file.pieces) + want
                   /\ store = "memory" => FitsMemory(file')
                   /\ store = "sender" => NoneEmpty(file')
<1>6. ASSUME store = "memory"
      PROVE  Kept
  <2>1. FitsMemory(file) /\ PieceFits(file, want) /\ want \in Nat
    BY <1>1, <1>3, <1>4, <1>6 DEF FileFits
  <2>2. file' = CopyInto(file, want)
    BY <1>1, <1>6 DEF Keep
  <2> QED BY <1>5, <1>6, <2>1, <2>2, CopyFits
<1>7. ASSUME store = "sender"
      PROVE  Kept
  <2>1. NoneEmpty(file) /\ want <= ChunkSize
    BY <1>1, <1>3, <1>7 DEF FileFits
  <2>2. file' = [file EXCEPT !.pieces = Append(@, want)]
    BY <1>1, <1>7 DEF Keep
  <2>3. want \in Piece /\ want > 0
    BY <1>4, <2>1, BytesAssumption DEF Piece
  <2>4. file.pieces \in Seq(Piece) /\ file = [large |-> file.large, pieces |-> file.pieces]
        /\ file.large \in BOOLEAN
    BY <1>5 DEF FileType
  <2>5. PICK p, q : p = file.pieces /\ q = Append(p, want)
    OBVIOUS
  <2>6. file' = [large |-> file.large, pieces |-> q]
    BY <2>2, <2>4, <2>5
  <2>7. /\ p \in Seq(Piece) /\ q \in Seq(Piece) /\ Len(q) = Len(p) + 1 /\ Len(p) \in Nat
        /\ \A i \in 1..Len(p) : q[i] = p[i]
        /\ q[Len(p) + 1] = want
    BY <2>3, <2>4, <2>5
  <2>8. Held(q) = Held(p) + q[Len(q)]
    BY <2>7, AppendPiece
  <2>9. Held(q) = Held(p) + want
    BY <2>7, <2>8
  <2>10. \A i \in 1..Len(q) : q[i] > 0
    <3>1. \A i \in 1..Len(p) : q[i] > 0
      BY <2>1, <2>5, <2>7 DEF NoneEmpty
    <3> QED BY <2>3, <2>7, <3>1
  <2>11. file' \in FileType /\ file'.pieces = q
    BY <2>4, <2>6, <2>7 DEF FileType
  <2>12. NoneEmpty(file')
    BY <2>10, <2>11 DEF NoneEmpty
  <2> QED BY <1>7, <2>5, <2>9, <2>11, <2>12
<1>8. ASSUME store = "disk"
      PROVE  Kept
  <2>1. file' = file
    BY <1>1, <1>8 DEF Keep
  <2> QED BY <1>5, <1>8, <2>1
<1>9. Kept
  BY <1>5, <1>6, <1>7, <1>8
<1> HIDE DEF Kept
<1>10. Typed'
  BY <1>1, <1>4, <1>9, Numbers, ReaderKeeps DEF BytesInv, Typed, Kept
<1>11. /\ Offset(taken)' = Offset(taken) /\ (PayloadDue(taken)' <=> PayloadDue(taken))
       /\ PayloadBytes(taken)' = PayloadBytes(taken)
       /\ frames' = frames /\ store' = store
  BY <1>1, ReaderKeeps
<1>12. taken < Len(frames) /\ PayloadDue(taken)
  BY <1>1, <1>3 DEF ReaderAt, PayloadDue
<1>13. PICK len \in Nat : len = frames[taken + 1].len
  BY <1>12, Numbers
<1>14. ReaderAt'
  <2>1. read = Offset(taken) + len - left + want /\ left <= len
    BY <1>1, <1>3, <1>13 DEF ReaderAt
  <2>2. read' = Offset(taken) + len - left' /\ left' <= len
    <3>1. Offset(taken) \in Nat /\ want \in Nat
      BY Numbers
    <3>2. left' = left - want /\ read' = read
      BY <1>1
    <3> QED BY <1>4, <1>13, <2>1, <3>1, <3>2
  <2> QED BY <1>1, <1>11, <1>12, <1>13, <2>2 DEF ReaderAt, Ended
<1>15. FileFits'
  BY <1>1, <1>9, <1>11 DEF FileFits, Kept
<1>16. FileSum'
  <2> SUFFICES ASSUME store # "disk"
               PROVE  (Held(file.pieces) = PayloadBytes(taken) + Before)'
    BY <1>11 DEF FileSum
  <2>1. Before = len - left /\ Before' = len - left'
    BY <1>1, <1>11, <1>13 DEF Before
  <2>2. Held(file.pieces) = PayloadBytes(taken) + Before
    BY <1>1, <1>2 DEF BytesInv, FileSum, Ended
  <2>3. Held(file.pieces)' = Held(file.pieces) + want
    BY <1>9 DEF Kept
  <2>4. PayloadBytes(taken) \in Int
    <3>1. taken \in 0..(Len(frames) - 1)
      BY <1>12, Numbers
    <3> QED BY <1>3, <3>1, PayloadNext DEF Typed
  <2>5. Held(file.pieces)' = PayloadBytes(taken) + (len - left')
    BY <1>1, <1>4, <2>1, <2>2, <2>3, <2>4
  <2> QED BY <1>11, <2>1, <2>5
<1> QED BY <1>2, <1>10, <1>14, <1>15, <1>16, PTL DEF BytesInv

\* No payload comes behind another.
LEMMA PayloadReadStep ==
  ASSUME BytesInv, PayloadRead
  PROVE  BytesInv'
<1>1. /\ UNCHANGED <<writerVars, read, left, file, short>>
      /\ at = "piece" /\ left = 0
      /\ taken' = taken + 1
      /\ at' = "prefix" /\ want' = Prefix /\ have' = 0
  BY DEF PayloadRead, Begin
<1>2. taken < Len(frames)
  BY <1>1 DEF BytesInv, Typed, ReaderAt, ReaderShort, PayloadDue
<1>3. Typed'
  <2>1. taken + 1 \in 0..Len(frames) /\ Prefix \in Nat /\ 0 \in 0..Prefix
    BY <1>2, Numbers
  <2> QED BY <1>1, <2>1, ReaderKeeps DEF BytesInv, Typed
<1>4. /\ Offset(taken)' = Offset(taken + 1) /\ (PayloadDue(taken)' <=> PayloadDue(taken + 1))
      /\ PayloadBytes(taken)' = PayloadBytes(taken + 1)
      /\ frames' = frames /\ store' = store
  BY <1>1, ReaderKeeps
<1>5. FileFits'
  BY <1>1, <1>4 DEF BytesInv, FileFits, FitsMemory, PieceFits, LastOf, NoneEmpty
<1>6. CASE short
  <2>1. ReaderShort'
    BY <1>1, <1>6, ReaderKeeps DEF BytesInv, ReaderShort
  <2>2. short'
    BY <1>1, <1>6
  <2>3. FileSum'
    BY <2>2 DEF FileSum
  <2> QED BY <1>3, <1>5, <2>1, <2>2, <2>3, PTL DEF BytesInv
<1>7. CASE ~short
  <2>1. ReaderAt
    BY <1>7 DEF BytesInv
  <2>2. PayloadDue(taken) /\ frames[taken + 1].kind = "payload"
    BY <1>1, <2>1 DEF ReaderAt, PayloadDue
  <2>3. read = Offset(taken + 1)
    <3>1. SizeOf(frames[taken + 1]) = frames[taken + 1].len
      BY <2>2 DEF SizeOf
    <3>2. read = Offset(taken) + frames[taken + 1].len - 0
      BY <1>1, <2>1 DEF ReaderAt
    <3> QED BY <1>2, <3>1, <3>2, Numbers
  <2>4. ~PayloadDue(taken + 1)
    <3> SUFFICES ASSUME PayloadDue(taken + 1) PROVE FALSE
      OBVIOUS
    <3>1. PICK m : m = taken + 2
      OBVIOUS
    <3>2. m \in 1..Len(frames) /\ frames[m].kind = "payload" /\ m - 1 = taken + 1
      <4>1. taken + 1 < Len(frames) /\ frames[(taken + 1) + 1].kind = "payload"
        BY DEF PayloadDue
      <4>2. (taken + 1) + 1 = m
        BY <3>1, Numbers
      <4>3. m \in 1..Len(frames) /\ m - 1 = taken + 1
        <5>1. Len(frames) \in Nat /\ taken \in Nat
          BY Numbers
        <5> QED BY ONLY <3>1, <4>1, <5>1
      <4> QED BY <4>1, <4>2, <4>3
    <3>3. frames[m - 1].kind = "marker"
      BY <3>2, FramesAre DEF BytesInv, Typed
    <3> QED BY <2>2, <3>2, <3>3
  <2>5. ReaderAt'
    <3>1. read' = Offset(taken)' + have'
      BY <1>1, <1>4, <2>3, Numbers
    <3> QED BY <1>1, <1>4, <2>4, <3>1 DEF ReaderAt, Ended
  <2>6. FileSum'
    <3>1. PayloadBytes(taken + 1) = PayloadBytes(taken) + frames[taken + 1].len
      <4>1. taken \in 0..(Len(frames) - 1)
        BY <1>2, Numbers
      <4> QED BY <2>2, <4>1, PayloadNext DEF BytesInv, Typed
    <3>2. Before = frames[taken + 1].len - 0 /\ Before' = 0 /\ ~Ended
      BY <1>1 DEF Before, Ended
    <3>3. Held(file.pieces)' = Held(file.pieces)
      BY <1>1
    <3>4. frames[taken + 1].len \in Int /\ PayloadBytes(taken) \in Int
      <4>1. taken \in 0..(Len(frames) - 1)
        BY <1>2, Numbers
      <4> QED BY <1>2, <4>1, Numbers, PayloadNext DEF BytesInv, Typed
    <3>5. PayloadBytes(taken) + Before = PayloadBytes(taken + 1) + Before'
      BY <3>1, <3>2, <3>4
    <3> QED BY <1>4, <1>7, <3>2, <3>3, <3>5 DEF BytesInv, FileSum
  <2>7. ~short'
    BY <1>1, <1>7
  <2> QED BY <1>3, <1>5, <2>5, <2>6, <2>7, PTL DEF BytesInv
<1> QED BY <1>6, <1>7

LEMMA ReadEofStep ==
  ASSUME BytesInv, ReadEof
  PROVE  BytesInv'
<1>1. /\ UNCHANGED <<writerVars, read, taken, left, want, have, file, short>>
      /\ AtEnd
      /\ at' \in {"eof", "failed"} /\ (CleanEnd => at' = "eof")
  BY DEF ReadEof
<1>2. Typed'
  <2>1. /\ UNCHANGED <<read, taken, left, want, have, file, short>>
        /\ at' \in {"prefix", "body", "piece", "payload", "eof", "failed"}
    BY <1>1
  <2> QED BY <1>1, <2>1, ReaderKeeps DEF BytesInv, Typed
<1>3. FileFits'
  BY <1>1, ReaderKeeps DEF BytesInv, FileFits, FitsMemory, PieceFits, LastOf, NoneEmpty
<1>4. Ended'
  BY <1>1 DEF Ended
<1>5. FileSum'
  BY <1>4, PTL DEF FileSum
<1>6. (~short => ReaderAt)'
  BY <1>1, <1>4 DEF ReaderAt, Ended
<1>7. (short => ReaderShort)'
  <2> SUFFICES ASSUME short' PROVE ReaderShort'
    OBVIOUS
  <2>1. ReaderShort
    BY <1>1 DEF BytesInv
  <2>2. at = "prefix" /\ have = 0
    BY <1>1, <2>1 DEF AtEnd, Reading, ReaderShort
  <2> QED BY <1>1, <2>1, <2>2, ReaderKeeps DEF CleanEnd, ReaderShort
<1> QED BY <1>2, <1>3, <1>5, <1>6, <1>7, PTL DEF BytesInv

LEMMA ReadEofUnnoticedStep ==
  ASSUME BytesInv, ReadEofUnnoticed
  PROVE  BytesInv'
<1>1. /\ UNCHANGED <<writerVars, read, taken, want, have>>
      /\ AtEnd /\ at = "payload" /\ store = "memory" /\ ~file.large
      /\ file' = CopyInto(file, have)
      /\ left' = 0 /\ at' = "piece" /\ short' = TRUE
  BY DEF ReadEofUnnoticed, Unnoticed
<1>2. ~short
  BY <1>1 DEF BytesInv, Typed, ReaderShort
<1>3. ReaderAt /\ Typed /\ FileFits
  BY <1>2 DEF BytesInv
<1>4. PieceFits(file, have)
  <2>1. file \in FileType /\ FitsMemory(file) /\ PieceFits(file, want)
    BY <1>1, <1>3 DEF Typed, FileFits
  <2>2. LastOf(file.pieces) \in Nat
    <3>1. file.pieces \in Seq(Piece) /\ Len(file.pieces) \in 1..Len(file.pieces)
      BY <2>1 DEF FileType, FitsMemory
    <3>2. LastOf(file.pieces) \in Piece
      BY <3>1, ElementIn DEF LastOf
    <3> QED BY <3>2, Numbers DEF Piece
  <2> QED BY <1>1, <2>1, <2>2, Numbers, BytesAssumption DEF PieceFits
<1>5. file' \in FileType /\ FitsMemory(file')
  <2>1. file \in FileType /\ FitsMemory(file) /\ have \in Nat
    BY <1>1, <1>3, Numbers DEF FileFits, Typed
  <2> QED BY <1>1, <1>4, <2>1, CopyFits
<1>6. Typed'
  <2>1. left' \in Nat /\ short' \in BOOLEAN /\ file' \in FileType
        /\ at' \in {"prefix", "body", "piece", "payload", "eof", "failed"}
    BY <1>1, <1>5
  <2>2. read' \in 0..written /\ taken' \in 0..Len(frames) /\ want' \in Nat /\ have' \in 0..want'
    BY <1>1, <1>3 DEF Typed
  <2>3. UNCHANGED writerVars
    BY <1>1
  <2> QED BY <2>1, <2>2, <2>3, ReaderKeeps
<1>7. ReaderShort'
  <2>1. taken < Len(frames)
    BY <1>1, <1>3 DEF ReaderAt, PayloadDue
  <2>2. closed' = closed /\ written' = written /\ frames' = frames
    BY <1>1, ReaderKeeps
  <2> QED BY <1>1, <2>1, <2>2 DEF ReaderShort, AtEnd
<1>8. FileFits'
  <2>1. store' = store
    BY <1>1, ReaderKeeps
  <2> QED BY <1>1, <1>5, <2>1 DEF FileFits
<1>9. short' /\ FileSum'
  BY <1>1 DEF FileSum
<1> QED BY <1>6, <1>7, <1>8, <1>9, PTL DEF BytesInv

LEMMA BytesStutter ==
  ASSUME BytesInv, UNCHANGED vars
  PROVE  BytesInv'
<1>1. /\ UNCHANGED writerVars
      /\ read' = read /\ taken' = taken /\ at' = at /\ left' = left /\ want' = want
      /\ have' = have /\ file' = file /\ short' = short
  BY DEF vars, readerVars
<1>2. /\ Offset(taken)' = Offset(taken)
      /\ PayloadBytes(taken)' = PayloadBytes(taken)
      /\ (PayloadDue(taken)' <=> PayloadDue(taken))
      /\ frames' = frames /\ store' = store /\ written' = written /\ closed' = closed
  BY <1>1, ReaderKeeps
<1>3. Typed'
  BY <1>1, ReaderKeeps DEF BytesInv, Typed
<1>4. (~short => ReaderAt)'
  BY <1>1, <1>2 DEF BytesInv, ReaderAt, Ended
<1>5. (short => ReaderShort)'
  BY <1>1, <1>2 DEF BytesInv, ReaderShort
<1>6. FileFits'
  BY <1>1, <1>2 DEF BytesInv, FileFits, FitsMemory, PieceFits, LastOf, NoneEmpty
<1>7. FileSum'
  <2>1. Before' = Before /\ Ended' = Ended /\ Held(file.pieces)' = Held(file.pieces)
    BY <1>1, <1>2 DEF Before, Ended
  <2> QED BY <1>1, <1>2, <2>1 DEF BytesInv, FileSum
<1> QED BY <1>3, <1>4, <1>5, <1>6, <1>7, PTL DEF BytesInv

LEMMA BytesNext == BytesInv /\ [Next]_vars => BytesInv'
<1> SUFFICES ASSUME BytesInv, [Next]_vars PROVE BytesInv'
  OBVIOUS
<1>1. CASE Writer
  BY <1>1, WriterStep
<1>2. CASE \E n \in 1..PipeRoom : ReadSome(n)
  BY <1>2, ReadSomeStep
<1>3. CASE PrefixRead
  BY <1>3, PrefixReadStep
<1>4. CASE BodyRead
  BY <1>4, BodyReadStep
<1>5. CASE BeginPiece
  BY <1>5, BeginPieceStep
<1>6. CASE PieceRead
  BY <1>6, PieceReadStep
<1>7. CASE PayloadRead
  BY <1>7, PayloadReadStep
<1>8. CASE ReadEof
  BY <1>8, ReadEofStep
<1>9. CASE ReadEofUnnoticed
  BY <1>9, ReadEofUnnoticedStep
<1>10. CASE UNCHANGED vars
  BY <1>10, BytesStutter
<1> QED
  BY <1>1, <1>2, <1>3, <1>4, <1>5, <1>6, <1>7, <1>8, <1>9, <1>10 DEF Next, Reader, Exited

\* Wherever a read or a splice comes back short, the reader stands in the shard where
\* its loop says, and what it has kept is what it has read: BytesInv.
THEOREM BytesInvariant == Spec => []BytesInv
BY BytesInit, BytesNext, PTL DEF Spec

LEMMA BytesTyped == BytesInv => TypeOK
<1> SUFFICES ASSUME BytesInv PROVE TypeOK
  OBVIOUS
<1>1. at = "payload" => want \in 1..left
  BY DEF BytesInv, Typed, ReaderAt, ReaderShort
<1>2. \A i \in 1..Len(file.pieces) : file.pieces[i] \in 0..ChunkSize
  <2> TAKE i \in 1..Len(file.pieces)
  <2>1. file.pieces \in Seq(Piece)
    BY DEF BytesInv, Typed, FileType
  <2>2. file.pieces[i] \in Piece
    BY <2>1, ElementIn
  <2> QED BY <2>2 DEF Piece
<1> QED BY <1>1, <1>2 DEF BytesInv, Typed, TypeOK

\* However little each read and each splice moves, no loop gets more than it
\* asked for, no chunk of the memory store is written past its end, and a payload
\* is never read past its own.
THEOREM TypesKept == Spec => []TypeOK
BY BytesInvariant, BytesTyped, PTL

LEMMA BytesHold == BytesInv => FileHolds
<1> SUFFICES ASSUME BytesInv, store # "disk", ~short, ~Ended PROVE FileHolds
  BY DEF FileHolds
<1>1. PICK n : n = Len(file.pieces)
  OBVIOUS
<1>2. FoldFunctionOnSet(+, 0, file.pieces, 1..n) = PayloadBytes(taken) + Before
  BY <1>1 DEF BytesInv, FileSum, Held, SumOver
<1>3. store = "sender" => \A i \in 1..n : file.pieces[i] > 0
  BY <1>1 DEF BytesInv, FileFits, NoneEmpty
<1>4. store = "memory" => \A i \in 1..(n - 1) : file.pieces[i] = ChunkSize
  <2> SUFFICES ASSUME store = "memory" PROVE \A i \in 1..(n - 1) : file.pieces[i] = ChunkSize
    OBVIOUS
  <2>1. FitsMemory(file)
    BY DEF BytesInv, FileFits
  <2>2. CASE file.large
    BY <1>1, <2>1, <2>2 DEF FitsMemory
  <2>3. CASE ~file.large
    <3>1. n = 1
      BY <1>1, <2>1, <2>3 DEF FitsMemory
    <3> QED BY <3>1
  <2> QED BY <2>2, <2>3
<1>5. store = "memory" /\ ~file.large => n = 1 /\ file.pieces[1] <= SmallMax
  BY <1>1 DEF BytesInv, FileFits, FitsMemory
<1> QED BY <1>1, <1>2, <1>3, <1>4, <1>5 DEF FileHolds

\* Until a payload is cut short, the store has every byte that was read of the
\* payloads, in pieces none of which is empty or left before it is full.
THEOREM FilesHeld == Spec => []FileHolds
BY BytesInvariant, BytesHold, PTL

-----------------------------------------------------------------------------
(***************************************************************************)
(* The loops implement a shard that is written and read frame by frame.    *)
(* The abstract state is a function of what is written, the bytes that     *)
(* are, whether the end is gone, and where the reader is.                  *)
(***************************************************************************)
SentOf(list, w) == Max({n \in 0..Len(list) : OffsetOf(list, n) <= w})

EndingOf(list, w, gone) ==
  IF ~gone THEN "open" ELSE IF OffsetOf(list, SentOf(list, w)) = w THEN "eof" ELSE "torn"

VerdictOf(where) == IF where \in {"eof", "failed"} THEN where ELSE "reading"

LEMMA SentOfIs ==
  ASSUME NEW w
  PROVE  SentOf(frames, w) = Max({n \in 0..Len(frames) : Offset(n) <= w})
<1>1. {n \in 0..Len(frames) : Offset(n) <= w} = {n \in 0..Len(frames) : OffsetOf(frames, n) <= w}
  BY OffsetIs
<1> QED BY <1>1 DEF SentOf

SlotState ==
  /\ Sent = SentOf(frames, written)
  /\ (IF ~closed THEN "open" ELSE IF Offset(Sent) = written THEN "eof" ELSE "torn")
       = EndingOf(frames, written, closed)
  /\ (IF Ended THEN at ELSE "reading") = VerdictOf(at)

LEMMA SlotStateIs == SlotState
<1>1. Sent = SentOf(frames, written)
  BY SentOfIs DEF Sent
<1>2. Offset(Sent) = OffsetOf(frames, SentOf(frames, written))
  BY <1>1, OffsetIs
<1> QED BY <1>1, <1>2 DEF SlotState, EndingOf, VerdictOf, Ended

LEMMA SlotStutter ==
  ASSUME frames' = frames, taken' = taken,
         SentOf(frames', written') = SentOf(frames, written),
         EndingOf(frames', written', closed') = EndingOf(frames, written, closed),
         VerdictOf(at') = VerdictOf(at)
  PROVE  UNCHANGED Slots!slotVars
<1>1. SlotState /\ SlotState'
  BY SlotStateIs, PTL
<1> QED BY <1>1 DEF SlotState, Slots!slotVars

LEMMA SlotPut ==
  ASSUME frames' = frames, taken' = taken, at' = at, ~closed, ~closed',
         SentOf(frames, written) < Len(frames),
         SentOf(frames', written') = SentOf(frames, written) + 1
  PROVE  Slots!SlotNext
<1>1. SlotState /\ SlotState'
  BY SlotStateIs, PTL
<1>2. EndingOf(frames, written, closed) = "open" /\ EndingOf(frames', written', closed') = "open"
  BY DEF EndingOf
<1>3. Slots!PutFrame
  BY <1>1, <1>2 DEF SlotState, Slots!PutFrame
<1> QED BY <1>3 DEF Slots!SlotNext

LEMMA SlotEnd ==
  ASSUME frames' = frames, taken' = taken, at' = at, written' = written, ~closed,
         NEW how \in {"eof", "torn"},
         EndingOf(frames', written', closed') = how,
         how = "torn" => SentOf(frames, written) < Len(frames)
  PROVE  Slots!SlotNext
<1>1. SlotState /\ SlotState'
  BY SlotStateIs, PTL
<1>2. EndingOf(frames, written, closed) = "open"
  BY DEF EndingOf
<1>3. Slots!EndFrames(how)
  BY <1>1, <1>2 DEF SlotState, Slots!EndFrames
<1> QED BY <1>3 DEF Slots!SlotNext

LEMMA SlotTake ==
  ASSUME frames' = frames, written' = written, closed' = closed, taken' = taken + 1,
         VerdictOf(at) = "reading", VerdictOf(at') = "reading",
         taken < SentOf(frames, written)
  PROVE  Slots!SlotNext
<1>1. SlotState /\ SlotState'
  BY SlotStateIs, PTL
<1>2. Slots!TakeFrame
  BY <1>1 DEF SlotState, Slots!TakeFrame
<1> QED BY <1>2 DEF Slots!SlotNext

LEMMA SlotReadEnd ==
  ASSUME frames' = frames, written' = written, closed' = closed, taken' = taken,
         VerdictOf(at) = "reading", taken = SentOf(frames, written),
         EndingOf(frames, written, closed) # "open",
         VerdictOf(at') = IF EndingOf(frames, written, closed) = "eof" /\ ~PayloadDue(taken)
                          THEN "eof" ELSE "failed"
  PROVE  Slots!SlotNext
<1>1. SlotState /\ SlotState'
  BY SlotStateIs, PTL
<1>2. Slots!ReadEnd
  BY <1>1 DEF SlotState, Slots!ReadEnd, Slots!PayloadDue, PayloadDue
<1> QED BY <1>2 DEF Slots!SlotNext

LEMMA InitRefines == Init => Slots!SlotInit
<1> SUFFICES ASSUME Init PROVE Slots!SlotInit
  OBVIOUS
<1>1. frames \in Frames /\ written = 0 /\ ~closed /\ taken = 0 /\ at = "prefix"
  BY DEF Init
<1>2. Len(frames) \in Nat /\ Offset(0) = 0 /\ 0 \in 0..Len(frames)
  BY <1>1, FramesAre, OffsetZero
<1>3. 0 < Len(frames) => 0 < Offset(0 + 1)
  <2> SUFFICES ASSUME 0 < Len(frames) PROVE 0 < Offset(0 + 1)
    OBVIOUS
  <2>1. 0 + 1 \in 0..Len(frames) /\ 0 < 0 + 1
    BY <1>2
  <2>2. Offset(0) + 1 <= Offset(0 + 1) /\ Offset(0 + 1) \in Nat
    BY <1>1, <1>2, <2>1, OffsetGrows
  <2> QED BY <1>2, <2>2
<1>4. Sent = 0
  <2>1. PICK s : s = Max({n \in 0..Len(frames) : Offset(n) <= 0})
    OBVIOUS
  <2>2. s = 0
    BY <1>1, <1>2, <1>3, <2>1, SentAt
  <2> QED BY <1>1, <2>1, <2>2 DEF Sent
<1> QED BY <1>1, <1>4 DEF Slots!SlotInit, Ended

\* The writer finishes a frame, or has still not.
LEMMA WriteRefines ==
  ASSUME BytesInv, NEW n \in 1..PipeRoom, WriteSome(n)
  PROVE  Slots!SlotNext \/ UNCHANGED Slots!slotVars
<1>1. /\ ~closed /\ closed' = closed /\ frames' = frames /\ taken' = taken /\ at' = at
      /\ Sent < Len(frames) /\ written + n <= Offset(Sent + 1)
      /\ written' = written + n
  BY DEF WriteSome, readerVars
<1>2. frames \in Frames /\ Len(frames) \in Nat /\ written \in Nat /\ n \in Nat \ {0}
  BY Numbers, BytesAssumption DEF BytesInv, Typed
<1>3. PICK s : s = SentOf(frames, written)
  OBVIOUS
<1>4. s = Sent
  BY <1>3, SlotStateIs DEF SlotState
<1>5. s \in 0..Len(frames) /\ Offset(s) <= written
  <2>1. s = Max({k \in 0..Len(frames) : Offset(k) <= written})
    BY <1>3, SentOfIs
  <2> QED BY <1>2, <2>1, SentIs
<1>6. s < Len(frames) /\ written' <= Offset(s + 1) /\ s + 1 \in 0..Len(frames)
  BY <1>1, <1>2, <1>4, <1>5
<1>7. Offset(s) \in Nat /\ Offset(s + 1) \in Nat
  BY <1>2, <1>5, <1>6, OffsetGrows
<1>8. PICK w \in Nat : w = written'
  BY <1>1, <1>2
<1>9. PICK t : t = SentOf(frames, w)
  OBVIOUS
<1>10. t = Max({k \in 0..Len(frames) : Offset(k) <= w})
  BY <1>9, SentOfIs
<1>11. CASE w = Offset(s + 1)
  <2>1. s + 1 < Len(frames) => w < Offset((s + 1) + 1)
    <3> SUFFICES ASSUME s + 1 < Len(frames) PROVE w < Offset((s + 1) + 1)
      OBVIOUS
    <3>1. PICK m : m = (s + 1) + 1
      OBVIOUS
    <3>2. m \in 0..Len(frames) /\ s + 1 < m
      BY <1>2, <1>5, <3>1
    <3>3. Offset(s + 1) + 1 <= Offset(m) /\ Offset(m) \in Nat
      BY <1>2, <1>6, <3>2, OffsetGrows
    <3> QED BY <1>7, <1>11, <3>1, <3>3
  <2>2. Offset(s + 1) <= w
    BY <1>7, <1>11
  <2>3. PICK m : m = s + 1
    OBVIOUS
  <2>4. t = m
    BY <1>2, <1>6, <1>8, <1>10, <2>1, <2>2, <2>3, SentAt
  <2>5. SentOf(frames', written') = SentOf(frames, written) + 1
    BY <1>1, <1>3, <1>8, <1>9, <2>3, <2>4
  <2>6. SentOf(frames, written) < Len(frames)
    BY <1>3, <1>6
  <2> QED BY <1>1, <2>5, <2>6, SlotPut
<1>12. CASE w # Offset(s + 1)
  <2>1. w < Offset(s + 1) /\ Offset(s) <= w
    BY <1>1, <1>2, <1>5, <1>6, <1>7, <1>8, <1>12
  <2>2. t = s
    BY <1>2, <1>5, <1>8, <1>10, <2>1, SentAt
  <2>3. SentOf(frames', written') = SentOf(frames, written)
    BY <1>1, <1>3, <1>8, <1>9, <2>2
  <2>4. EndingOf(frames', written', closed') = EndingOf(frames, written, closed)
    BY <1>1 DEF EndingOf
  <2> QED BY <1>1, <2>3, <2>4, SlotStutter
<1> QED BY <1>11, <1>12

LEMMA CloseRefines ==
  ASSUME BytesInv, CloseShard
  PROVE  Slots!SlotNext
<1>1. /\ ~closed /\ closed' /\ frames' = frames /\ taken' = taken /\ at' = at
      /\ written' = written
  BY DEF CloseShard, readerVars
<1>2. PICK s : s = SentOf(frames, written)
  OBVIOUS
<1>3. s \in 0..Len(frames) /\ Offset(s) <= written
  <2>1. s = Max({k \in 0..Len(frames) : Offset(k) <= written})
    BY <1>2, SentOfIs
  <2> QED BY <2>1, Numbers, SentIs DEF BytesInv, Typed
<1>4. Offset(s) = OffsetOf(frames, s)
  BY OffsetIs
<1>5. s < Len(frames) \/ Offset(s) = written
  <2>1. CASE s = Len(frames)
    BY <1>3, <2>1, Numbers
  <2> QED BY <1>3, <2>1, Numbers
<1>6. PICK how \in {"eof", "torn"} : how = EndingOf(frames', written', closed')
  BY <1>1 DEF EndingOf
<1>7. how = "torn" => SentOf(frames, written) < Len(frames)
  BY <1>1, <1>2, <1>4, <1>5, <1>6 DEF EndingOf
<1> QED BY <1>1, <1>6, <1>7, SlotEnd

\* A marker, or a payload, is read in full.
LEMMA TakeRefines ==
  ASSUME BytesInv, ~short, taken' = taken + 1, read = Offset(taken + 1), taken < Len(frames),
         UNCHANGED writerVars, at \notin {"eof", "failed"}, at' \notin {"eof", "failed"}
  PROVE  Slots!SlotNext
<1>1. PICK s : s = SentOf(frames, written)
  OBVIOUS
<1>2. s = Max({k \in 0..Len(frames) : Offset(k) <= written})
  BY <1>1, SentOfIs
<1>3. taken + 1 <= s
  <2>1. Offset(taken + 1) <= written /\ taken + 1 \in 0..Len(frames) /\ written \in Nat
    BY Numbers
  <2> QED BY <1>2, <2>1, SentIs DEF BytesInv, Typed
<1>4. taken < SentOf(frames, written)
  <2>1. s \in 0..Len(frames)
    BY <1>2, Numbers, SentIs DEF BytesInv, Typed
  <2> QED BY <1>1, <1>3, <2>1, Numbers
<1>5. VerdictOf(at) = "reading" /\ VerdictOf(at') = "reading"
  BY DEF VerdictOf
<1> QED BY <1>4, <1>5, SlotTake DEF writerVars

\* The reader meets the end of the shard in front of a marker, or within a frame.
LEMMA ReadEofRefines ==
  ASSUME BytesInv, ~short, ReadEof
  PROVE  Slots!SlotNext
<1>1. /\ frames' = frames /\ written' = written /\ closed' = closed /\ taken' = taken
      /\ at \in {"prefix", "body", "payload"} /\ have < want /\ closed /\ written = read
      /\ CleanEnd => at' = "eof"
      /\ ~CleanEnd => at' = "failed"
  BY DEF ReadEof, AtEnd, Reading, writerVars
<1>2. ReaderAt /\ Typed /\ frames \in Frames
  BY DEF BytesInv, Typed
<1>3. taken < Len(frames) =>
        /\ frames[taken + 1].kind \in {"marker", "payload"}
        /\ frames[taken + 1].kind = "marker" =>
             SizeOf(frames[taken + 1]) = Prefix + frames[taken + 1].len
        /\ frames[taken + 1].kind = "payload" =>
             SizeOf(frames[taken + 1]) = frames[taken + 1].len
  <2>1. PICK m : m = taken + 1
    OBVIOUS
  <2>2. taken < Len(frames) => m \in 1..Len(frames)
    BY <2>1, Numbers
  <2> QED BY <1>2, <2>1, <2>2, FramesAre
<1>4. /\ Offset(taken) <= written
      /\ taken < Len(frames) => written < Offset(taken + 1)
      /\ (Offset(taken) = written /\ ~PayloadDue(taken)) <=> CleanEnd
  <2>1. CASE at = "prefix"
    <3>1. ~PayloadDue(taken) /\ want = Prefix /\ read = Offset(taken) + have
      BY <1>2, <2>1 DEF ReaderAt, Ended
    <3>2. taken < Len(frames) => frames[taken + 1].kind = "marker"
      BY <1>3, <3>1 DEF PayloadDue
    <3>3. taken < Len(frames) => written < Offset(taken + 1)
      BY <1>1, <1>3, <3>1, <3>2, Numbers
    <3> QED BY <1>1, <2>1, <3>1, <3>3, Numbers DEF CleanEnd
  <2>2. CASE at = "body"
    <3>1. /\ taken < Len(frames) /\ frames[taken + 1].kind = "marker"
          /\ want = frames[taken + 1].len /\ read = Offset(taken) + Prefix + have
      BY <1>2, <2>2 DEF ReaderAt
    <3>2. written < Offset(taken + 1)
      BY <1>1, <1>3, <3>1, Numbers
    <3> QED BY <1>1, <2>2, <3>1, <3>2, Numbers DEF CleanEnd
  <2>3. CASE at = "payload"
    <3>1. /\ PayloadDue(taken) /\ left <= frames[taken + 1].len /\ want <= left
          /\ read = Offset(taken) + frames[taken + 1].len - left + have
      BY <1>2, <2>3 DEF ReaderAt, Typed
    <3>2. taken < Len(frames) /\ frames[taken + 1].kind = "payload"
      BY <3>1 DEF PayloadDue
    <3>3. PICK len \in Nat : len = frames[taken + 1].len
      BY <3>2, Numbers
    <3>4. Offset(taken + 1) = Offset(taken) + len
      BY <1>3, <3>2, <3>3, Numbers
    <3>5. Offset(taken) \in Nat /\ left \in Nat /\ have \in Nat /\ want \in Nat
      BY Numbers
    <3>6. written < Offset(taken + 1) /\ Offset(taken) <= written
      BY <1>1, <3>1, <3>3, <3>4, <3>5
    <3> QED BY <2>3, <3>1, <3>6 DEF CleanEnd
  <2> QED BY <1>1, <2>1, <2>2, <2>3
<1>5. PICK s : s = SentOf(frames, written)
  OBVIOUS
<1>6. s = taken
  <2>1. s = Max({k \in 0..Len(frames) : Offset(k) <= written})
    BY <1>5, SentOfIs
  <2> QED BY <1>2, <1>4, <2>1, Numbers, SentAt
<1>7. Offset(taken) = OffsetOf(frames, SentOf(frames, written))
  BY <1>5, <1>6, OffsetIs
<1>8. VerdictOf(at) = "reading" /\ VerdictOf(at') = at'
  BY <1>1 DEF VerdictOf
<1>9. EndingOf(frames, written, closed) # "open"
  BY <1>1 DEF EndingOf
<1>10. EndingOf(frames, written, closed) = "eof" <=> Offset(taken) = written
  BY <1>1, <1>7 DEF EndingOf
<1>11. at' = IF EndingOf(frames, written, closed) = "eof" /\ ~PayloadDue(taken)
             THEN "eof" ELSE "failed"
  BY <1>1, <1>4, <1>10
<1> QED BY <1>1, <1>5, <1>6, <1>8, <1>9, <1>11, SlotReadEnd

\* Nothing of a step that is within a frame is seen.
LEMMA WithinFrame ==
  ASSUME UNCHANGED <<writerVars, taken>>, VerdictOf(at') = VerdictOf(at)
  PROVE  UNCHANGED Slots!slotVars
<1>1. frames' = frames /\ written' = written /\ closed' = closed /\ taken' = taken
  BY DEF writerVars
<1> QED BY <1>1, SlotStutter

LEMMA NextRefines ==
  ASSUME BytesInv, [Next]_vars
  PROVE  [short \/ Slots!SlotNext]_(Slots!slotVars)
<1> SUFFICES ASSUME ~short
             PROVE  Slots!SlotNext \/ UNCHANGED Slots!slotVars
  OBVIOUS
<1>1. CASE Writer
  BY <1>1, WriteRefines, CloseRefines DEF Writer
<1>2. CASE \E n \in 1..PipeRoom : ReadSome(n)
  BY <1>2, WithinFrame DEF ReadSome
<1>3. CASE PrefixRead
  BY <1>3, WithinFrame DEF PrefixRead, Begin, VerdictOf
<1>4. CASE BodyRead
  <2>1. ReaderAt /\ at = "body" /\ have = want /\ taken' = taken + 1 /\ UNCHANGED writerVars
        /\ at' \notin {"eof", "failed"}
    BY <1>4 DEF BodyRead, Begin, BytesInv
  <2>2. /\ taken < Len(frames) /\ frames[taken + 1].kind = "marker"
        /\ read = Offset(taken) + Prefix + frames[taken + 1].len
    BY <2>1 DEF ReaderAt
  <2>3. read = Offset(taken + 1)
    BY <2>2, Numbers DEF SizeOf
  <2> QED BY <2>1, <2>2, <2>3, TakeRefines
<1>5. CASE BeginPiece
  BY <1>5, WithinFrame DEF BeginPiece, Begin, VerdictOf
<1>6. CASE PieceRead
  BY <1>6, WithinFrame DEF PieceRead, VerdictOf
<1>7. CASE PayloadRead
  <2>1. ReaderAt /\ at = "piece" /\ left = 0 /\ taken' = taken + 1 /\ UNCHANGED writerVars
        /\ at' \notin {"eof", "failed"}
    BY <1>7 DEF PayloadRead, Begin, BytesInv
  <2>2. /\ taken < Len(frames) /\ frames[taken + 1].kind = "payload"
        /\ read = Offset(taken) + frames[taken + 1].len - 0
    BY <2>1 DEF ReaderAt, PayloadDue
  <2>3. read = Offset(taken + 1)
    <3>1. SizeOf(frames[taken + 1]) = frames[taken + 1].len
      BY <2>2 DEF SizeOf
    <3> QED BY <2>2, <3>1, Numbers
  <2> QED BY <2>1, <2>2, <2>3, TakeRefines
<1>8. CASE ReadEof
  BY <1>8, ReadEofRefines
<1>9. CASE ReadEofUnnoticed
  BY <1>9, WithinFrame DEF ReadEofUnnoticed, Unnoticed, VerdictOf
<1>10. CASE UNCHANGED vars
  BY <1>10, WithinFrame DEF vars, readerVars
<1> QED
  BY <1>1, <1>2, <1>3, <1>4, <1>5, <1>6, <1>7, <1>8, <1>9, <1>10 DEF Next, Reader, Exited

\* Whatever is partial and wherever the writer is gone, the loops implement a
\* shard that is read frame by frame, until the memory store takes a part of a
\* payload for the whole.
THEOREM ImplementsSlots == Spec => RefinesSlots
BY BytesInvariant, InitRefines, NextRefines, PTL DEF Spec, RefinesSlots
=============================================================================
