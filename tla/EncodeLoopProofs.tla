-------------------------- MODULE EncodeLoopProofs --------------------------
(***************************************************************************)
(* EncodeLoop for every buffer, encoder frame size, chunk size and delay:  *)
(* its types, the bound on the memory it takes, and that save() keeps its  *)
(* promise for buffers of less than 2^31 frames.                           *)
(***************************************************************************)
EXTENDS EncodeLoop, RunLemmas
-----------------------------------------------------------------------------
\* FIFO and resampler hold runs that meet, and follow what was encoded.
Gapless ==
    /\ fifo = Run(pts_counter, Len(fifo))
    /\ held = Run(pts_counter + Len(fifo), Len(held))
    /\ pts_counter + Len(fifo) + Len(held) <= job.frames

\* The encoder frame, or packet, that starts at a position.
PieceFrom(at) == [pts |-> at,
                  frames |-> Run(at, Smaller(job.frame_size, job.frames - at))]

\* Where frame i of those inside the encoder should start.
StartOf(i) == IF i = 1 THEN Promise!End(packets)
              ELSE enc[i - 1].pts + Len(enc[i - 1].frames)

\* What is inside the encoder continues the packets written, piece by piece,
\* up to what has left the FIFO.
Cut ==
    /\ \A i \in 1..Len(enc) : /\ StartOf(i) \in Positions
                              /\ enc[i] = PieceFrom(StartOf(i))
    /\ pts_counter = StartOf(Len(enc) + 1)

InFrames == {"frames", "frame_out"}
Drains == {"frame_out", "rest_out", "null_out"}

\* What each place in the loop knows.
Progress ==
    LET end == pts_counter + Len(fifo) + Len(held) IN
    /\ pc \in {"open", "push"} => end = chunk_start /\ Len(fifo) < job.frame_size
    /\ pc \in InFrames => /\ chunk_start < job.frames /\ chunk >= 0
                          /\ end = chunk_start + chunk
    /\ pc \in {"drain", "rest", "rest_out"} => end = job.frames
    /\ pc = "drain" => Len(fifo) + Len(held) < job.frame_size + SwrLag
    /\ pc \in {"rest", "rest_out"} => Len(held) = 0
    /\ pc \in {"flush", "null_out", "trailer", "ok"} => pts_counter = job.frames
    /\ Len(held) <= SwrLag
    /\ pc \in {"open", "push", "frames", "drain", "rest", "flush"} =>
          Len(enc) <= EncDelay /\ ~flushed
    /\ pc \in {"frame_out", "rest_out"} => ~flushed
    /\ pc \in {"null_out", "trailer", "ok"} => flushed
    /\ pc \in {"trailer", "ok"} => Len(enc) = 0

IInv == TypeOK /\ Gapless /\ Cut /\ Progress /\ FifoBounded
-----------------------------------------------------------------------------
LEMMA ModBounds ==
  ASSUME NEW n \in Nat, NEW m \in Nat, m > 0
  PROVE  n % m \in 0..m - 1 /\ n % m <= n /\ (n < m => n % m = n)
OBVIOUS

\* A chunk never reaches past the buffer, and below 2^31 frames it is never
\* negative.
LEMMA ChunkBounds ==
  ASSUME job \in Jobs, chunk_start \in 0..job.frames
  PROVE  /\ chunk \in Int /\ chunk <= CHUNK_FRAMES
         /\ chunk <= job.frames - chunk_start
         /\ job.frames < Half => chunk >= 0
<1>1. PICK n \in Nat : n = job.frames - chunk_start /\ n <= job.frames
  BY EncodeJobs
<1>2. PICK low \in Nat : low = n % (2 * Half) /\ low <= n
                         /\ (n < 2 * Half => low = n)
  <2>1. 2 * Half \in Nat /\ 2 * Half > 0
    BY EncodeBounds
  <2> QED BY <2>1, ModBounds
<1>3. AsI32(n) \in Int /\ AsI32(n) <= n /\ (n < Half => AsI32(n) = n)
  BY <1>2, EncodeBounds DEF AsI32
<1>4. chunk = Smaller(AsI32(n), CHUNK_FRAMES)
  BY <1>1 DEF chunk
<1>5. job.frames < Half => AsI32(n) >= 0
  BY <1>1, <1>3, EncodeJobs, EncodeBounds
<1> QED BY <1>1, <1>3, <1>4, <1>5, EncodeBounds DEF Smaller

\* The numbers behind the invariant, without the sequences.
LEMMA Numbers ==
  ASSUME TypeOK
  PROVE  /\ job \in Jobs /\ job.frames \in Nat
         /\ job.frame_size \in Nat /\ job.frame_size > 0
         /\ chunk_start \in 0..job.frames /\ pts_counter \in 0..job.frames
         /\ Len(fifo) \in Nat /\ Len(held) \in Nat /\ Len(enc) \in Nat
         /\ chunk \in Int /\ chunk <= CHUNK_FRAMES
         /\ chunk <= job.frames - chunk_start
<1>1. job \in Jobs /\ chunk_start \in 0..job.frames
      /\ pts_counter \in 0..job.frames
  BY DEF TypeOK
<1>2. Len(fifo) \in Nat /\ Len(held) \in Nat /\ Len(enc) \in Nat
  BY DEF TypeOK
<1> QED BY <1>1, <1>2, ChunkBounds, EncodeJobs

LEMMA PcType ==
  /\ DOMAIN CallsAt = {"open", "push", "frames", "drain", "rest", "flush",
                       "frame_out", "rest_out", "null_out", "trailer"}
  /\ DOMAIN AfterDrain = Drains
  /\ AfterDrain["frame_out"] = "frames" /\ AfterDrain["rest_out"] = "rest"
  /\ AfterDrain["null_out"] = "trailer"
BY DEF CallsAt, AfterDrain, Drains

\* A run within the buffer holds positions of the buffer.
LEMMA RunPositions ==
  ASSUME NEW a \in Nat, NEW n \in Nat, a + n <= job.frames, job.frames \in Nat
  PROVE  Run(a, n) \in Seq(Positions) /\ Len(Run(a, n)) = n
<1>1. \A i \in 1..n : a + i - 1 \in Positions
  BY DEF Positions
<1> QED BY <1>1 DEF Run

\* Moving k frames of a run from the resampler to the FIFO.
LEMMA MovedRuns ==
  ASSUME TypeOK, Gapless, NEW m \in Nat, NEW k \in 0..m,
         NEW input, input = Run(pts_counter + Len(fifo), m),
         pts_counter + Len(fifo) + m <= job.frames,
         fifo' = fifo \o SubSeq(input, 1, k), held' = Dropped(input, k)
  PROVE  /\ fifo' = Run(pts_counter, Len(fifo'))
         /\ held' = Run(pts_counter + Len(fifo'), Len(held'))
         /\ Len(fifo') = Len(fifo) + k /\ Len(held') = m - k
         /\ fifo' \in Seq(Positions) /\ held' \in Seq(Positions)
<1>1. PICK a \in Nat, f \in Nat, b \in Nat, total \in Nat :
         /\ a = pts_counter /\ f = Len(fifo) /\ b = a + f /\ total = job.frames
  <2>1. pts_counter \in Nat /\ Len(fifo) \in Nat /\ job.frames \in Nat
    BY Numbers
  <2>2. pts_counter + Len(fifo) \in Nat
    BY <2>1
  <2> QED BY <2>1, <2>2, Zenon
<1>2. fifo' = Run(a, f + k)
  <2>1. SubSeq(Run(b, m), 1, k) = Run(b, k)
    BY RunTake
  <2>2. fifo = Run(a, f)
    BY <1>1, Zenon DEF Gapless
  <2>3. Run(a, f) \o Run(a + f, k) = Run(a, f + k)
    <3>1. a \in Int /\ k \in Nat
      OBVIOUS
    <3> QED BY <3>1, RunConcat, Zenon
  <2> QED BY <1>1, <2>1, <2>2, <2>3, Zenon
<1>3. held' = Run(b + k, m - k)
  <2>1. Dropped(Run(b, m), k) = Run(b + k, m - k)
    BY RunDropped
  <2> QED BY <1>1, <2>1, Zenon
<1>4. PICK u \in Nat, c \in Nat, r \in Nat :
         u = f + k /\ c = b + k /\ r = m - k /\ a + u = c
         /\ a + u <= total /\ c + r <= total
  <2>1. b + m <= total
    BY <1>1
  <2> QED BY <1>1, <2>1
<1>5. fifo' \in Seq(Positions) /\ Len(fifo') = u
  <2>1. a + u <= job.frames /\ job.frames \in Nat
    BY <1>1, <1>4
  <2>2. Run(a, u) \in Seq(Positions) /\ Len(Run(a, u)) = u
    BY <2>1, RunPositions
  <2> QED BY <1>2, <1>4, <2>2, Zenon
<1>6. held' \in Seq(Positions) /\ Len(held') = r
  <2>1. c + r <= job.frames /\ job.frames \in Nat
    BY <1>1, <1>4
  <2>2. Run(c, r) \in Seq(Positions) /\ Len(Run(c, r)) = r
    BY <2>1, RunPositions
  <2> QED BY <1>3, <1>4, <2>2, Zenon
<1>7. fifo' = Run(pts_counter, Len(fifo'))
  BY <1>1, <1>2, <1>4, <1>5, Zenon
<1>8. held' = Run(pts_counter + Len(fifo'), Len(held'))
  BY <1>1, <1>3, <1>4, <1>5, <1>6, Zenon
<1>9. Len(fifo') = Len(fifo) + k /\ Len(held') = m - k
  BY <1>1, <1>4, <1>5, <1>6
<1> QED BY <1>5, <1>6, <1>7, <1>8, <1>9

\* Steps that move no audio.
LEMMA GaplessUnchanged ==
  ASSUME Gapless, UNCHANGED <<job, pts_counter, fifo, held>>
  PROVE  Gapless'
BY DEF Gapless

LEMMA CutUnchanged ==
  ASSUME Cut, UNCHANGED <<job, pts_counter, enc, packets>>
  PROVE  Cut'
BY DEF Cut, StartOf, Positions, PieceFrom, Promise!End
-----------------------------------------------------------------------------
\* The frame that leaves the FIFO is the next piece.
LEMMA PieceType ==
  ASSUME TypeOK, NEW at \in Positions
  PROVE  /\ PieceFrom(at) \in Frames
         /\ PieceFrom(at).pts = at
         /\ Len(PieceFrom(at).frames) = Smaller(job.frame_size, job.frames - at)
         /\ Smaller(job.frame_size, job.frames - at) \in 1..job.frame_size
<1>1. job.frames \in Nat /\ at \in Nat /\ at < job.frames
      /\ job.frame_size \in Nat /\ job.frame_size > 0
  BY Numbers DEF Positions
<1>2. PICK n \in Nat : /\ n = Smaller(job.frame_size, job.frames - at)
                       /\ n \in 1..job.frame_size /\ at + n <= job.frames
  BY <1>1 DEF Smaller
<1>3. Run(at, n) \in Seq(Positions) /\ Len(Run(at, n)) = n
  BY <1>1, <1>2, RunPositions
<1>4. PieceFrom(at) = [pts |-> at, frames |-> Run(at, n)]
  BY <1>2 DEF PieceFrom
<1> QED BY <1>2, <1>3, <1>4 DEF Frames

\* Where the FIFO starts and how much it holds after n frames have left it.
LEMMA TakenFrom ==
  ASSUME NEW a \in Nat, NEW f \in Nat, NEW h \in Nat, NEW total \in Nat,
         NEW n \in Nat, n <= f, a + f + h <= total
  PROVE  /\ a + n \in Nat /\ f - n \in Nat
         /\ (a + n) + (f - n) = a + f /\ (a + n) + (f - n) <= total
         /\ (a + n) + (f - n) + h <= total
         /\ a + n \in 0..total
OBVIOUS

\* What is below its bound is below the larger one.
LEMMA SumBelow ==
  ASSUME NEW f \in Nat, NEW h \in Nat, NEW size \in Nat, NEW lag \in Nat,
         f < size, h <= lag
  PROVE  f + h < size + lag
OBVIOUS

LEMMA StillBelow ==
  ASSUME NEW u \in Nat, NEW f \in Nat, NEW h \in Nat, NEW bound \in Int,
         u <= f, f + h < bound
  PROVE  u + h < bound
OBVIOUS

LEMMA MoreHeld ==
  ASSUME NEW a \in Nat, NEW f \in Nat, NEW h \in Nat, NEW c \in Nat
  PROVE  h + c \in Nat /\ a + f + (h + c) = a + f + h + c
OBVIOUS

\* Encoding a piece keeps what is inside the encoder cut.
LEMMA EncodeOneKeepsCut ==
  ASSUME TypeOK, Gapless, Cut, Len(enc) <= EncDelay,
         NEW n \in 1..Len(fifo), EncodeOne(n),
         n = Smaller(job.frame_size, job.frames - pts_counter)
  PROVE  /\ Cut' /\ Gapless'
         /\ enc' \in Seq(Frames) /\ fifo' \in Seq(Positions)
         /\ pts_counter' \in 0..job.frames
         /\ pts_counter' = pts_counter + n /\ Len(fifo') = Len(fifo) - n
<1>1. PICK a \in Nat, f \in Nat, h \in Nat, total \in Nat :
         /\ a = pts_counter /\ f = Len(fifo) /\ h = Len(held)
         /\ total = job.frames /\ a + f + h <= total
         /\ n \in Nat /\ n >= 1 /\ n <= f
  <2>1. pts_counter \in Nat /\ Len(fifo) \in Nat /\ Len(held) \in Nat
        /\ job.frames \in Nat
    BY Numbers
  <2>2. n \in Nat /\ n >= 1 /\ n <= Len(fifo)
    BY <2>1
  <2> QED BY <2>1, <2>2, Zenon DEF Gapless
<1>2. fifo = Run(a, f) /\ held = Run(a + f, h)
  BY <1>1, Zenon DEF Gapless
<1>3. a \in Positions
  BY <1>1 DEF Positions
<1>4. [pts |-> pts_counter, frames |-> SubSeq(fifo, 1, n)] = PieceFrom(a)
  <2>1. SubSeq(Run(a, f), 1, n) = Run(a, n)
    <3>1. a \in Int /\ n \in 0..f
      BY <1>1
    <3> QED BY <3>1, RunTake, Zenon
  <2> QED BY <1>1, <1>2, <2>1, Zenon DEF PieceFrom
<1>5. /\ enc' = Append(enc, PieceFrom(a))
      /\ pts_counter' = a + n /\ fifo' = Dropped(fifo, n)
      /\ UNCHANGED <<job, held, packets>>
  <2>1. ~(Len(enc) > EncDelay)
    BY Numbers, EncodeBounds
  <2> QED BY <1>1, <1>4, <2>1 DEF EncodeOne
<1>6. PICK b \in Nat, r \in Nat : b = a + n /\ r = f - n /\ b + r <= total
                                  /\ b + r + h <= total /\ b + r = a + f
                                  /\ b \in 0..total
  <2>1. /\ a + n \in Nat /\ f - n \in Nat
        /\ (a + n) + (f - n) = a + f /\ (a + n) + (f - n) <= total
        /\ (a + n) + (f - n) + h <= total
        /\ a + n \in 0..total
    <3>1. n \in Nat /\ n <= f /\ a + f + h <= total
      BY <1>1, Zenon
    <3> QED BY <3>1, TakenFrom
  <2> QED BY <2>1, Zenon
<1>7. fifo' = Run(b, r) /\ fifo' \in Seq(Positions) /\ Len(fifo') = r
  <2>1. Dropped(Run(a, f), n) = Run(a + n, f - n)
    <3>1. a \in Int /\ n \in 0..f
      BY <1>1
    <3> QED BY <3>1, RunDropped, Zenon
  <2>2. Run(b, r) \in Seq(Positions) /\ Len(Run(b, r)) = r
    BY <1>1, <1>6, RunPositions
  <2> QED BY <1>2, <1>5, <1>6, <2>1, <2>2, Zenon
<1>8. Gapless'
  <2>1. fifo' = Run(pts_counter', Len(fifo'))
    BY <1>5, <1>6, <1>7, Zenon
  <2>2. held' = Run(pts_counter' + Len(fifo'), Len(held'))
    BY <1>1, <1>2, <1>5, <1>6, <1>7, Zenon
  <2>3. pts_counter' + Len(fifo') + Len(held') <= job'.frames
    BY <1>1, <1>5, <1>6, <1>7
  <2> QED BY <2>1, <2>2, <2>3 DEF Gapless
<1>9. /\ PieceFrom(a) \in Frames /\ PieceFrom(a).pts = a
      /\ Len(PieceFrom(a).frames) = n
  BY <1>1, <1>3, PieceType
<1>10. PICK k \in Nat : k = Len(enc)
  BY Numbers
<1>11. /\ enc' \in Seq(Frames) /\ Len(enc') = k + 1
       /\ \A i \in 1..k : enc'[i] = enc[i]
       /\ enc'[k + 1] = PieceFrom(a)
  <2>1. enc \in Seq(Frames)
    BY DEF TypeOK
  <2> QED BY <1>5, <1>9, <1>10, <2>1
<1>12. \A i \in 1..k + 1 : StartOf(i)' = StartOf(i)
  <2> SUFFICES ASSUME NEW i \in 1..k + 1 PROVE StartOf(i)' = StartOf(i)
    OBVIOUS
  <2>1. CASE i = 1
    BY <1>5, <2>1 DEF StartOf, Promise!End
  <2>2. CASE i # 1
    <3>1. i - 1 \in 1..k
      BY <1>10, <2>2
    <3>2. enc'[i - 1] = enc[i - 1]
      BY <1>11, <3>1
    <3> QED BY <2>2, <3>2 DEF StartOf
  <2> QED BY <2>1, <2>2
<1>13. StartOf(k + 1) = a
  BY <1>1, <1>10 DEF Cut
<1>14. StartOf(k + 2)' = a + n
  <2>1. (k + 2) - 1 = k + 1 /\ k + 2 # 1
    BY <1>10
  <2>2. StartOf(k + 2)' = enc'[k + 1].pts + Len(enc'[k + 1].frames)
    BY <2>1 DEF StartOf
  <2> QED BY <1>9, <1>11, <2>2
<1>15. \A at : PieceFrom(at)' = PieceFrom(at)
  BY <1>5 DEF PieceFrom
<1>16. Cut'
  <2>1. ASSUME NEW i \in 1..k + 1
        PROVE  StartOf(i)' \in Positions' /\ enc'[i] = PieceFrom(StartOf(i)')
    <3>1. Positions' = Positions
      BY <1>5 DEF Positions
    <3>2. CASE i \in 1..k
      BY <1>10, <1>11, <1>12, <3>1, <3>2 DEF Cut
    <3>3. CASE i = k + 1
      BY <1>3, <1>11, <1>12, <1>13, <3>1, <3>3
    <3> QED BY <3>2, <3>3
  <2>2. \A i \in 1..k + 1 : (PieceFrom(StartOf(i)))' = PieceFrom(StartOf(i)')
    BY <1>5 DEF PieceFrom
  <2>3. pts_counter' = StartOf(Len(enc) + 1)'
    <3>1. Len(enc') + 1 = k + 2
      BY <1>10, <1>11
    <3>2. StartOf(Len(enc) + 1)' = StartOf(k + 2)'
      BY <3>1 DEF StartOf
    <3> QED BY <1>5, <1>14, <3>2
  <2>4. Len(enc') = k + 1
    BY <1>11
  <2> QED BY <2>1, <2>2, <2>3, <2>4 DEF Cut
<1>17. pts_counter' \in 0..job.frames
  BY <1>1, <1>5, <1>6, Zenon
<1>18. pts_counter' = pts_counter + n /\ Len(fifo') = Len(fifo) - n
  BY <1>1, <1>5, <1>6, <1>7
<1> QED BY <1>7, <1>8, <1>11, <1>16, <1>17, <1>18

\* Writing the first piece that is ready keeps the rest cut.
LEMMA WritePacketKeepsCut ==
  ASSUME TypeOK, Cut, enc # << >>, packets' = Append(packets, Head(enc)),
         enc' = Tail(enc), UNCHANGED <<job, pts_counter>>
  PROVE  /\ Cut' /\ enc' \in Seq(Frames) /\ packets' \in Seq(Frames)
         /\ Len(enc') = Len(enc) - 1
         /\ Promise!End(packets) \in Positions
         /\ Head(enc) = PieceFrom(Promise!End(packets))
<1>1. PICK k \in Nat : k = Len(enc) - 1
  <2>1. enc \in Seq(Frames)
    BY DEF TypeOK
  <2>2. Len(enc) \in Nat /\ Len(enc) # 0
    BY <2>1
  <2> QED BY <2>2
<1>2. enc \in Seq(Frames) /\ packets \in Seq(Frames)
  BY DEF TypeOK
<1>3. StartOf(1) = Promise!End(packets)
  BY DEF StartOf
<1>4. 1 \in 1..Len(enc) /\ Head(enc) = enc[1] /\ Head(enc) \in Frames
  BY <1>1, <1>2
<1>5. /\ Promise!End(packets) \in Positions
      /\ Head(enc) = PieceFrom(Promise!End(packets))
  BY <1>3, <1>4, Zenon DEF Cut
<1>6. /\ enc' \in Seq(Frames) /\ packets' \in Seq(Frames)
      /\ Len(enc') = k /\ \A i \in 1..k : enc'[i] = enc[i + 1]
      /\ Len(packets') = Len(packets) + 1
      /\ packets'[Len(packets')] = Head(enc) /\ packets' # << >>
  BY <1>1, <1>2, <1>4
<1>7. Promise!End(packets') = Head(enc).pts + Len(Head(enc).frames)
  BY <1>6 DEF Promise!End
<1>8. \A i \in 1..k + 1 : StartOf(i)' = StartOf(i + 1)
  <2> SUFFICES ASSUME NEW i \in 1..k + 1 PROVE StartOf(i)' = StartOf(i + 1)
    OBVIOUS
  <2>1. i + 1 # 1 /\ (i + 1) - 1 = i
    OBVIOUS
  <2>2. StartOf(i + 1) = enc[i].pts + Len(enc[i].frames)
    BY <2>1 DEF StartOf
  <2>3. CASE i = 1
    <3>1. StartOf(i)' = Promise!End(packets')
      BY <2>3 DEF StartOf, Promise!End
    <3> QED BY <1>4, <1>7, <2>2, <2>3, <3>1
  <2>4. CASE i # 1
    <3>1. i - 1 \in 1..k /\ (i - 1) + 1 = i
      BY <2>4
    <3>2. enc'[i - 1] = enc[i]
      BY <1>6, <3>1
    <3> QED BY <2>2, <2>4, <3>2 DEF StartOf
  <2> QED BY <2>3, <2>4
<1>9. Cut'
  <2>1. Positions' = Positions
    BY DEF Positions
  <2>2. ASSUME NEW i \in 1..k
        PROVE  StartOf(i)' \in Positions' /\ enc'[i] = (PieceFrom(StartOf(i)))'
    <3>1. i + 1 \in 1..Len(enc) /\ i \in 1..k + 1
      BY <1>1
    <3>2. StartOf(i)' = StartOf(i + 1) /\ enc'[i] = enc[i + 1]
      BY <1>6, <1>8, <3>1
    <3>3. (PieceFrom(StartOf(i)))' = PieceFrom(StartOf(i + 1))
      BY <3>2 DEF PieceFrom
    <3> QED BY <2>1, <3>1, <3>2, <3>3 DEF Cut
  <2>3. pts_counter' = StartOf(Len(enc) + 1)'
    <3>1. Len(enc') + 1 = k + 1 /\ (k + 1) + 1 = Len(enc) + 1 /\ k + 1 \in 1..k + 1
      BY <1>1, <1>6
    <3>2. pts_counter' = StartOf(k + 2)
      BY <3>1 DEF Cut
    <3>3. StartOf(k + 1)' = StartOf(k + 2)
      BY <1>8, <3>1
    <3>4. StartOf(Len(enc) + 1)' = StartOf(k + 1)'
      BY <3>1 DEF StartOf
    <3> QED BY <3>2, <3>3, <3>4
  <2> QED BY <1>6, <2>2, <2>3 DEF Cut
<1>10. Len(enc') = Len(enc) - 1
  BY <1>1, <1>6
<1> QED BY <1>5, <1>6, <1>9, <1>10
-----------------------------------------------------------------------------
\* chunk of the next state, when neither it nor the buffer changes.
LEMMA ChunkUnchanged ==
  ASSUME UNCHANGED <<job, chunk_start>>
  PROVE  chunk' = chunk
BY DEF chunk

LEMMA InitIInv == Init => IInv
<1> SUFFICES ASSUME Init PROVE IInv
  OBVIOUS
<1> USE DEF Init
<1>1. job \in Jobs /\ job.frames \in Nat /\ job.frame_size \in Nat
      /\ job.frame_size > 0
  BY EncodeJobs
<1>2. TypeOK
  <2>1. \A S : << >> \in Seq(S)
    OBVIOUS
  <2>2. held \in Seq(Positions) /\ fifo \in Seq(Positions)
        /\ enc \in Seq(Frames) /\ packets \in Seq(Frames)
    BY <2>1, Zenon
  <2>3. pc \in DOMAIN CallsAt
    BY PcType
  <2>4. chunk_start \in 0..job.frames /\ pts_counter \in 0..job.frames
    BY <1>1
  <2> QED BY <1>1, <2>2, <2>3, <2>4 DEF TypeOK
<1>3. Run(0, 0) = << >>
  BY RunEmpty
<1>4. Gapless
  <2>1. pts_counter + Len(fifo) = 0 /\ Len(held) = 0 /\ Len(fifo) = 0
    OBVIOUS
  <2> QED BY <1>1, <1>3, <2>1 DEF Gapless
<1>5. Cut
  <2>1. Len(enc) = 0 /\ \A i : i \notin 1..0
    OBVIOUS
  <2> QED BY <2>1 DEF Cut, StartOf, Promise!End
<1>6. Progress /\ FifoBounded
  BY <1>1, EncodeBounds DEF Progress, FifoBounded, InFrames
<1> QED BY <1>2, <1>4, <1>5, <1>6 DEF IInv

\* The steps that move no audio: control, chunk_start and flushed at most.
LEMMA ControlKeepsIInv ==
  ASSUME IInv, UNCHANGED <<job, pts_counter, held, fifo, enc, packets>>,
         pc' \in DOMAIN CallsAt \cup {"ok", "err"},
         chunk_start' \in 0..job.frames, flushed' \in BOOLEAN, Progress'
  PROVE  IInv'
<1>1. TypeOK'
  BY DEF IInv, TypeOK, Frames, Positions
<1>2. Gapless' /\ Cut'
  BY GaplessUnchanged, CutUnchanged DEF IInv
<1>3. FifoBounded'
  BY DEF IInv, FifoBounded
<1> QED BY <1>1, <1>2, <1>3 DEF IInv

LEMMA ControlSteps ==
  ASSUME IInv, \/ Setup \/ NextChunk \/ LastChunkDone \/ SwrDrained \/ RestDone
               \/ FlushEncoder \/ Drained \/ WriteTrailer \/ Fail
  PROVE  IInv'
<1>1. /\ TypeOK /\ Progress /\ Gapless /\ FifoBounded
      /\ chunk_start \in 0..job.frames /\ flushed \in BOOLEAN
  BY DEF IInv, TypeOK
<1>2. CASE Setup
  <2>1. Progress'
    BY <1>1, <1>2 DEF Setup, Progress, InFrames
  <2> QED BY <1>1, <1>2, <2>1, ControlKeepsIInv, PcType DEF Setup
<1>3. CASE NextChunk
  <2>1. chunk_start' \in 0..job.frames
    BY <1>1, <1>3, Numbers DEF NextChunk, Progress, InFrames
  <2>2. Progress'
    BY <1>1, <1>3, <2>1, Numbers DEF NextChunk, Progress, InFrames
  <2> QED BY <1>1, <1>3, <2>1, <2>2, ControlKeepsIInv, PcType DEF NextChunk
<1>4. CASE LastChunkDone
  <2>1. PICK end \in Nat : end = pts_counter + Len(fifo) + Len(held)
    BY <1>1, Numbers
  <2>2. chunk_start = job.frames
    BY <1>1, <1>4, Numbers DEF LastChunkDone
  <2>3. end = job.frames /\ Len(fifo) < job.frame_size /\ Len(held) <= SwrLag
        /\ Len(enc) <= EncDelay /\ ~flushed
    BY <1>1, <1>4, <2>1, <2>2 DEF LastChunkDone, Progress
  <2>4. Len(fifo) + Len(held) < job.frame_size + SwrLag
    <3>1. /\ Len(fifo) \in Nat /\ Len(held) \in Nat
          /\ job.frame_size \in Nat /\ SwrLag \in Nat
      BY <1>1, Numbers, EncodeBounds
    <3> QED BY <2>3, <3>1, SumBelow, Zenon
  <2>5. Progress'
    BY <1>4, <2>1, <2>3, <2>4 DEF LastChunkDone, Progress, InFrames
  <2> QED BY <1>1, <1>4, <2>5, ControlKeepsIInv, PcType DEF LastChunkDone
<1>5. CASE SwrDrained
  <2>1. Progress'
    BY <1>1, <1>5, Numbers DEF SwrDrained, Progress, InFrames
  <2> QED BY <1>1, <1>5, <2>1, ControlKeepsIInv, PcType DEF SwrDrained
<1>6. CASE RestDone
  <2>1. Progress'
    BY <1>1, <1>6, Numbers DEF RestDone, Progress, InFrames
  <2> QED BY <1>1, <1>6, <2>1, ControlKeepsIInv, PcType DEF RestDone
<1>7. CASE FlushEncoder
  <2>1. Progress'
    BY <1>1, <1>7, Numbers DEF FlushEncoder, Progress, InFrames
  <2> QED BY <1>1, <1>7, <2>1, ControlKeepsIInv, PcType DEF FlushEncoder
<1>8. CASE Drained
  <2>1. pc \in Drains /\ pc' = AfterDrain[pc]
        /\ ~(Len(enc) > (IF flushed THEN 0 ELSE EncDelay))
    BY <1>8, PcType DEF Drained, PacketReady
  <2>2. Len(enc) <= (IF flushed THEN 0 ELSE EncDelay)
    BY <1>1, <2>1, Numbers, EncodeBounds
  <2>3. UNCHANGED <<job, chunk_start, pts_counter, held, fifo, enc, flushed,
                    packets>>
    BY <1>8 DEF Drained
  <2>4. Progress'
    <3>1. CASE pc = "frame_out"
      <4>1. pc' = "frames"
        BY <2>1, <3>1, PcType
      <4>2. chunk' = chunk
        BY <2>3, ChunkUnchanged
      <4> QED BY <1>1, <2>2, <2>3, <3>1, <4>1, <4>2 DEF Progress, InFrames
    <3>2. CASE pc = "rest_out"
      <4>1. pc' = "rest"
        BY <2>1, <3>2, PcType
      <4> QED BY <1>1, <2>2, <2>3, <3>2, <4>1 DEF Progress, InFrames
    <3>3. CASE pc = "null_out"
      <4>1. pc' = "trailer"
        BY <2>1, <3>3, PcType
      <4> QED BY <1>1, <2>2, <2>3, <3>3, <4>1, Numbers DEF Progress, InFrames
    <3> QED BY <2>1, <3>1, <3>2, <3>3 DEF Drains
  <2>5. pc' \in DOMAIN CallsAt
    BY <2>1, PcType DEF Drains
  <2> QED BY <1>1, <2>3, <2>4, <2>5, ControlKeepsIInv
<1>9. CASE WriteTrailer
  <2>1. Progress'
    BY <1>1, <1>9 DEF WriteTrailer, Progress, InFrames
  <2> QED BY <1>1, <1>9, <2>1, ControlKeepsIInv, PcType DEF WriteTrailer
<1>10. CASE Fail
  <2>1. Progress'
    BY <1>1, <1>10 DEF Fail, Progress, InFrames
  <2> QED BY <1>1, <1>10, <2>1, ControlKeepsIInv, PcType DEF Fail
<1> QED BY <1>2, <1>3, <1>4, <1>5, <1>6, <1>7, <1>8, <1>9, <1>10

LEMMA PushKeepsIInv ==
  ASSUME IInv, Push
  PROVE  IInv'
<1>1. TypeOK /\ Gapless /\ Cut /\ Progress /\ FifoBounded
  BY DEF IInv
<1>2. PICK f \in Nat, h \in Nat, a \in Nat, c \in Nat :
         /\ f = Len(fifo) /\ h = Len(held) /\ a = pts_counter /\ c = chunk
         /\ a + f + h = chunk_start /\ chunk_start + c <= job.frames
         /\ f < job.frame_size /\ h <= SwrLag /\ c <= CHUNK_FRAMES
         /\ Len(enc) <= EncDelay /\ ~flushed
  <2>1. Len(fifo) \in Nat /\ Len(held) \in Nat /\ pts_counter \in Nat
        /\ chunk \in Nat /\ chunk <= CHUNK_FRAMES
        /\ chunk_start + chunk <= job.frames
    BY <1>1, Numbers DEF Push
  <2>2. pts_counter + Len(fifo) + Len(held) = chunk_start
        /\ Len(fifo) < job.frame_size /\ Len(held) <= SwrLag
        /\ Len(enc) <= EncDelay /\ ~flushed
    BY <1>1 DEF Push, Progress
  <2> QED BY <2>1, <2>2, Zenon
<1>3. PICK m \in Nat : m = h + c /\ (a + f) + h = chunk_start
                       /\ a + f + m <= job.frames
                       /\ a + f + m = chunk_start + c
  <2>1. h + c \in Nat /\ a + f + (h + c) = chunk_start + c
    <3>1. h + c \in Nat /\ a + f + (h + c) = a + f + h + c
      BY MoreHeld
    <3> QED BY <1>2, <3>1, Zenon
  <2> QED BY <1>2, <2>1, Zenon
<1>4. held \o Run(chunk_start, chunk) = Run(a + f, m)
  <2>1. a + f \in Int /\ a + f \in Nat
    BY <1>2
  <2>2. Run(a + f, h) \o Run(a + f + h, c) = Run(a + f, h + c)
    BY <2>1, RunConcat, Zenon
  <2>3. held = Run(a + f, h)
    BY <1>1, <1>2, Zenon DEF Gapless
  <2> QED BY <1>2, <1>3, <2>2, <2>3, Zenon
<1>5. PICK k \in Larger(0, Len(Run(a + f, m)) - SwrLag)..Len(Run(a + f, m)) :
         /\ fifo' = fifo \o SubSeq(Run(a + f, m), 1, k)
         /\ held' = Dropped(Run(a + f, m), k)
  BY <1>4 DEF Push
<1>6. k \in 0..m /\ m - k <= SwrLag /\ k \in Nat
  <2>1. Len(Run(a + f, m)) = m
    <3>1. a + f \in Int
      BY <1>2
    <3> QED BY <3>1, RunType
  <2> QED BY <1>5, <2>1, EncodeBounds DEF Larger
<1>7. pc = "push" /\ pc' = "frames" /\ chunk_start < job.frames
      /\ UNCHANGED <<job, chunk_start, pts_counter, enc, flushed, packets>>
  BY DEF Push
<1>8. /\ fifo' = Run(pts_counter, Len(fifo'))
      /\ held' = Run(pts_counter + Len(fifo'), Len(held'))
      /\ Len(fifo') = Len(fifo) + k /\ Len(held') = m - k
      /\ fifo' \in Seq(Positions) /\ held' \in Seq(Positions)
  <2>1. Run(a + f, m) = Run(pts_counter + Len(fifo), m)
        /\ pts_counter + Len(fifo) + m <= job.frames
    BY <1>2, <1>3
  <2> QED BY <1>1, <1>5, <1>6, <2>1, MovedRuns
<1>9. pts_counter' + Len(fifo') + Len(held') = chunk_start + c
  BY <1>2, <1>3, <1>6, <1>7, <1>8
<1>10. TypeOK'
  BY <1>1, <1>7, <1>8, PcType DEF TypeOK, Frames, Positions
<1>11. Gapless'
  BY <1>2, <1>7, <1>8, <1>9 DEF Gapless
<1>12. Cut'
  BY <1>1, <1>7, CutUnchanged
<1>13. Progress'
  <2>1. chunk' = c
    BY <1>2, <1>7, ChunkUnchanged
  <2> QED BY <1>2, <1>6, <1>7, <1>8, <1>9, <2>1 DEF Progress, InFrames
<1>14. FifoBounded'
  <2>1. Len(fifo') + Len(held') = f + h + c
    BY <1>2, <1>3, <1>6, <1>8
  <2>2. f + h + c < job.frame_size + SwrLag + CHUNK_FRAMES
    <3>1. PICK s \in Nat : s = job.frame_size
      BY <1>1, Numbers
    <3>2. f < s /\ h <= SwrLag /\ c <= CHUNK_FRAMES
      BY <1>2, <3>1
    <3>3. f + h + c < s + SwrLag + CHUNK_FRAMES
      BY <3>2, EncodeBounds
    <3> QED BY <3>1, <3>3
  <2> QED BY <1>7, <2>1, <2>2 DEF FifoBounded
<1> QED BY <1>10, <1>11, <1>12, <1>13, <1>14 DEF IInv

LEMMA DrainSwrKeepsIInv ==
  ASSUME IInv, NEW k \in 1..Len(held), DrainSwr(k)
  PROVE  IInv'
<1>1. TypeOK /\ Gapless /\ Cut /\ Progress /\ FifoBounded
  BY DEF IInv
<1>2. PICK f \in Nat, h \in Nat, a \in Nat :
         /\ f = Len(fifo) /\ h = Len(held) /\ a = pts_counter
         /\ a + f + h = job.frames /\ f + h < job.frame_size + SwrLag
         /\ h <= SwrLag /\ Len(enc) <= EncDelay /\ ~flushed
  <2>1. Len(fifo) \in Nat /\ Len(held) \in Nat /\ pts_counter \in Nat
    BY <1>1, Numbers
  <2>2. pts_counter + Len(fifo) + Len(held) = job.frames
        /\ Len(fifo) + Len(held) < job.frame_size + SwrLag
        /\ Len(held) <= SwrLag /\ Len(enc) <= EncDelay /\ ~flushed
    BY <1>1 DEF DrainSwr, Progress
  <2> QED BY <2>1, <2>2, Zenon
<1>3. pc = "drain" /\ pc' = "drain"
      /\ UNCHANGED <<job, chunk_start, pts_counter, enc, flushed, packets>>
      /\ fifo' = fifo \o SubSeq(held, 1, k) /\ held' = Dropped(held, k)
  BY DEF DrainSwr
<1>4. /\ fifo' = Run(pts_counter, Len(fifo'))
      /\ held' = Run(pts_counter + Len(fifo'), Len(held'))
      /\ Len(fifo') = Len(fifo) + k /\ Len(held') = h - k
      /\ fifo' \in Seq(Positions) /\ held' \in Seq(Positions)
  <2>1. held = Run(pts_counter + Len(fifo), h) /\ k \in 0..h
        /\ pts_counter + Len(fifo) + h <= job.frames
    BY <1>1, <1>2 DEF Gapless
  <2> QED BY <1>1, <1>3, <2>1, MovedRuns, Zenon
<1>5. PICK u \in Nat, v \in Nat : u = Len(fifo') /\ v = Len(held')
                                   /\ u + v = f + h /\ v <= SwrLag
                                   /\ a + u + v = job.frames
  <2>1. k \in Nat /\ k <= h
    BY <1>2
  <2>2. f + k \in Nat /\ h - k \in Nat /\ (f + k) + (h - k) = f + h
        /\ h - k <= SwrLag /\ a + (f + k) + (h - k) = job.frames
    BY <1>2, <2>1, EncodeBounds
  <2> QED BY <1>2, <1>4, <2>2
<1>6. TypeOK'
  BY <1>1, <1>3, <1>4, PcType DEF TypeOK, Frames, Positions
<1>7. Gapless'
  BY <1>1, <1>2, <1>3, <1>4, <1>5, Numbers DEF Gapless
<1>8. Cut'
  BY <1>1, <1>3, CutUnchanged
<1>9. Progress'
  BY <1>2, <1>3, <1>5 DEF Progress, InFrames
<1>10. FifoBounded'
  BY <1>1, <1>2, <1>3, <1>5 DEF FifoBounded
<1> QED BY <1>6, <1>7, <1>8, <1>9, <1>10 DEF IInv

\* What encode_one_frame leaves, for either loop that calls it.
LEMMA EncodeOneKeepsIInv ==
  ASSUME IInv, NEW n \in 1..Len(fifo), EncodeOne(n),
         n = Smaller(job.frame_size, job.frames - pts_counter),
         \/ pc = "frames" /\ pc' = "frame_out"
         \/ pc = "rest" /\ pc' = "rest_out"
  PROVE  IInv'
<1>1. TypeOK /\ Gapless /\ Cut /\ Progress /\ FifoBounded
  BY DEF IInv
<1>2. Len(enc) <= EncDelay /\ ~flushed
  BY <1>1 DEF Progress
<1>3. /\ Cut' /\ Gapless'
      /\ enc' \in Seq(Frames) /\ fifo' \in Seq(Positions)
      /\ pts_counter' \in 0..job.frames
      /\ pts_counter' = pts_counter + n /\ Len(fifo') = Len(fifo) - n
  BY <1>1, <1>2, EncodeOneKeepsCut
<1>4. UNCHANGED <<job, chunk_start, held, flushed, packets>>
  BY DEF EncodeOne
<1>5. TypeOK'
  BY <1>1, <1>3, <1>4, PcType DEF TypeOK, Frames, Positions
<1>6. PICK f \in Nat, h \in Nat, a \in Nat, u \in Nat, b \in Nat :
         /\ f = Len(fifo) /\ h = Len(held) /\ a = pts_counter
         /\ u = Len(fifo') /\ b = pts_counter' /\ h = Len(held')
         /\ u <= f /\ b + u = a + f
  <2>1. Len(fifo) \in Nat /\ Len(held) \in Nat /\ pts_counter \in Nat
    BY <1>1, Numbers
  <2>2. pts_counter + n \in Nat /\ Len(fifo) - n \in Nat
        /\ Len(fifo) - n <= Len(fifo)
        /\ (pts_counter + n) + (Len(fifo) - n) = pts_counter + Len(fifo)
    BY <2>1
  <2> QED BY <1>3, <1>4, <2>1, <2>2
<1>7. Progress'
  <2>1. chunk' = chunk
    BY <1>4, ChunkUnchanged
  <2>2. b + u + h = a + f + h
    BY <1>6
  <2> QED BY <1>1, <1>2, <1>4, <1>6, <2>1, <2>2 DEF Progress, InFrames
<1>8. FifoBounded'
  <2>1. f + h < job.frame_size + SwrLag + CHUNK_FRAMES
    BY <1>1, <1>6 DEF FifoBounded
  <2>2. u + h < job.frame_size + SwrLag + CHUNK_FRAMES
    <3>1. job.frame_size + SwrLag + CHUNK_FRAMES \in Int
      BY <1>1, Numbers, EncodeBounds
    <3> QED BY <1>6, <2>1, <3>1, StillBelow, Zenon
  <2> QED BY <1>4, <1>6, <2>2 DEF FifoBounded
<1> QED BY <1>3, <1>5, <1>7, <1>8 DEF IInv

LEMMA EncodeFullKeepsIInv ==
  ASSUME IInv, EncodeFull
  PROVE  IInv'
<1>1. /\ job.frame_size \in Nat /\ job.frame_size > 0 /\ job.frames \in Nat
      /\ pts_counter \in Nat /\ Len(fifo) \in Nat /\ Len(held) \in Nat
      /\ pts_counter + Len(fifo) + Len(held) <= job.frames
  BY Numbers DEF IInv, Gapless
<1>2. /\ pc = "frames" /\ pc' = "frame_out" /\ EncodeOne(job.frame_size)
      /\ job.frame_size <= Len(fifo)
  BY <1>1 DEF EncodeFull
<1>3. job.frame_size \in 1..Len(fifo)
  BY <1>1, <1>2
<1>4. job.frame_size = Smaller(job.frame_size, job.frames - pts_counter)
  BY <1>1, <1>2 DEF Smaller
<1> QED BY <1>2, <1>3, <1>4, EncodeOneKeepsIInv

LEMMA EncodeRestKeepsIInv ==
  ASSUME IInv, EncodeRest
  PROVE  IInv'
<1>1. /\ job.frame_size \in Nat /\ job.frame_size > 0 /\ job.frames \in Nat
      /\ pts_counter \in Nat /\ Len(fifo) \in Nat
      /\ Len(fifo) = job.frames - pts_counter
  BY Numbers DEF IInv, Progress, EncodeRest
<1>2. Len(fifo) # 0
  <2>1. fifo \in Seq(Positions) /\ fifo # << >>
    BY DEF IInv, TypeOK, EncodeRest
  <2> QED BY <2>1
<1>3. PICK n : n = Smaller(Len(fifo), job.frame_size)
  OBVIOUS
<1>4. pc = "rest" /\ pc' = "rest_out" /\ EncodeOne(n)
  BY <1>3 DEF EncodeRest
<1>5. n \in 1..Len(fifo)
      /\ n = Smaller(job.frame_size, job.frames - pts_counter)
  BY <1>1, <1>2, <1>3 DEF Smaller
<1> QED BY <1>4, <1>5, EncodeOneKeepsIInv

LEMMA WritePacketKeepsIInv ==
  ASSUME IInv, WritePacket
  PROVE  /\ IInv'
         /\ Promise!End(packets) \in Positions
         /\ packets' = Append(packets, PieceFrom(Promise!End(packets)))
<1>1. TypeOK /\ Gapless /\ Cut /\ Progress /\ FifoBounded
  BY DEF IInv
<1>2. /\ packets' = Append(packets, Head(enc)) /\ enc' = Tail(enc)
      /\ UNCHANGED <<job, pc, chunk_start, pts_counter, held, fifo, flushed>>
      /\ pc \in Drains
  BY PcType DEF WritePacket
<1>3. enc # << >>
  BY <1>1, EncodeBounds DEF WritePacket, PacketReady
<1>4. /\ Cut' /\ enc' \in Seq(Frames) /\ packets' \in Seq(Frames)
      /\ Promise!End(packets) \in Positions
      /\ Head(enc) = PieceFrom(Promise!End(packets))
  BY <1>1, <1>2, <1>3, WritePacketKeepsCut
<1>5. TypeOK'
  BY <1>1, <1>2, <1>4 DEF TypeOK, Frames, Positions
<1>6. Gapless'
  BY <1>1, <1>2, GaplessUnchanged
<1>7. Progress'
  <2>1. chunk' = chunk
    BY <1>2, ChunkUnchanged
  <2> QED BY <1>1, <1>2, <2>1 DEF Progress, InFrames, Drains
<1>8. FifoBounded'
  BY <1>1, <1>2 DEF FifoBounded
<1>9. packets' = Append(packets, PieceFrom(Promise!End(packets)))
  BY <1>2, <1>4, Zenon
<1> QED BY <1>4, <1>5, <1>6, <1>7, <1>8, <1>9 DEF IInv

LEMMA StepKeepsIInv == IInv /\ [Next]_vars => IInv'
<1> SUFFICES ASSUME IInv, [Next]_vars PROVE IInv'
  OBVIOUS
<1>1. CASE Push
  BY <1>1, PushKeepsIInv
<1>2. CASE EncodeFull
  BY <1>2, EncodeFullKeepsIInv
<1>3. CASE \E n \in 1..Len(held) : DrainSwr(n)
  BY <1>3, DrainSwrKeepsIInv
<1>4. CASE EncodeRest
  BY <1>4, EncodeRestKeepsIInv
<1>5. CASE WritePacket
  BY <1>5, WritePacketKeepsIInv
<1>6. CASE \/ Setup \/ NextChunk \/ LastChunkDone \/ SwrDrained \/ RestDone
           \/ FlushEncoder \/ Drained \/ WriteTrailer \/ Fail
  BY <1>6, ControlSteps
<1>7. CASE UNCHANGED vars
  <2>1. chunk' = chunk
    BY <1>7, ChunkUnchanged DEF vars
  <2>2. Gapless' /\ Cut'
    BY <1>7, GaplessUnchanged, CutUnchanged DEF vars, IInv
  <2>3. TypeOK'
    BY <1>7 DEF vars, IInv, TypeOK, Frames, Positions
  <2>4. Progress'
    BY <1>7, <2>1 DEF vars, IInv, Progress
  <2>5. FifoBounded'
    BY <1>7 DEF vars, IInv, FifoBounded
  <2> QED BY <2>2, <2>3, <2>4, <2>5 DEF IInv
<1> QED BY <1>1, <1>2, <1>3, <1>4, <1>5, <1>6, <1>7 DEF Next, Returned
-----------------------------------------------------------------------------
\* The states of a save: run_encode() and encode_loop() of encoder.rs.
THEOREM Invariant == Spec => []IInv
BY InitIInv, StepKeepsIInv, PTL DEF Spec

\* Every variable keeps its type: no position outside the buffer, no chunk
\* past its end, whatever the resampler and the encoder hold back.
THEOREM TypeCorrect == Spec => []TypeOK
<1>1. IInv => TypeOK
  BY DEF IInv
<1> QED BY <1>1, Invariant, PTL

\* However long the buffer, FIFO and resampler hold less than an encoder frame
\* and a chunk beyond the resampler's lag (the inner loop of encode_loop).
THEOREM FifoStaysBounded == Spec => []FifoBounded
<1>1. IInv => FifoBounded
  BY DEF IInv
<1> QED BY <1>1, Invariant, PTL
-----------------------------------------------------------------------------
\* The promise speaks of the same runs.
LEMMA SameRuns ==
  /\ \A a, n : Promise!Run(a, n) = Run(a, n)
  /\ \A a, b : Promise!Smaller(a, b) = Smaller(a, b)
BY DEF Promise!Run, Run, Promise!Smaller, Smaller

\* Only a packet written and a return show.
LEMMA StepKeepsPromise ==
  ASSUME \A j \in Jobs : j.frames < Half, IInv, [Next]_vars
  PROVE  [Promise!Next]_Promise!promiseVars
<1> DEFINE outcome == IF pc \in {"ok", "err"} THEN pc ELSE "pending"
<1>1. CASE UNCHANGED <<job, packets>> /\ outcome' = outcome
  BY <1>1, Zenon DEF Promise!promiseVars
<1>2. CASE WritePacket
  <2>1. PICK at \in Positions : at = Promise!End(packets)
    BY <1>2, WritePacketKeepsIInv, Zenon
  <2>2. packets' = Append(packets, PieceFrom(at))
    BY <1>2, <2>1, WritePacketKeepsIInv, Zenon
  <2>3. PICK n : n = Smaller(job.frame_size, job.frames - at)
    OBVIOUS
  <2>4. n \in 1..job.frame_size
    BY <2>3, PieceType, Zenon DEF IInv
  <2>5. packets' = Append(packets, [pts |-> at, frames |-> Promise!Run(at, n)])
    BY <2>2, <2>3, SameRuns, Zenon DEF PieceFrom
  <2>6. outcome = "pending" /\ outcome' = "pending" /\ job' = job
    BY <1>2, PcType DEF WritePacket, Drains
  <2>7. n = Promise!Smaller(job.frame_size, job.frames - at)
    BY <2>3, SameRuns, Zenon
  <2>8. Promise!Write(n)
    BY <2>1, <2>5, <2>6, <2>7, Zenon DEF Promise!Write
  <2> QED BY <2>4, <2>8, Zenon DEF Promise!Next
<1>3. CASE WriteTrailer
  <2>1. Len(enc) = 0 /\ pts_counter = job.frames
    BY <1>3 DEF IInv, Progress, WriteTrailer
  <2>2. StartOf(1) = Promise!End(packets)
    BY DEF StartOf
  <2>3. Promise!End(packets) = job.frames
    BY <2>1, <2>2 DEF IInv, Cut
  <2>4. outcome = "pending" /\ outcome' = "ok" /\ UNCHANGED <<job, packets>>
    BY <1>3 DEF WriteTrailer
  <2>5. Promise!Return
    BY <2>3, <2>4, Zenon DEF Promise!Return
  <2> QED BY <2>5, Zenon DEF Promise!Next
<1>4. CASE Fail
  <2>1. chunk >= 0
    BY ChunkBounds DEF IInv, TypeOK
  <2>2. ~(chunk < 0)
    BY <2>1, Numbers DEF IInv
  <2>3. Failing = job.faulty
    BY <2>2 DEF Failing
  <2>4. job.faulty # {}
    BY <1>4, <2>3 DEF Fail
  <2>5. outcome = "pending" /\ outcome' = "err" /\ UNCHANGED <<job, packets>>
    BY <1>4, PcType DEF Fail
  <2>6. Promise!Fail
    BY <2>4, <2>5, Zenon DEF Promise!Fail
  <2> QED BY <2>6, Zenon DEF Promise!Next
<1>5. CASE UNCHANGED vars
  BY <1>1, <1>5 DEF vars
<1>6. CASE \/ Setup \/ Push \/ EncodeFull \/ NextChunk \/ LastChunkDone
           \/ SwrDrained \/ EncodeRest \/ RestDone \/ FlushEncoder
  BY <1>1, <1>6 DEF Setup, Push, EncodeFull, EncodeOne, NextChunk, LastChunkDone,
                    SwrDrained, EncodeRest, RestDone, FlushEncoder
<1>7. CASE \E n \in 1..Len(held) : DrainSwr(n)
  BY <1>1, <1>7 DEF DrainSwr
<1>8. CASE Drained
  <2>1. pc' \in {"frames", "rest", "trailer"} /\ pc \in Drains
    BY <1>8, PcType DEF Drained, Drains
  <2>2. UNCHANGED <<job, packets>>
    BY <1>8 DEF Drained
  <2> QED BY <1>1, <2>1, <2>2 DEF Drains
<1> QED BY <1>2, <1>3, <1>4, <1>5, <1>6, <1>7, <1>8 DEF Next, Returned

\* save() keeps its promise for every buffer of less than 2^31 frames, every
\* encoder and chunk size, every delay and every set of failing calls: the file
\* holds the buffer once, in order, in packets stamped without a gap, and only
\* a failing FFmpeg call makes an error (run_encode, encode_loop).  With longer
\* buffers it does not: the run encode_wide.
THEOREM SaveKeepsPromise ==
  ASSUME \A j \in Jobs : j.frames < Half
  PROVE  Spec => KeepsPromise
<1>1. Init => Promise!Init
  BY Zenon DEF Init, Promise!Init
<1>2. IInv /\ [Next]_vars => [Promise!Next]_Promise!promiseVars
  BY StepKeepsPromise
<1> QED BY <1>1, <1>2, Invariant, PTL DEF Spec, KeepsPromise, Promise!Spec
=============================================================================
