------------------------- MODULE WeightLayoutProofs -------------------------
(***************************************************************************)
(* The chunk layout is right for every matrix and every chunk size.        *)
(***************************************************************************)
EXTENDS WeightLayout, TLAPS

\* Two numbers written with the same base have the same digits.
LEMMA Digits ==
  ASSUME NEW b \in Nat \ {0}, NEW m \in Nat, NEW n \in Nat,
         NEW x \in 0..(b - 1), NEW y \in 0..(b - 1),
         m * b + x = n * b + y
  PROVE  m = n /\ x = y
<1>1. ~(m < n)
  <2>1. SUFFICES ASSUME m < n PROVE FALSE
    OBVIOUS
  <2>2. PICK d \in Nat : n = m + 1 + d
    <3>1. n - m - 1 \in Nat /\ n = m + 1 + (n - m - 1)
      BY <2>1
    <3>2. QED
      BY <3>1
  <2>3. n * b = m * b + b + d * b
    BY <2>2
  <2>4. d * b \in Nat /\ m * b \in Nat
    BY <2>2
  <2>5. QED
    BY <2>3, <2>4
<1>2. ~(n < m)
  <2>1. SUFFICES ASSUME n < m PROVE FALSE
    OBVIOUS
  <2>2. PICK d \in Nat : m = n + 1 + d
    <3>1. m - n - 1 \in Nat /\ m = n + 1 + (m - n - 1)
      BY <2>1
    <3>2. QED
      BY <3>1
  <2>3. m * b = n * b + b + d * b
    BY <2>2
  <2>4. d * b \in Nat /\ n * b \in Nat
    BY <2>2
  <2>5. QED
    BY <2>3, <2>4
<1>3. m = n
  BY <1>1, <1>2
<1>4. QED
  BY <1>3

\* Every number has its digits.
LEMMA DivMod ==
  ASSUME NEW b \in Nat \ {0}, NEW a \in Nat
  PROVE  a \div b \in Nat /\ a % b \in 0..(b - 1) /\ a = (a \div b) * b + (a % b)
BY SMT

\* And the higher one is bounded.
LEMMA HighDigit ==
  ASSUME NEW b \in Nat \ {0}, NEW m \in Nat, NEW n \in Nat, NEW x \in Nat,
         m * b + x < n * b
  PROVE  m < n
<1>1. SUFFICES ASSUME n <= m PROVE FALSE
  OBVIOUS
<1>2. (m - n) * b \in Nat /\ m * b = n * b + (m - n) * b
  <2>1. m - n \in Nat
    BY <1>1
  <2>2. QED
    BY <2>1
<1>3. QED
  BY <1>2

\* And the other way round.
LEMMA HighDigitFits ==
  ASSUME NEW b \in Nat \ {0}, NEW m \in Nat, NEW n \in Nat, m < n,
         NEW x \in 0..(b - 1)
  PROVE  m * b + x < n * b
<1>1. n - m - 1 \in Nat /\ n = m + 1 + (n - m - 1)
  OBVIOUS
<1>2. (n - m - 1) * b \in Nat /\ n * b = m * b + b + (n - m - 1) * b
  BY <1>1
<1>3. QED
  BY <1>2

\* The chunks cover the columns, and all but the last are full.
LEMMA ChunkCount ==
  ASSUME row_dim \in Rows, col_dim \in Cols
  PROVE  /\ col_chunk_num \in Nat \ {0}
         /\ col_dim <= col_chunk_num * CHUNK
         /\ (col_chunk_num - 1) * CHUNK < col_dim
<1> DEFINE q == col_dim \div CHUNK
           m == col_dim % CHUNK
<1>1. CHUNK \in Nat \ {0} /\ col_dim \in Nat \ {0}
  BY ChunkAssumption, DimAssumption
<1>2. q \in Nat /\ m \in 0..(CHUNK - 1) /\ col_dim = q * CHUNK + m
  BY <1>1, SMT
<1>3. CASE m # 0
  <2>1. (CHUNK * (q + 1)) \div CHUNK = q + 1
    BY <1>1, <1>2, SMT
  <2>2. col_chunk_num = q + 1
    BY <1>3, <2>1 DEF col_chunk_num
  <2>3. (q + 1) * CHUNK = q * CHUNK + CHUNK
    BY <1>1, <1>2
  <2>4. QED
    BY <1>1, <1>2, <1>3, <2>2, <2>3
<1>4. CASE m = 0
  <2>1. col_chunk_num = q
    BY <1>4 DEF col_chunk_num
  <2>2. (q - 1) * CHUNK = q * CHUNK - CHUNK
    BY <1>1, <1>2
  <2>3. q # 0
    BY <1>1, <1>2, <1>4
  <2>4. QED
    BY <1>1, <1>2, <1>4, <2>1, <2>2, <2>3
<1>5. QED
  BY <1>3, <1>4

-----------------------------------------------------------------------------
\* Where the loops are: dest_idx is the position of the element at hand, and
\* no counter is left over where a loop begins.
Counters ==
  /\ pc = "start" => i = 0 /\ j = 0 /\ k = 0 /\ dest_idx = 0
  /\ pc = "chunks" => col_dim > CHUNK
  /\ pc = "copy" => col_dim = CHUNK
  /\ pc = "unsupported" => Count = 0
  /\ pc = "done" => \/ col_dim > CHUNK /\ i = col_chunk_num
                    \/ col_dim = CHUNK /\ i = row_dim * col_dim
  /\ col_dim > CHUNK => /\ dest_idx = Position(i, j, k)
                        /\ i <= col_chunk_num
                        /\ j = row_dim => k = 0
                        /\ i = col_chunk_num => j = 0 /\ k = 0
  /\ col_dim = CHUNK => i <= row_dim * col_dim
  /\ col_dim < CHUNK => dest_idx = 0

IInv == TypeOK /\ Counters /\ InPlace

\* What every step needs to know of the dimensions.
LEMMA Dimensions ==
  ASSUME TypeOK
  PROVE  /\ CHUNK \in Nat \ {0} /\ row_dim \in Nat \ {0} /\ col_dim \in Nat \ {0}
         /\ col_chunk_num \in Nat \ {0}
         /\ col_dim <= col_chunk_num * CHUNK
         /\ (col_chunk_num - 1) * CHUNK < col_dim
BY ChunkCount, ChunkAssumption, DimAssumption DEF TypeOK

\* Different elements have different positions.
LEMMA PositionInjective ==
  ASSUME TypeOK, NEW c \in Nat, NEW r \in Row, NEW l \in Lane,
         NEW d \in Nat, NEW s \in Row, NEW m \in Lane,
         Position(c, r, l) = Position(d, s, m)
  PROVE  c = d /\ r = s /\ l = m
<1>1. CHUNK \in Nat \ {0} /\ row_dim \in Nat \ {0}
  BY Dimensions
<1>2. c * row_dim + r \in Nat /\ d * row_dim + s \in Nat
  BY <1>1 DEF Row
<1>3. c * row_dim + r = d * row_dim + s /\ l = m
  BY <1>1, <1>2, Digits DEF Position, Lane
<1>4. c = d /\ r = s
  BY <1>1, <1>3, Digits DEF Row
<1>5. QED
  BY <1>3, <1>4

\* Writing behind what is written keeps it.
LEMMA WriteKeeps ==
  ASSUME NEW d \in Nat, NEW x \in Nat \cup {ZERO},
         dst \in [0..(d - 1) -> Nat \cup {ZERO}], Write(d, x)
  PROVE  /\ dst' \in [0..d -> Nat \cup {ZERO}]
         /\ dst'[d] = x
         /\ \A e \in 0..(d - 1) : dst'[e] = dst[e]
BY DEF Write

\* The first call starts with nothing written.
LEMMA InitHolds == Init => IInv
<1> SUFFICES ASSUME Init PROVE IInv
  OBVIOUS
<1>1. TypeOK
  BY ChunkAssumption, DimAssumption DEF Init, TypeOK, Count
<1>2. row_dim \in Nat \ {0} /\ CHUNK \in Nat \ {0} /\ col_dim \in Nat \ {0}
      /\ col_chunk_num \in Nat \ {0}
  BY <1>1, Dimensions
<1>3. Counters
  BY <1>2 DEF Init, Counters, Position, Count
<1>4. InPlace
  <2>1. Count = 0
    BY DEF Init, Count
  <2>2. \A c \in Chunk, r \in Row, l \in Lane : Position(c, r, l) >= 0
    BY <1>2 DEF Chunk, Row, Lane, Position
  <2>3. \A c \in Chunk, r \in Row, l \in Lane : Position(c, r, l) \in Int
    BY <1>2 DEF Chunk, Row, Lane, Position
  <2>4. QED
    BY <2>1, <2>2, <2>3 DEF InPlace
<1>5. QED
  BY <1>1, <1>3, <1>4 DEF IInv

\* A step within a call leaves the dimensions, and so every position, alone.
Same == row_dim' = row_dim /\ col_dim' = col_dim

\* Where elements belong depends on nothing else.
LEMMA SamePlaces ==
  ASSUME Same
  PROVE  /\ col_chunk_num' = col_chunk_num
         /\ Chunk' = Chunk /\ Row' = Row /\ Lane' = Lane
         /\ \A c, r, l : Position(c, r, l)' = Position(c, r, l)
         /\ \A c, r, l : Element(c, r, l)' = Element(c, r, l)
BY DEF Same, col_chunk_num, Chunk, Row, Lane, Position, Element

\* A step that writes nothing keeps what is in place.
LEMMA KeepsPlace ==
  ASSUME InPlace, Same, dst' = dst, Count' = Count
  PROVE  InPlace'
BY SamePlaces DEF InPlace

\* A call enters the loops, the plain copy, or neither.
LEMMA StartKeeps == IInv /\ Start => IInv'
<1> SUFFICES ASSUME IInv, Start PROVE IInv'
  OBVIOUS
<1>1. Same /\ dst' = dst /\ Count' = Count
  BY DEF Start, Same, Count
<1>2. TypeOK'
  BY <1>1, DimAssumption, ChunkAssumption DEF IInv, TypeOK, Start
<1>3. Counters'
  BY <1>1, SamePlaces, Dimensions DEF IInv, Counters, Start, TypeOK, Count
<1>4. QED
  BY <1>1, <1>2, <1>3, KeepsPlace DEF IInv

\* The innermost loop writes the element its counters name, at dest_idx.
LEMMA CopyElementKeeps == IInv /\ CopyElement => IInv'
<1> SUFFICES ASSUME IInv, CopyElement PROVE IInv'
  OBVIOUS
<1> DEFINE x == IF i < col_chunk_num - 1 \/ i * CHUNK + k < col_dim
                THEN i * CHUNK + j * col_dim + k ELSE ZERO
<1>1. Same
  BY DEF CopyElement, Same
<1>2. /\ CHUNK \in Nat \ {0} /\ row_dim \in Nat \ {0} /\ col_dim \in Nat \ {0}
      /\ col_chunk_num \in Nat \ {0} /\ col_dim <= col_chunk_num * CHUNK
      /\ (col_chunk_num - 1) * CHUNK < col_dim
  BY Dimensions DEF IInv
<1>3. /\ i \in Chunk /\ j \in Row /\ k \in Lane /\ col_dim > CHUNK
      /\ dest_idx = Position(i, j, k) /\ Count = dest_idx
  BY <1>2 DEF IInv, TypeOK, Counters, CopyElement, Chunk, Row, Lane, Count
<1>4. x = Element(i, j, k)
  <2>1. i * CHUNK \in Int /\ j * col_dim \in Int /\ k \in Int
    BY <1>2, <1>3 DEF Chunk, Row, Lane
  <2>2. CASE i < col_chunk_num - 1
    <3>1. PICK d \in Nat : col_chunk_num - 1 = i + 1 + d
      <4>1. col_chunk_num - 1 - i - 1 \in Nat
        BY <1>2, <1>3, <2>2 DEF Chunk
      <4>2. col_chunk_num - 1 = i + 1 + (col_chunk_num - 1 - i - 1)
        BY <1>2, <1>3 DEF Chunk
      <4>3. QED
        BY <4>1, <4>2
    <3>2. (col_chunk_num - 1) * CHUNK = i * CHUNK + CHUNK + d * CHUNK
      BY <1>2, <1>3, <3>1 DEF Chunk
    <3>3. d * CHUNK \in Nat
      BY <1>2, <3>1
    <3>4. i * CHUNK + k < col_dim
      BY <1>2, <1>3, <2>1, <3>2, <3>3 DEF Lane
    <3>5. QED
      BY <2>1, <2>2, <3>4 DEF Element
  <2>3. CASE ~(i < col_chunk_num - 1)
    BY <2>1, <2>3 DEF Element
  <2>4. QED
    BY <2>2, <2>3
<1>5. x \in Nat \cup {ZERO}
  <2>1. i * CHUNK \in Nat /\ j * col_dim \in Nat /\ k \in Nat
    BY <1>2, <1>3 DEF Chunk, Row, Lane
  <2>2. QED
    BY <2>1
<1>6. /\ dst \in [0..(dest_idx - 1) -> Nat \cup {ZERO}]
      /\ dest_idx \in Nat /\ Write(dest_idx, x) /\ dest_idx' = dest_idx + 1
  BY <1>3 DEF IInv, TypeOK, CopyElement
<1>7. /\ dst' \in [0..dest_idx -> Nat \cup {ZERO}] /\ dst'[dest_idx] = x
      /\ \A e \in 0..(dest_idx - 1) : dst'[e] = dst[e]
  BY <1>5, <1>6, WriteKeeps
<1>8. Count' = dest_idx + 1
  BY <1>1, <1>2, <1>3, <1>6 DEF Same, Count
<1>9. TypeOK'
  <2>1. dst' \in [0..(Count' - 1) -> Nat \cup {ZERO}]
    BY <1>6, <1>7, <1>8
  <2>2. k' \in 0..CHUNK
    BY <1>2, <1>3 DEF CopyElement, Lane
  <2>3. QED
    BY <1>6, <2>1, <2>2 DEF IInv, TypeOK, CopyElement
<1>10. Counters'
  <2>1. Position(i, j, k + 1) = dest_idx + 1
    BY <1>2, <1>3 DEF Position, Chunk, Row, Lane
  <2>2. dest_idx' = Position(i, j, k)'
    BY <1>1, <1>6, <2>1 DEF CopyElement, Position, Same
  <2>3. j' # row_dim' /\ i' # col_chunk_num' /\ i' <= col_chunk_num'
    BY <1>1, <1>2, <1>3, SamePlaces DEF CopyElement, Chunk, Row, Same
  <2>4. pc' = "chunks" /\ col_dim' > CHUNK
    BY <1>1, <1>3 DEF CopyElement, Same
  <2>5. QED
    BY <1>2, <2>2, <2>3, <2>4, <1>1 DEF Counters, Same
<1>11. InPlace'
  <2>1. SUFFICES ASSUME NEW c \in Chunk, NEW r \in Row, NEW l \in Lane,
                        Position(c, r, l) < dest_idx + 1
                 PROVE  dst'[Position(c, r, l)] = Element(c, r, l)
    BY <1>1, <1>8, SamePlaces DEF InPlace
  <2>2. Position(c, r, l) \in Nat
    BY <1>2 DEF Chunk, Row, Lane, Position
  <2>3. CASE Position(c, r, l) < dest_idx
    BY <1>3, <1>6, <1>7, <2>2, <2>3 DEF IInv, InPlace
  <2>4. CASE Position(c, r, l) = dest_idx
    <3>1. c = i /\ r = j /\ l = k
      BY <1>3, <2>4, PositionInjective DEF IInv, Chunk
    <3>2. QED
      BY <1>4, <1>7, <2>4, <3>1
  <2>5. QED
    BY <1>6, <2>1, <2>2, <2>3, <2>4
<1>12. QED
  BY <1>9, <1>10, <1>11 DEF IInv

\* At the end of a row of a chunk, the next row begins.
LEMMA NextRowKeeps == IInv /\ NextRow => IInv'
<1> SUFFICES ASSUME IInv, NextRow PROVE IInv'
  OBVIOUS
<1>1. Same /\ dst' = dst /\ Count' = Count
  BY DEF NextRow, Same, Count
<1>2. /\ CHUNK \in Nat \ {0} /\ row_dim \in Nat \ {0} /\ col_dim \in Nat \ {0}
      /\ col_chunk_num \in Nat \ {0}
  BY Dimensions DEF IInv
<1>3. TypeOK'
  BY <1>1, <1>2 DEF IInv, TypeOK, NextRow
<1>4. Counters'
  <2>1. i \in Nat /\ j \in Nat /\ j < row_dim /\ i < col_chunk_num /\ k = CHUNK
    BY DEF IInv, TypeOK, NextRow
  <2>2. (i * row_dim + (j + 1)) * CHUNK + 0 = (i * row_dim + j) * CHUNK + CHUNK
    BY <1>2, <2>1
  <2>3. dest_idx' = Position(i, j, k)'
    BY <1>1, <2>1, <2>2 DEF IInv, Counters, NextRow, Position, Same
  <2>4. /\ k' = 0 /\ i' # col_chunk_num' /\ i' <= col_chunk_num' /\ pc' = "chunks"
        /\ col_dim' > CHUNK
    BY <1>1, <1>2, <2>1, SamePlaces DEF IInv, Counters, NextRow, Same
  <2>5. QED
    BY <1>1, <1>2, <2>3, <2>4 DEF Counters, Same
<1>5. QED
  BY <1>1, <1>3, <1>4, KeepsPlace DEF IInv

\* At the end of a chunk, the next chunk begins.
LEMMA NextChunkKeeps == IInv /\ NextChunk => IInv'
<1> SUFFICES ASSUME IInv, NextChunk PROVE IInv'
  OBVIOUS
<1>1. Same /\ dst' = dst /\ Count' = Count
  <2>1. col_dim > CHUNK /\ CHUNK \in Nat /\ col_dim \in Nat
    BY Dimensions DEF IInv, Counters, NextChunk
  <2>2. QED
    BY <2>1 DEF NextChunk, Same, Count
<1>2. /\ CHUNK \in Nat \ {0} /\ row_dim \in Nat \ {0} /\ col_dim \in Nat \ {0}
      /\ col_chunk_num \in Nat \ {0}
  BY Dimensions DEF IInv
<1>3. TypeOK'
  BY <1>1, <1>2 DEF IInv, TypeOK, NextChunk
<1>4. Counters'
  <2>1. i \in Nat /\ j = row_dim /\ i < col_chunk_num /\ k = 0 /\ col_dim > CHUNK
    BY DEF IInv, TypeOK, Counters, NextChunk
  <2>2. ((i + 1) * row_dim + 0) * CHUNK + 0 = (i * row_dim + row_dim) * CHUNK + 0
    BY <1>2, <2>1
  <2>3. dest_idx' = Position(i, j, k)'
    BY <1>1, <2>1, <2>2 DEF IInv, Counters, NextChunk, Position, Same
  <2>4. /\ k' = 0 /\ j' = 0 /\ i' <= col_chunk_num' /\ pc' = "chunks"
        /\ col_dim' > CHUNK
    BY <1>1, <1>2, <2>1, SamePlaces DEF NextChunk, Same
  <2>5. QED
    BY <1>1, <1>2, <2>3, <2>4 DEF Counters, Same
<1>5. QED
  BY <1>1, <1>3, <1>4, KeepsPlace DEF IInv

\* A matrix one chunk wide is copied element by element.
LEMMA CopyPlainKeeps == IInv /\ CopyPlain => IInv'
<1> SUFFICES ASSUME IInv, CopyPlain PROVE IInv'
  OBVIOUS
<1>1. Same
  BY DEF CopyPlain, Same
<1>2. /\ CHUNK \in Nat \ {0} /\ row_dim \in Nat \ {0} /\ col_dim \in Nat \ {0}
      /\ col_chunk_num \in Nat \ {0} /\ (col_chunk_num - 1) * CHUNK < col_dim
  BY Dimensions DEF IInv
<1>3. col_dim = CHUNK /\ Count = i /\ i \in Nat /\ i < row_dim * col_dim
  BY DEF IInv, TypeOK, Counters, CopyPlain, Count
<1>4. Count' = i + 1
  BY <1>1, <1>3 DEF CopyPlain, Same, Count
<1>5. /\ dst' \in [0..i -> Nat \cup {ZERO}] /\ dst'[i] = i
      /\ \A e \in 0..(i - 1) : dst'[e] = dst[e]
  BY <1>3, WriteKeeps DEF IInv, TypeOK, CopyPlain
<1>6. TypeOK'
  <2>1. dst' \in [0..(Count' - 1) -> Nat \cup {ZERO}]
    BY <1>3, <1>4, <1>5
  <2>2. QED
    BY <1>3, <2>1 DEF IInv, TypeOK, CopyPlain
<1>7. Counters'
  <2>1. row_dim * col_dim \in Nat
    BY <1>2
  <2>2. QED
    BY <1>1, <1>2, <1>3, <2>1 DEF IInv, Counters, CopyPlain, Same
<1>8. InPlace'
  <2>1. SUFFICES ASSUME NEW c \in Chunk, NEW r \in Row, NEW l \in Lane,
                        Position(c, r, l) < i + 1
                 PROVE  dst'[Position(c, r, l)] = Element(c, r, l)
    BY <1>1, <1>4, SamePlaces DEF InPlace
  <2>2. Position(c, r, l) \in Nat
    BY <1>2 DEF Chunk, Row, Lane, Position
  <2>3. CASE Position(c, r, l) < i
    BY <1>3, <1>5, <2>2, <2>3 DEF IInv, InPlace
  <2>4. CASE Position(c, r, l) = i
    <3>1. col_chunk_num = 1
      <4>1. SUFFICES ASSUME col_chunk_num # 1 PROVE FALSE
        OBVIOUS
      <4>2. col_chunk_num - 2 \in Nat
        BY <1>2, <4>1
      <4>3. (col_chunk_num - 1) * CHUNK = (col_chunk_num - 2) * CHUNK + CHUNK
        BY <1>2
      <4>4. (col_chunk_num - 2) * CHUNK \in Nat
        BY <1>2, <4>2
      <4>5. QED
        BY <1>2, <1>3, <4>3, <4>4
    <3>2. c = 0 /\ r \in Nat /\ l \in Nat /\ l < CHUNK
      BY <1>2, <3>1 DEF Chunk, Row, Lane
    <3>3. Position(0, r, l) = r * CHUNK + l
      BY <1>2, <3>2 DEF Position
    <3>4. Element(0, r, l) = r * CHUNK + l
      <4>1. 0 * CHUNK + l = l /\ l < col_dim /\ r * col_dim = r * CHUNK
        BY <1>2, <1>3, <3>2
      <4>2. QED
        BY <4>1 DEF Element
    <3>5. QED
      BY <1>5, <2>4, <3>2, <3>3, <3>4
  <2>5. QED
    BY <1>3, <2>1, <2>2, <2>3, <2>4
<1>9. QED
  BY <1>6, <1>7, <1>8 DEF IInv

\* The loops end.
LEMMA ReturnKeeps == IInv /\ Return => IInv'
<1> SUFFICES ASSUME IInv, Return PROVE IInv'
  OBVIOUS
<1>1. Same /\ dst' = dst /\ Count' = Count
  BY DEF Return, Same, Count
<1>2. TypeOK'
  BY <1>1 DEF IInv, TypeOK, Return
<1>3. Counters'
  BY <1>1, SamePlaces, Dimensions DEF IInv, Counters, Return, Same, Position
<1>4. QED
  BY <1>1, <1>2, <1>3, KeepsPlace DEF IInv

\* Another matrix begins as the first one did.
LEMMA AgainKeeps == IInv /\ Again => IInv'
<1>1. Again => Init'
  BY DEF Again, Init
<1>2. Init' => IInv'
  BY InitHolds, PTL
<1>3. QED
  BY <1>1, <1>2

\* Nothing happens.
LEMMA StutterKeeps == IInv /\ UNCHANGED vars => IInv'
<1> SUFFICES ASSUME IInv, UNCHANGED vars PROVE IInv'
  OBVIOUS
<1>1. Same /\ dst' = dst /\ Count' = Count
  BY DEF vars, Same, Count
<1>2. TypeOK'
  BY <1>1 DEF IInv, TypeOK, vars
<1>3. Counters'
  BY <1>1, SamePlaces DEF IInv, Counters, vars, Same, Position
<1>4. QED
  BY <1>1, <1>2, <1>3, KeepsPlace DEF IInv

\* IInv is an invariant of every call.
LEMMA Invariance == Spec => []IInv
<1>1. IInv /\ [Next]_vars => IInv'
  BY StartKeeps, CopyElementKeeps, NextRowKeeps, NextChunkKeeps, CopyPlainKeeps,
     ReturnKeeps, AgainKeeps, StutterKeeps DEF Next
<1>2. QED
  BY InitHolds, <1>1, PTL DEF Spec

\* The counters and the destination of wgt_align_chunk keep their types.
THEOREM TypeCorrect == Spec => []TypeOK
<1>1. IInv => TypeOK
  BY DEF IInv
<1>2. QED
  BY Invariance, <1>1, PTL

\* Whatever wgt_align_chunk has written is where the chunk layout has it, for
\* every matrix and every chunk size.
THEOREM LayoutCorrect == Spec => []InPlace
<1>1. IInv => InPlace
  BY DEF IInv
<1>2. QED
  BY Invariance, <1>1, PTL

\* When it returns normally it has filled the padded matrix and no more.
THEOREM FilledCorrect == Spec => []Filled
<1>1. IInv => Filled
  <2>1. SUFFICES ASSUME IInv, pc = "done"
                 PROVE  Count = (col_chunk_num * row_dim) * CHUNK
    BY DEF Filled
  <2>2. /\ CHUNK \in Nat \ {0} /\ row_dim \in Nat \ {0} /\ col_dim \in Nat \ {0}
        /\ col_chunk_num \in Nat \ {0}
    BY <2>1, Dimensions DEF IInv
  <2>3. CASE col_dim > CHUNK
    BY <2>1, <2>2, <2>3 DEF IInv, Counters, Count, Position
  <2>4. CASE col_dim = CHUNK
    <3>1. col_chunk_num = 1
      BY <2>2, <2>4, SMT DEF col_chunk_num
    <3>2. Count = row_dim * CHUNK
      BY <2>1, <2>2, <2>4 DEF IInv, Counters, Count
    <3>3. QED
      BY <2>2, <3>1, <3>2
  <2>5. QED
    BY <2>1, <2>3, <2>4 DEF IInv, Counters
<1>2. QED
  BY Invariance, <1>1, PTL

\* Every position of the padded matrix is that of some element.
LEMMA PositionOnto ==
  ASSUME TypeOK, NEW f \in Nat, f < (col_chunk_num * row_dim) * CHUNK
  PROVE  \E c \in Chunk, r \in Row, l \in Lane : f = Position(c, r, l)
<1> DEFINE g == f \div CHUNK
           l == f % CHUNK
           c == g \div row_dim
           r == g % row_dim
<1>1. CHUNK \in Nat \ {0} /\ row_dim \in Nat \ {0} /\ col_chunk_num \in Nat \ {0}
  BY Dimensions
<1>2. g \in Nat /\ l \in 0..(CHUNK - 1) /\ f = g * CHUNK + l
  BY <1>1, DivMod
<1>3. c \in Nat /\ r \in 0..(row_dim - 1) /\ g = c * row_dim + r
  BY <1>1, <1>2, DivMod
<1>4. g < col_chunk_num * row_dim
  <2>1. col_chunk_num * row_dim \in Nat
    BY <1>1
  <2> HIDE DEF g, l
  <2>2. QED
    BY <1>1, <1>2, <2>1, HighDigit
<1>5. c < col_chunk_num
  <2> HIDE DEF g, c, r
  <2>1. QED
    BY <1>1, <1>3, <1>4, HighDigit
<1>6. f = Position(c, r, l)
  BY <1>2, <1>3 DEF Position
<1>7. QED
  BY <1>1, <1>2, <1>3, <1>5, <1>6 DEF Chunk, Row, Lane

\* wgt_align_chunk neither loses nor duplicates a weight.
THEOREM EveryWeightCorrect == Spec => []EveryWeightOnce
<1>1. IInv /\ Filled => EveryWeightOnce
  <2>1. SUFFICES ASSUME IInv, Filled, pc = "done",
                        NEW e \in 0..(row_dim * col_dim - 1)
                 PROVE  \E d \in DOMAIN dst :
                          dst[d] = e /\ \A f \in DOMAIN dst : dst[f] = e => f = d
    BY DEF EveryWeightOnce
  <2> DEFINE r == e \div col_dim
             col == e % col_dim
             c == col \div CHUNK
             l == col % CHUNK
             d == Position(c, r, l)
  <2>2. /\ CHUNK \in Nat \ {0} /\ row_dim \in Nat \ {0} /\ col_dim \in Nat \ {0}
        /\ col_chunk_num \in Nat \ {0} /\ col_dim <= col_chunk_num * CHUNK
        /\ TypeOK
    BY <2>1, Dimensions DEF IInv
  <2>3. e \in Nat /\ e < row_dim * col_dim /\ row_dim * col_dim \in Nat
    BY <2>2
  <2>4. r \in Nat /\ col \in 0..(col_dim - 1) /\ e = r * col_dim + col
    BY <2>2, <2>3, DivMod
  <2>5. c \in Nat /\ l \in 0..(CHUNK - 1) /\ col = c * CHUNK + l
    <3>1. col \in Nat
      BY <2>2, <2>4
    <3> HIDE DEF col
    <3>2. QED
      BY <2>2, <3>1, DivMod
  <2>6. r < row_dim
    <3> HIDE DEF r, col
    <3>1. QED
      BY <2>2, <2>3, <2>4, HighDigit
  <2>7. c < col_chunk_num
    <3> HIDE DEF c, l, col
    <3>1. c * CHUNK + l < col_chunk_num * CHUNK
      <4>1. col_chunk_num * CHUNK \in Nat
        BY <2>2
      <4>2. QED
        BY <2>2, <2>4, <2>5, <4>1
    <3>2. QED
      BY <2>2, <2>5, <3>1, HighDigit
  <2>8. c \in Chunk /\ r \in Row /\ l \in Lane
    BY <2>2, <2>4, <2>5, <2>6, <2>7 DEF Chunk, Row, Lane
  <2>9. Element(c, r, l) = e
    <3> HIDE DEF c, l, r, col
    <3>1. c * CHUNK + l < col_dim
      BY <2>2, <2>4, <2>5
    <3>2. r * col_dim + (c * CHUNK + l) = e
      BY <2>4, <2>5
    <3>3. QED
      BY <3>1, <3>2 DEF Element
  <2>10. Count = (col_chunk_num * row_dim) * CHUNK /\ DOMAIN dst = 0..(Count - 1)
    BY <2>1, <2>2 DEF Filled, TypeOK
  <2>11. Count \in Nat
    <3>1. col_chunk_num * row_dim \in Nat
      BY <2>2
    <3>2. QED
      BY <2>2, <2>10, <3>1
  <2>12. d \in Nat /\ d < Count
    <3> HIDE DEF c, l, r
    <3>1. c * row_dim + r < col_chunk_num * row_dim
      BY <2>2, <2>4, <2>5, <2>6, <2>7, HighDigitFits
    <3>2. c * row_dim + r \in Nat /\ col_chunk_num * row_dim \in Nat
      BY <2>2, <2>4, <2>5
    <3>3. (c * row_dim + r) * CHUNK + l < (col_chunk_num * row_dim) * CHUNK
      BY <2>2, <2>5, <3>1, <3>2, HighDigitFits
    <3>4. QED
      BY <2>2, <2>5, <2>10, <3>2, <3>3 DEF Position
  <2>13. dst[d] = e
    BY <2>1, <2>8, <2>9, <2>12 DEF IInv, InPlace
  <2>14. ASSUME NEW f \in DOMAIN dst, dst[f] = e PROVE f = d
    <3>1. f \in Nat /\ f < Count
      BY <2>10, <2>11
    <3>2. PICK c2 \in Chunk, r2 \in Row, l2 \in Lane : f = Position(c2, r2, l2)
      BY <2>2, <2>10, <3>1, PositionOnto
    <3>3. Element(c2, r2, l2) = e
      BY <2>1, <2>14, <3>1, <3>2 DEF IInv, InPlace
    <3>4. c2 \in Nat /\ r2 \in Nat /\ l2 \in 0..(CHUNK - 1) /\ c2 * CHUNK + l2 \in Nat
      BY <2>2 DEF Chunk, Row, Lane
    <3>5. c2 * CHUNK + l2 < col_dim /\ e = r2 * col_dim + (c2 * CHUNK + l2)
      BY <2>3, <3>3, ZeroAssumption DEF Element
    <3>6. r2 = r /\ c2 * CHUNK + l2 = col
      <4> HIDE DEF r, col
      <4>1. c2 * CHUNK + l2 \in 0..(col_dim - 1)
        BY <2>2, <3>4, <3>5
      <4>2. QED
        BY <2>2, <2>4, <3>4, <3>5, <4>1, Digits
    <3>7. c2 = c /\ l2 = l
      <4> HIDE DEF c, l, col
      <4>1. QED
        BY <2>2, <2>5, <3>4, <3>6, Digits
    <3>8. QED
      BY <3>2, <3>6, <3>7
  <2>15. d \in DOMAIN dst
    BY <2>10, <2>11, <2>12
  <2> HIDE DEF d
  <2>16. QED
    BY <2>13, <2>14, <2>15
<1>2. QED
  BY Invariance, FilledCorrect, <1>1, PTL
=============================================================================
