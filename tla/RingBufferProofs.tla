-------------------------- MODULE RingBufferProofs ---------------------------
(***************************************************************************)
(* Proofs about RingBuffer for every Size, when the writer is the          *)
(* interrupt: the use the console makes of rx_buffer.  (When the reader is *)
(* the interrupt the properties do not hold: run ring_tx.)                 *)
(***************************************************************************)
EXTENDS RingBuffer, SequenceTheorems, TLAPS

WriterInCall == w.pc \notin {"idle", "wrap"}
ReaderInCall == r.pc \notin {"idle", "wrap"}

\* Bytes in the buffer
Used == GetFull(In, Out)

\* Where an index may stand outside the cells, and where it has restarted.
Indices ==
    /\ In = Size => w.pc \in {"restart", "wrap"} /\ Out # 0 /\ Out # Size
    /\ w.pc = "restart" => In = Size
    /\ w.pc \in {"copyRest", "advanceRest"} => In = 0 /\ Out # 0
    /\ Out = Size => r.pc \in {"restart", "wrap"}
    /\ r.pc = "restart" => Out = Size
    /\ r.pc \in {"copyRest", "advanceRest"} => Out = 0

\* What a side measured when its call began is still there.
Room == IF WriterInCall THEN w.count \in 1..GetFree(In, Out) ELSE w.count = 0
Stock == IF ReaderInCall THEN r.count \in 1..Used ELSE r.count = 0

\* The cells from Out to In hold the bytes that follow those the reader got.
Contents ==
    /\ written = Len(got) + Used
    /\ \A k \in 0..(Size - 1) : k < Used => Buffer[Cell(Out, k)] = Len(got) + k + 1

\* What the writer has copied and not made visible yet
Filled ==
    /\ w.pc = "advance" =>
         \A k \in 0..(Size - 1) : k < ToCopy(In, w.count) => Buffer[Cell(In, k)] = written + k + 1
    /\ w.pc = "advanceRest" =>
         \A k \in 0..(Size - 1) : k < w.count => Buffer[Cell(In, k)] = written + k + 1

\* What the reader has copied and not released yet
Copied ==
    /\ r.pc = "advance" =>
         r.data = [i \in 1..ToCopy(Out, r.count) |-> Len(got) + i]
    /\ r.pc = "advanceRest" =>
         r.data = [i \in 1..r.count |-> Len(got) + i]

RingInv == /\ TypeOK
           /\ Indices
           /\ Room /\ Stock
           /\ Contents
           /\ Filled
           /\ Copied
           /\ ReadsWhatWasWritten

-----------------------------------------------------------------------------
LEMMA SizeFact == Size \in Nat /\ Size > 1
  BY SizeAssumption

-----------------------------------------------------------------------------
(* Arithmetic of the indices. *)

LEMMA CellType ==
    ASSUME NEW index \in 0..Size, NEW k \in Cells
    PROVE  Cell(index, k) \in Cells
  BY SizeFact DEF Cell, Cells

\* The free cells and the used ones are all cells but one.
LEMMA FreeAndFull ==
    ASSUME NEW in \in 0..Size, NEW out \in 0..Size
    PROVE  /\ GetFree(in, out) = Size - 1 - GetFull(in, out)
           /\ GetFull(in, out) \in 0..Size
  BY SizeFact DEF GetFree, GetFull

\* The cells behind In follow the used ones behind Out.
LEMMA CellAfterUsed ==
    ASSUME NEW in \in 0..Size, NEW out \in 0..Size, NEW k \in Nat,
           k < GetFree(in, out)
    PROVE  Cell(in, k) = Cell(out, GetFull(in, out) + k)
  BY SizeFact DEF Cell, GetFull, GetFree

\* Moving an index by n skips n cells.
LEMMA CellAdvance ==
    ASSUME NEW index \in 0..Size, NEW n \in 0..Size, index + n <= Size, NEW k \in Nat
    PROVE  Cell(index + n, k) = Cell(index, n + k)
  BY SizeFact DEF Cell

LEMMA CellWrap ==
    ASSUME NEW k \in Cells
    PROVE  Cell(Size, k) = Cell(0, k) /\ Cell(0, k) = k
  BY SizeFact DEF Cell, Cells

LEMMA CellDistinct ==
    ASSUME NEW index \in 0..Size, NEW j \in Cells, NEW k \in Cells, j # k
    PROVE  Cell(index, j) # Cell(index, k)
  BY SizeFact DEF Cell, Cells

\* Before the end of the buffer a cell is reached by adding.
LEMMA CellDirect ==
    ASSUME NEW index \in 0..Size, NEW k \in Nat, index + k < Size
    PROVE  Cell(index, k) = index + k /\ index + k \in Cells
  BY SizeFact DEF Cell, Cells

LEMMA CellsApart ==
    ASSUME NEW in \in 0..Size, NEW out \in 0..Size, NEW k \in Nat, NEW n \in Nat,
           k < GetFull(in, out), n <= GetFree(in, out), in + n <= Size
    PROVE  Cell(out, k) \notin in..(in + n - 1)
  BY SizeFact DEF Cell, GetFull, GetFree

LEMMA FullGrows ==
    ASSUME NEW in \in 0..Size, NEW out \in 0..Size, NEW n \in Nat,
           n <= GetFree(in, out), in + n <= Size
    PROVE  GetFull(in + n, out) = GetFull(in, out) + n
  BY SizeFact DEF GetFull, GetFree

LEMMA FullShrinks ==
    ASSUME NEW in \in 0..Size, NEW out \in 0..Size, NEW n \in Nat,
           n <= GetFull(in, out), out + n <= Size, in # Size
    PROVE  GetFull(in, out + n) = GetFull(in, out) - n
  BY SizeFact DEF GetFull

LEMMA SplitIndex ==
    ASSUME NEW k \in Cells, NEW u \in Nat, NEW n \in Nat, k < u + n, k >= u
    PROVE  k - u \in Cells /\ k - u \in Nat /\ k - u < n /\ u + (k - u) = k
  BY SizeFact DEF Cells

LEMMA SmallerFact ==
    ASSUME NEW a \in Nat, NEW b \in Nat, a # 0, b # 0
    PROVE  Smaller(a, b) \in 1..b
  BY DEF Smaller

LEMMA FreeIsNat ==
    ASSUME NEW in \in 0..Size, NEW out \in 0..Size, in # Size
    PROVE  GetFree(in, out) \in Nat
  BY SizeFact DEF GetFree

\* An index reaches the end only while the other one is inside.
LEMMA EndReached ==
    ASSUME NEW in \in 0..Size, NEW out \in 0..Size, NEW n \in Nat,
           n <= GetFree(in, out), in + n = Size, in # Size
    PROVE  out # 0 /\ out # Size
  BY SizeFact DEF GetFree

LEMMA InRange ==
    ASSUME NEW a \in Nat, NEW k \in Nat, NEW n \in Nat, k < n
    PROVE  a + k \in a..(a + n - 1)
  OBVIOUS

LEMMA NumberFact ==
    ASSUME NEW a \in Nat, NEW n \in Nat, NEW v \in Nat, NEW c \in a..(a + n - 1)
    PROVE  v + 1 + (c - a) \in Nat
  OBVIOUS

LEMMA PieceType ==
    ASSUME NEW m \in Nat, NEW n \in Nat
    PROVE  [i \in 1..n |-> m + i] \in Seq(Nat)
  OBVIOUS

LEMMA SumBelow ==
    ASSUME NEW k \in Nat, NEW n \in Nat, NEW u \in 0..Size, k < u - n
    PROVE  n + k \in 0..(Size - 1) /\ n + k < u
  BY SizeFact

LEMMA Less ==
    ASSUME NEW k \in Nat, NEW n \in Nat, NEW m \in Int, k < n, n <= m
    PROVE  k < m
  OBVIOUS

LEMMA ToCopyFact ==
    ASSUME NEW index \in 0..Size, NEW count \in Nat
    PROVE  /\ ToCopy(index, count) \in 0..Size
           /\ ToCopy(index, count) <= count
           /\ index + ToCopy(index, count) <= Size
           /\ ToCopy(index, count) < count => index + ToCopy(index, count) = Size
  BY SizeFact DEF ToCopy, Smaller

\* got holds the numbers 1, 2, ...: a piece that goes on counting keeps it so.
LEMMA AppendPiece ==
    ASSUME NEW s \in Seq(Nat), NEW n \in Nat, \A i \in 1..Len(s) : s[i] = i
    PROVE  LET t == s \o [i \in 1..n |-> Len(s) + i]
           IN  /\ t \in Seq(Nat) /\ Len(t) = Len(s) + n
               /\ \A i \in 1..Len(t) : t[i] = i
  <1> DEFINE p == [i \in 1..n |-> Len(s) + i]
  <1>0. Len(s) \in Nat
    OBVIOUS
  <1>1. p \in Seq(Nat) /\ Len(p) = n /\ \A i \in 1..n : p[i] = Len(s) + i
    BY <1>0
  <1> HIDE DEF p
  <1>2. /\ s \o p \in Seq(Nat) /\ Len(s \o p) = Len(s) + n
        /\ \A i \in 1..(Len(s) + n) : (s \o p)[i] = IF i <= Len(s) THEN s[i] ELSE p[i - Len(s)]
    BY <1>1, ConcatProperties
  <1>3. ASSUME NEW i \in 1..(Len(s) + n) PROVE (s \o p)[i] = i
    BY <1>0, <1>1, <1>2
  <1> QED BY <1>1, <1>2, <1>3 DEF p

LEMMA TypeFacts ==
    ASSUME TypeOK
    PROVE  /\ In \in 0..Size /\ Out \in 0..Size /\ In \in Nat /\ Out \in Nat
           /\ w.pc \in Places /\ w.count \in Nat
           /\ r.pc \in Places /\ r.count \in Nat /\ r.data \in Seq(Nat)
           /\ w = [pc |-> w.pc, count |-> w.count]
           /\ r = [pc |-> r.pc, count |-> r.count, data |-> r.data]
           /\ written \in Nat /\ got \in Seq(Nat) /\ Len(got) \in Nat
           /\ Buffer \in [Cells -> Nat]
           /\ Used \in 0..Size /\ GetFree(In, Out) = Size - 1 - Used
  <1>1. In \in 0..Size /\ Out \in 0..Size /\ Buffer \in [Cells -> Nat]
        /\ written \in Nat /\ got \in Seq(Nat) /\ Len(got) \in Nat
    BY DEF TypeOK
  <1>2. /\ w.pc \in Places /\ w.count \in Nat
        /\ w = [pc |-> w.pc, count |-> w.count]
    BY DEF TypeOK
  <1>3. /\ r.pc \in Places /\ r.count \in Nat /\ r.data \in Seq(Nat)
        /\ r = [pc |-> r.pc, count |-> r.count, data |-> r.data]
    BY DEF TypeOK
  <1>4. Used \in 0..Size /\ GetFree(In, Out) = Size - 1 - Used
    BY <1>1, FreeAndFull DEF Used
  <1> QED BY <1>1, <1>2, <1>3, <1>4, SizeFact

LEMMA TypeOK_From ==
    ASSUME Buffer' \in [Cells -> Nat], In' \in 0..Size, Out' \in 0..Size,
           written' \in Nat, got' \in Seq(Nat),
           NEW wpc \in Places, NEW wcount \in Nat, w' = [pc |-> wpc, count |-> wcount],
           NEW rpc \in Places, NEW rcount \in Nat, NEW rdata \in Seq(Nat),
           r' = [pc |-> rpc, count |-> rcount, data |-> rdata]
    PROVE  TypeOK'
  BY DEF TypeOK

LEMMA RingInit == Init => RingInv
  <1> SUFFICES ASSUME Init PROVE RingInv
    OBVIOUS
  <1> USE SizeFact DEF Init
  <1>1. TypeOK
    BY DEF TypeOK, Cells, Places
  <1>2. Indices /\ Room /\ Stock /\ Filled /\ Copied /\ ReadsWhatWasWritten
    BY DEF Indices, Room, Stock, WriterInCall, ReaderInCall, Filled, Copied, ReadsWhatWasWritten
  <1>3. Contents
    BY DEF Contents, Used, GetFull
  <1> QED BY <1>1, <1>2, <1>3 DEF RingInv

-----------------------------------------------------------------------------
(* The writer's statements, which may fall between any two of the reader's. *)

LEMMA WriteCallKeeps ==
    ASSUME RingInv, NEW n \in 1..Size, WriteCall(n)
    PROVE  RingInv'
  <1> USE SizeFact, TypeFacts DEF WriteCall, RingInv
  <1>1. In' = In /\ Wrapped(In) = In
    BY DEF Indices, Wrapped
  <1> DEFINE free == GetFree(In, Out)
  <1>2. \/ w' = w
        \/ w' = [pc |-> "copy", count |-> w'.count] /\ w'.count \in 1..free
    <2>1. w' = IF free = 0 THEN w ELSE [pc |-> "copy", count |-> Smaller(n, free)]
      BY <1>1
    <2>2. ASSUME free # 0 PROVE Smaller(n, free) \in 1..free
      <3>1. free \in Nat
        <4>1. w.pc = "idle" /\ In # Size
          BY DEF Indices
        <4> QED BY <4>1, FreeIsNat
      <3>2. n \in Nat /\ n # 0
        OBVIOUS
      <3> HIDE DEF free
      <3> QED BY <2>2, <3>1, <3>2, SmallerFact
    <2> QED BY <2>1, <2>2
  <1>3. TypeOK'
    BY <1>1, <1>2 DEF TypeOK, Places
  <1>4. Indices' /\ Room' /\ Stock'
    BY <1>1, <1>2 DEF Indices, Room, Stock, WriterInCall, ReaderInCall, Used
  <1>5. Contents' /\ Filled' /\ Copied' /\ ReadsWhatWasWritten'
    BY <1>1, <1>2 DEF Contents, Used, Filled, Copied, ReadsWhatWasWritten
  <1> QED BY <1>3, <1>4, <1>5

\* A copy into cells behind In leaves the used ones alone and fills its own.
LEMMA CopyInFacts ==
    ASSUME RingInv, NEW n \in Nat, n <= GetFree(In, Out), In + n <= Size,
           Buffer' = CopyIn(In, n)
    PROVE  /\ Buffer' \in [Cells -> Nat]
           /\ \A k \in Cells : k < Used => Buffer'[Cell(Out, k)] = Buffer[Cell(Out, k)]
           /\ \A k \in Cells : k < n => Buffer'[Cell(In, k)] = written + k + 1
  <1> USE SizeFact, TypeFacts DEF RingInv
  <1>1. Buffer' \in [Cells -> Nat]
    <2>1. ASSUME NEW c \in Cells, c \in In..(In + n - 1) PROVE written + 1 + (c - In) \in Nat
      BY <2>1, NumberFact
    <2>2. ASSUME NEW c \in Cells PROVE Buffer[c] \in Nat
      OBVIOUS
    <2> QED BY <2>1, <2>2 DEF CopyIn
  <1>2. ASSUME NEW k \in Cells, k < Used
        PROVE  Buffer'[Cell(Out, k)] = Buffer[Cell(Out, k)]
    <2>1. Cell(Out, k) \in Cells
      BY CellType
    <2>2. Cell(Out, k) \notin In..(In + n - 1)
      <3>1. k \in Nat
        BY DEF Cells
      <3> QED BY <1>2, <3>1, CellsApart DEF Used
    <2> QED BY <2>1, <2>2 DEF CopyIn
  <1>3. ASSUME NEW k \in Cells, k < n
        PROVE  Buffer'[Cell(In, k)] = written + k + 1
    <2>1. Cell(In, k) = In + k /\ In + k \in Cells /\ In + k \in In..(In + n - 1)
      <3>1. k \in Nat /\ In + k < Size
        BY <1>3, SMTT(30) DEF Cells
      <3>2. In + k \in In..(In + n - 1)
        BY <1>3, <3>1, InRange
      <3> QED BY <3>1, <3>2, CellDirect
    <2>2. Buffer'[In + k] = written + 1 + ((In + k) - In)
      BY <2>1 DEF CopyIn
    <2>3. written + 1 + ((In + k) - In) = written + k + 1
      BY SMTT(30) DEF Cells
    <2> QED BY <2>1, <2>2, <2>3
  <1> QED BY <1>1, <1>2, <1>3

LEMMA WriteCopyKeeps ==
    ASSUME RingInv, WriteCopy
    PROVE  RingInv'
  <1> USE SizeFact, TypeFacts DEF WriteCopy, RingInv
  <1> DEFINE n == ToCopy(In, w.count)
  <1>0. n \in Nat /\ n <= GetFree(In, Out) /\ In + n <= Size
    BY ToCopyFact DEF Room, WriterInCall
  <1>1. /\ Buffer' \in [Cells -> Nat]
        /\ \A k \in Cells : k < Used => Buffer'[Cell(Out, k)] = Buffer[Cell(Out, k)]
        /\ \A k \in Cells : k < n => Buffer'[Cell(In, k)] = written + k + 1
    BY <1>0, CopyInFacts
  <1>2. w' = [pc |-> "advance", count |-> w.count]
    OBVIOUS
  <1>3. TypeOK'
    BY <1>1, <1>2 DEF TypeOK, Places
  <1>4. Indices' /\ Room' /\ Stock'
    BY <1>2 DEF Indices, Room, Stock, WriterInCall, ReaderInCall, Used
  <1>5. Contents'
    BY <1>1 DEF Contents, Used, Cell, Cells
  <1>6. Filled'
    BY <1>1, <1>2 DEF Filled, Cells, Cell, ToCopy
  <1>7. Copied' /\ ReadsWhatWasWritten'
    BY DEF Copied, ReadsWhatWasWritten
  <1> QED BY <1>3, <1>4, <1>5, <1>6, <1>7

\* The bytes that were copied become visible.
LEMMA PublishFacts ==
    ASSUME RingInv, NEW n \in Nat, n <= GetFree(In, Out), In + n <= Size,
           \A k \in Cells : k < n => Buffer[Cell(In, k)] = written + k + 1,
           In' = In + n, written' = written + n, UNCHANGED <<Buffer, Out, got>>
    PROVE  /\ In' \in 0..Size /\ written' \in Nat
           /\ Used' = Used + n
           /\ Contents'
  <1> USE SizeFact, TypeFacts DEF RingInv
  <1>1. In' \in 0..Size /\ written' \in Nat
    BY SMTT(30)
  <1>2. GetFull(In + n, Out) = GetFull(In, Out) + n
    BY FullGrows
  <1>3. Used' = Used + n
    BY <1>2 DEF Used
  <1>4. ASSUME NEW k \in Cells, k < Used + n
        PROVE  Buffer[Cell(Out, k)] = Len(got) + k + 1
    <2>1. CASE k < Used
      BY <2>1 DEF Contents, Cells
    <2>2. CASE k >= Used
      <3>1. /\ k - Used \in Cells /\ k - Used \in Nat
            /\ k - Used < n /\ Used + (k - Used) = k
        <4>1. Used \in Nat
          OBVIOUS
        <4> QED BY <1>4, <2>2, <4>1, SplitIndex
      <3>2. k - Used < GetFree(In, Out)
        <4>1. GetFree(In, Out) \in Int
          BY FreeAndFull
        <4> QED BY <3>1, <4>1, Less
      <3>3. Cell(In, k - Used) = Cell(Out, GetFull(In, Out) + (k - Used))
        BY <3>1, <3>2, CellAfterUsed
      <3>4. Cell(In, k - Used) = Cell(Out, k)
        BY <3>1, <3>3 DEF Used
      <3>5. Buffer[Cell(In, k - Used)] = written + (k - Used) + 1
        BY <3>1
      <3>6. written + (k - Used) + 1 = Len(got) + k + 1
        BY DEF Contents, Cells
      <3> QED BY <3>4, <3>5, <3>6
    <2> QED BY <2>1, <2>2 DEF Cells
  <1>5. written' = Len(got') + Used'
    BY <1>3 DEF Contents
  <1>6. Contents'
    BY <1>3, <1>4, <1>5 DEF Contents, Cell, Cells
  <1> QED BY <1>1, <1>3, <1>6

LEMMA WriteAdvanceKeeps ==
    ASSUME RingInv, WriteAdvance
    PROVE  RingInv'
  <1> USE SizeFact, TypeFacts DEF WriteAdvance, RingInv
  <1> DEFINE n == ToCopy(In, w.count)
  <1>0. /\ n \in Nat /\ n <= GetFree(In, Out) /\ In + n <= Size
        /\ n <= w.count /\ (n < w.count => In + n = Size)
        /\ w.count <= GetFree(In, Out)
    BY ToCopyFact, SMTT(30) DEF Room, WriterInCall
  <1>1. In' \in 0..Size /\ written' \in Nat /\ Used' = Used + n /\ Contents'
    <2>1. \A k \in Cells : k < n => Buffer[Cell(In, k)] = written + k + 1
      BY DEF Filled, Cells
    <2> QED BY <1>0, <2>1, PublishFacts
  <1>2. /\ w' = [pc |-> IF w.count > n THEN "restart" ELSE "wrap", count |-> w.count - n]
        /\ w.count - n \in Nat
    BY <1>0, SMTT(30)
  <1>3. TypeOK'
    BY <1>1, <1>2 DEF TypeOK, Places
  <1>4. Indices'
    <2>1. In' = Size => Out # 0 /\ Out # Size
      <3>1. In # Size
        BY DEF Indices
      <3> QED BY <1>0, <3>1, EndReached
    <2>2. w'.pc = IF w.count > n THEN "restart" ELSE "wrap"
      BY <1>2
    <2>3. w'.pc = "restart" => In' = Size
      BY <1>0, <2>2
    <2> QED BY <2>1, <2>2, <2>3 DEF Indices
  <1>5. Room'
    <2>0. w'.pc = (IF w.count > n THEN "restart" ELSE "wrap") /\ w'.count = w.count - n
      BY <1>2
    <2>1. GetFree(In', Out') = Size - 1 - Used'
      BY <1>1, FreeAndFull DEF Used
    <2>2. ASSUME w.count > n PROVE w.count - n \in 1..GetFree(In', Out')
      <3>1. GetFree(In, Out) = Size - 1 - Used
        OBVIOUS
      <3>2. w.count - n <= Size - 1 - (Used + n)
        BY <1>0, <3>1, SMTT(30)
      <3>3. GetFree(In', Out') = Size - 1 - (Used + n)
        BY <1>1, <2>1
      <3>4. w.count - n \in Nat /\ w.count - n # 0
        BY <1>0, <2>2, SMTT(30)
      <3>5. w.count - n <= GetFree(In', Out')
        BY <3>2, <3>3
      <3>6. GetFree(In', Out') \in Int
        BY <1>0, <3>3, SMTT(30)
      <3> HIDE DEF n
      <3> QED BY <3>4, <3>5, <3>6
    <2>3. ASSUME ~(w.count > n) PROVE w.count - n = 0
      BY <1>0, <2>3
    <2> QED BY <2>0, <2>2, <2>3 DEF Room, WriterInCall
  <1>6. Stock'
    BY <1>0, <1>1, SMTT(30) DEF Stock, ReaderInCall
  <1>7. Filled' /\ Copied' /\ ReadsWhatWasWritten'
    BY <1>2 DEF Filled, Copied, ReadsWhatWasWritten
  <1> QED BY <1>1, <1>3, <1>4, <1>5, <1>6, <1>7

\* The last cell is behind the index: it may restart at the first one.
LEMMA InRestarts ==
    ASSUME RingInv, In = Size, In' = 0, UNCHANGED <<Buffer, Out, written, got>>
    PROVE  /\ Used' = Used /\ GetFree(In', Out') = GetFree(In, Out)
           /\ Contents'
           /\ Out # 0 /\ Out # Size
  <1> USE SizeFact, TypeFacts DEF RingInv
  <1>1. Out # 0 /\ Out # Size
    BY DEF Indices
  <1>2. GetFull(0, Out) = GetFull(Size, Out) /\ GetFree(0, Out) = GetFree(Size, Out)
    BY <1>1 DEF GetFull, GetFree
  <1>3. Used' = Used
    BY <1>2 DEF Used
  <1>4. Contents'
    BY <1>3 DEF Contents, Cell
  <1> QED BY <1>1, <1>2, <1>3, <1>4

LEMMA WriteRestartKeeps ==
    ASSUME RingInv, WriteRestart
    PROVE  RingInv'
  <1> USE SizeFact, TypeFacts DEF WriteRestart, RingInv
  <1>1. /\ Used' = Used /\ GetFree(In', Out') = GetFree(In, Out)
        /\ Contents'
        /\ Out # 0 /\ Out # Size
    BY InRestarts DEF Indices
  <1>2. w' = [pc |-> "copyRest", count |-> w.count]
    OBVIOUS
  <1>3. TypeOK'
    <2>1. In' \in 0..Size
      OBVIOUS
    <2> QED BY <1>2, <2>1 DEF TypeOK, Places
  <1>4. Indices' /\ Room' /\ Stock'
    BY <1>1, <1>2 DEF Indices, Room, Stock, WriterInCall, ReaderInCall
  <1>5. Filled' /\ Copied' /\ ReadsWhatWasWritten'
    BY <1>2 DEF Filled, Copied, ReadsWhatWasWritten
  <1> QED BY <1>1, <1>3, <1>4, <1>5

LEMMA WriteCopyRestKeeps ==
    ASSUME RingInv, WriteCopyRest
    PROVE  RingInv'
  <1> USE SizeFact, TypeFacts DEF WriteCopyRest, RingInv
  <1>0. w.count \in Nat /\ w.count <= GetFree(In, Out) /\ In + w.count <= Size /\ In = 0
    BY DEF Room, WriterInCall, Indices
  <1>1. /\ Buffer' \in [Cells -> Nat]
        /\ \A k \in Cells : k < Used => Buffer'[Cell(Out, k)] = Buffer[Cell(Out, k)]
        /\ \A k \in Cells : k < w.count => Buffer'[Cell(In, k)] = written + k + 1
    BY <1>0, CopyInFacts
  <1>2. w' = [pc |-> "advanceRest", count |-> w.count]
    OBVIOUS
  <1>3. TypeOK'
    BY <1>1, <1>2 DEF TypeOK, Places
  <1>4. Indices' /\ Room' /\ Stock'
    BY <1>2 DEF Indices, Room, Stock, WriterInCall, ReaderInCall, Used
  <1>5. Contents'
    BY <1>1 DEF Contents, Used, Cell, Cells
  <1>6. Filled'
    BY <1>1, <1>2 DEF Filled, Cells, Cell
  <1>7. Copied' /\ ReadsWhatWasWritten'
    BY DEF Copied, ReadsWhatWasWritten
  <1> QED BY <1>3, <1>4, <1>5, <1>6, <1>7

LEMMA WriteAdvanceRestKeeps ==
    ASSUME RingInv, WriteAdvanceRest
    PROVE  RingInv'
  <1> USE SizeFact, TypeFacts DEF WriteAdvanceRest, RingInv
  <1>0. /\ w.count \in Nat /\ w.count <= GetFree(In, Out) /\ In + w.count <= Size
        /\ In = 0 /\ Out # 0 /\ In' = In + w.count
    BY DEF Room, WriterInCall, Indices
  <1>1. In' \in 0..Size /\ written' \in Nat /\ Used' = Used + w.count /\ Contents'
    <2>1. \A k \in Cells : k < w.count => Buffer[Cell(In, k)] = written + k + 1
      BY DEF Filled, Cells
    <2> QED BY <1>0, <2>1, PublishFacts
  <1>2. w' = [pc |-> "wrap", count |-> 0]
    OBVIOUS
  <1>3. TypeOK'
    BY <1>1, <1>2 DEF TypeOK, Places
  <1>4. Indices'
    BY <1>0, <1>2 DEF Indices, GetFree
  <1>5. Room' /\ Stock'
    BY <1>0, <1>1, <1>2 DEF Room, Stock, WriterInCall, ReaderInCall
  <1>6. Filled' /\ Copied' /\ ReadsWhatWasWritten'
    BY <1>2 DEF Filled, Copied, ReadsWhatWasWritten
  <1> QED BY <1>1, <1>3, <1>4, <1>5, <1>6

LEMMA WriteWrapKeeps ==
    ASSUME RingInv, WriteWrap
    PROVE  RingInv'
  <1> USE SizeFact, TypeFacts DEF WriteWrap, RingInv
  <1>1. /\ Used' = Used /\ Contents'
        /\ In' \in 0..Size /\ In' # Size
    <2>1. CASE In = Size
      BY <2>1, InRestarts DEF Wrapped
    <2>2. CASE In # Size
      BY <2>2 DEF Wrapped, Used, Contents
    <2> QED BY <2>1, <2>2
  <1>2. w' = [pc |-> "idle", count |-> 0]
    OBVIOUS
  <1>3. TypeOK'
    BY <1>1, <1>2 DEF TypeOK, Places
  <1>4. Indices' /\ Room' /\ Stock'
    BY <1>1, <1>2 DEF Indices, Room, Stock, WriterInCall, ReaderInCall
  <1>5. Filled' /\ Copied' /\ ReadsWhatWasWritten'
    BY <1>2 DEF Filled, Copied, ReadsWhatWasWritten
  <1> QED BY <1>1, <1>3, <1>4, <1>5

-----------------------------------------------------------------------------
(* The reader's statements, which run only between two calls of the writer. *)

LEMMA WriterIsIdle ==
    ASSUME RingInv, Isr = "writer", ReaderMayRun
    PROVE  w.pc = "idle" /\ In # Size
  BY DEF ReaderMayRun, RingInv, Indices

LEMMA ReadCallKeeps ==
    ASSUME RingInv, Isr = "writer", NEW n \in 1..Size, ReadCall(n)
    PROVE  RingInv'
  <1> USE SizeFact, TypeFacts DEF ReadCall, RingInv
  <1>1. Out' = Out /\ Wrapped(Out) = Out
    BY DEF Indices, Wrapped
  <1>2. \/ r' = r
        \/ /\ r' = [pc |-> "copy", count |-> r'.count, data |-> <<>>]
           /\ r'.count \in 1..Used
    <2>1. r' = IF Used = 0 THEN r ELSE [pc |-> "copy", count |-> Smaller(n, Used), data |-> <<>>]
      BY <1>1 DEF Used
    <2>2. ASSUME Used # 0 PROVE Smaller(n, Used) \in 1..Used
      <3>1. Used \in Nat /\ n \in Nat /\ n # 0
        OBVIOUS
      <3> QED BY <2>2, <3>1, SmallerFact
    <2> QED BY <2>1, <2>2
  <1>3. TypeOK'
    BY <1>1, <1>2 DEF TypeOK, Places
  <1>4. Indices' /\ Room' /\ Stock'
    BY <1>1, <1>2 DEF Indices, Room, Stock, WriterInCall, ReaderInCall, Used
  <1>5. Contents' /\ Filled' /\ Copied' /\ ReadsWhatWasWritten'
    BY <1>1, <1>2 DEF Contents, Used, Filled, Copied, ReadsWhatWasWritten
  <1> QED BY <1>3, <1>4, <1>5

\* A copy of used cells yields the bytes that follow those the reader got.
LEMMA CopyOutFacts ==
    ASSUME RingInv, NEW n \in Nat, n <= Used, Out + n <= Size
    PROVE  /\ CopyOut(Out, n) = [i \in 1..n |-> Len(got) + i]
           /\ CopyOut(Out, n) \in Seq(Nat)
  <1> USE SizeFact, TypeFacts DEF RingInv
  <1>1. ASSUME NEW i \in 1..n PROVE Buffer[Out + i - 1] = Len(got) + i
    <2>1. i - 1 \in Nat /\ i - 1 < n /\ Out + (i - 1) < Size /\ Out + (i - 1) = Out + i - 1
      BY SMTT(30)
    <2>2. Cell(Out, i - 1) = Out + i - 1
      BY <2>1, CellDirect
    <2>3. i - 1 \in 0..(Size - 1) /\ i - 1 < Used
      BY <2>1, SMTT(30)
    <2>4. Buffer[Cell(Out, i - 1)] = Len(got) + (i - 1) + 1
      BY <2>3 DEF Contents
    <2>5. Len(got) + (i - 1) + 1 = Len(got) + i
      BY SMTT(30)
    <2> QED BY <2>2, <2>4, <2>5
  <1>2. CopyOut(Out, n) = [i \in 1..n |-> Len(got) + i]
    BY <1>1 DEF CopyOut
  <1>3. [i \in 1..n |-> Len(got) + i] \in Seq(Nat)
    BY PieceType
  <1> QED BY <1>2, <1>3

LEMMA ReadCopyKeeps ==
    ASSUME RingInv, Isr = "writer", ReadCopy
    PROVE  RingInv'
  <1> USE SizeFact, TypeFacts DEF ReadCopy, RingInv
  <1> DEFINE n == ToCopy(Out, r.count)
  <1>0. n \in Nat /\ n <= Used /\ Out + n <= Size
    BY ToCopyFact DEF Stock, ReaderInCall
  <1>1. /\ CopyOut(Out, n) = [i \in 1..n |-> Len(got) + i]
        /\ CopyOut(Out, n) \in Seq(Nat)
    BY <1>0, CopyOutFacts
  <1>2. r' = [pc |-> "advance", count |-> r.count, data |-> CopyOut(Out, n)]
    OBVIOUS
  <1>3. TypeOK'
    BY <1>1, <1>2 DEF TypeOK, Places
  <1>4. Indices' /\ Room' /\ Stock'
    BY <1>2 DEF Indices, Room, Stock, WriterInCall, ReaderInCall, Used
  <1>5. Copied'
    BY <1>1, <1>2 DEF Copied, ToCopy
  <1>6. Contents' /\ Filled' /\ ReadsWhatWasWritten'
    BY DEF Contents, Used, Filled, ReadsWhatWasWritten
  <1> QED BY <1>3, <1>4, <1>5, <1>6

\* The bytes that were copied are released.
LEMMA ReleaseFacts ==
    ASSUME RingInv, NEW n \in Nat, n <= Used, Out + n <= Size, In # Size,
           Out' = Out + n, got' = got \o [i \in 1..n |-> Len(got) + i],
           UNCHANGED <<Buffer, In, written>>
    PROVE  /\ Out' \in 0..Size
           /\ Used' = Used - n
           /\ got' \in Seq(Nat) /\ Len(got') = Len(got) + n
           /\ Contents' /\ ReadsWhatWasWritten'
  <1> USE SizeFact, TypeFacts DEF RingInv
  <1>1. Out' \in 0..Size
    OBVIOUS
  <1>2. Used' = Used - n
    BY FullShrinks DEF Used
  <1>3. /\ got' \in Seq(Nat) /\ Len(got') = Len(got) + n
        /\ \A i \in 1..Len(got') : got'[i] = i
    BY AppendPiece DEF ReadsWhatWasWritten
  <1>4. ASSUME NEW k \in Cells, k < Used - n
        PROVE  Buffer[Cell(Out + n, k)] = Len(got) + n + k + 1
    <2>1. k \in Nat
      BY DEF Cells
    <2>2. n + k \in 0..(Size - 1) /\ n + k < Used
      BY <1>4, <2>1, SumBelow
    <2>3. Cell(Out + n, k) = Cell(Out, n + k)
      <3>1. n \in 0..Size
        OBVIOUS
      <3> QED BY <2>1, <3>1, CellAdvance
    <2>4. Buffer[Cell(Out, n + k)] = Len(got) + (n + k) + 1
      BY <2>2 DEF Contents
    <2>5. Len(got) + (n + k) + 1 = Len(got) + n + k + 1
      BY <2>1
    <2> QED BY <2>3, <2>4, <2>5
  <1>5. written' = Len(got') + Used'
    BY <1>2, <1>3 DEF Contents
  <1>6. Contents'
    <2>1. \A k \in Cells : k < Used' => Buffer'[Cell(Out', k)] = Len(got') + k + 1
      BY <1>2, <1>3, <1>4
    <2> QED BY <1>5, <2>1 DEF Contents, Cell, Cells
  <1> QED BY <1>1, <1>2, <1>3, <1>6 DEF ReadsWhatWasWritten

LEMMA ReadAdvanceKeeps ==
    ASSUME RingInv, Isr = "writer", ReadAdvance
    PROVE  RingInv'
  <1> USE SizeFact, TypeFacts DEF ReadAdvance, RingInv
  <1> DEFINE n == ToCopy(Out, r.count)
  <1>0. /\ n \in Nat /\ n <= Used /\ Out + n <= Size
        /\ n <= r.count /\ (n < r.count => Out + n = Size)
        /\ r.count <= Used
    BY ToCopyFact DEF Stock, ReaderInCall
  <1>a. w.pc = "idle" /\ In # Size
    BY WriterIsIdle
  <1>1. /\ Out' \in 0..Size /\ Used' = Used - n
        /\ got' \in Seq(Nat) /\ Len(got') = Len(got) + n
        /\ Contents' /\ ReadsWhatWasWritten'
    <2>1. got' = got \o [i \in 1..n |-> Len(got) + i]
      BY DEF Copied
    <2> QED BY <1>0, <1>a, <2>1, ReleaseFacts
  <1>2. /\ r' = [pc |-> IF r.count > n THEN "restart" ELSE "wrap",
                 count |-> r.count - n, data |-> r.data]
        /\ r.count - n \in Nat
    <2>1. r.count - n \in Nat
      BY <1>0
    <2>2. r' = [r EXCEPT !.pc = IF r.count > n THEN "restart" ELSE "wrap", !.count = r.count - n]
      OBVIOUS
    <2> HIDE DEF n
    <2>3. r = [pc |-> r.pc, count |-> r.count, data |-> r.data]
      OBVIOUS
    <2> QED BY <2>1, <2>2, <2>3
  <1>3. TypeOK'
    BY <1>1, <1>2 DEF TypeOK, Places
  <1>4. Indices'
    <2>1. r'.pc = IF r.count > n THEN "restart" ELSE "wrap"
      BY <1>2
    <2>2. r'.pc = "restart" => Out' = Size
      BY <1>0, <2>1
    <2> QED BY <1>a, <2>1, <2>2 DEF Indices
  <1>5. Stock'
    <2>1. r'.pc = (IF r.count > n THEN "restart" ELSE "wrap") /\ r'.count = r.count - n
      BY <1>2
    <2>2. ASSUME r.count > n PROVE r.count - n \in 1..(Used - n)
      BY <1>0, <2>2, SMTT(30)
    <2>3. ASSUME ~(r.count > n) PROVE r.count - n = 0
      BY <1>0, <2>3
    <2> QED BY <1>1, <2>1, <2>2, <2>3 DEF Stock, ReaderInCall
  <1>6. Room' /\ Filled' /\ Copied'
    BY <1>a, <1>2 DEF Room, WriterInCall, Filled, Copied
  <1> QED BY <1>1, <1>3, <1>4, <1>5, <1>6

\* The last cell is behind the index: it may restart at the first one.
LEMMA OutRestarts ==
    ASSUME RingInv, Out = Size, Out' = 0, In # Size, UNCHANGED <<Buffer, In, written, got>>
    PROVE  Used' = Used /\ Contents'
  <1> USE SizeFact, TypeFacts DEF RingInv
  <1>1. GetFull(In, 0) = GetFull(In, Size)
    BY DEF GetFull
  <1>2. Used' = Used
    BY <1>1 DEF Used
  <1>3. \A k \in Cells : k < Used => Buffer[Cell(0, k)] = Len(got) + k + 1
    BY CellWrap DEF Contents, Cells
  <1>4. Contents'
    BY <1>2, <1>3 DEF Contents, Cell, Cells
  <1> QED BY <1>2, <1>4

LEMMA ReadRestartKeeps ==
    ASSUME RingInv, Isr = "writer", ReadRestart
    PROVE  RingInv'
  <1> USE SizeFact, TypeFacts DEF ReadRestart, RingInv
  <1>a. w.pc = "idle" /\ In # Size
    BY WriterIsIdle
  <1>1. Used' = Used /\ Contents'
    BY <1>a, OutRestarts DEF Indices
  <1>2. r' = [pc |-> "copyRest", count |-> r.count, data |-> r.data]
    OBVIOUS
  <1>3. TypeOK'
    <2>1. Out' \in 0..Size
      OBVIOUS
    <2> QED BY <1>2, <2>1 DEF TypeOK, Places
  <1>4. Indices' /\ Room' /\ Stock'
    BY <1>a, <1>1, <1>2 DEF Indices, Room, Stock, WriterInCall, ReaderInCall
  <1>5. Filled' /\ Copied' /\ ReadsWhatWasWritten'
    BY <1>a, <1>2 DEF Filled, Copied, ReadsWhatWasWritten
  <1> QED BY <1>1, <1>3, <1>4, <1>5

LEMMA ReadCopyRestKeeps ==
    ASSUME RingInv, Isr = "writer", ReadCopyRest
    PROVE  RingInv'
  <1> USE SizeFact, TypeFacts DEF ReadCopyRest, RingInv
  <1>0. r.count \in Nat /\ r.count <= Used /\ Out + r.count <= Size
    BY DEF Stock, ReaderInCall, Indices
  <1>1. /\ CopyOut(Out, r.count) = [i \in 1..r.count |-> Len(got) + i]
        /\ CopyOut(Out, r.count) \in Seq(Nat)
    BY <1>0, CopyOutFacts
  <1>2. r' = [pc |-> "advanceRest", count |-> r.count, data |-> CopyOut(Out, r.count)]
    OBVIOUS
  <1>3. TypeOK'
    BY <1>1, <1>2 DEF TypeOK, Places
  <1>4. Indices' /\ Room' /\ Stock'
    BY <1>2 DEF Indices, Room, Stock, WriterInCall, ReaderInCall, Used
  <1>5. Copied'
    BY <1>1, <1>2 DEF Copied
  <1>6. Contents' /\ Filled' /\ ReadsWhatWasWritten'
    BY DEF Contents, Used, Filled, ReadsWhatWasWritten
  <1> QED BY <1>3, <1>4, <1>5, <1>6

LEMMA ReadAdvanceRestKeeps ==
    ASSUME RingInv, Isr = "writer", ReadAdvanceRest
    PROVE  RingInv'
  <1> USE SizeFact, TypeFacts DEF ReadAdvanceRest, RingInv
  <1>0. r.count \in Nat /\ r.count <= Used /\ Out + r.count <= Size /\ Out' = Out + r.count
    BY DEF Stock, ReaderInCall, Indices
  <1>a. w.pc = "idle" /\ In # Size
    BY WriterIsIdle
  <1>1. /\ Out' \in 0..Size /\ Used' = Used - r.count
        /\ got' \in Seq(Nat) /\ Len(got') = Len(got) + r.count
        /\ Contents' /\ ReadsWhatWasWritten'
    <2>1. got' = got \o [i \in 1..r.count |-> Len(got) + i]
      BY DEF Copied
    <2> QED BY <1>0, <1>a, <2>1, ReleaseFacts
  <1>2. r' = [pc |-> "wrap", count |-> 0, data |-> r.data]
    OBVIOUS
  <1>3. TypeOK'
    BY <1>1, <1>2, SMTT(30) DEF TypeOK, Places
  <1>4. Indices' /\ Room' /\ Stock'
    BY <1>a, <1>1, <1>2 DEF Indices, Room, Stock, WriterInCall, ReaderInCall
  <1>5. Filled' /\ Copied'
    BY <1>a, <1>2 DEF Filled, Copied
  <1> QED BY <1>1, <1>3, <1>4, <1>5

LEMMA ReadWrapKeeps ==
    ASSUME RingInv, Isr = "writer", ReadWrap
    PROVE  RingInv'
  <1> USE SizeFact, TypeFacts DEF ReadWrap, RingInv
  <1>a. w.pc = "idle" /\ In # Size
    BY WriterIsIdle
  <1>1. Used' = Used /\ Contents' /\ Out' \in 0..Size /\ Out' # Size
    <2>1. CASE Out = Size
      BY <1>a, <2>1, OutRestarts DEF Wrapped
    <2>2. CASE Out # Size
      BY <2>2, SMTT(30) DEF Wrapped, Used, Contents
    <2> QED BY <2>1, <2>2
  <1>2. r' = [pc |-> "idle", count |-> 0, data |-> <<>>]
    OBVIOUS
  <1>3. TypeOK'
    BY <1>1, <1>2 DEF TypeOK, Places
  <1>4. Indices' /\ Room' /\ Stock'
    BY <1>a, <1>1, <1>2 DEF Indices, Room, Stock, WriterInCall, ReaderInCall
  <1>5. Filled' /\ Copied' /\ ReadsWhatWasWritten'
    BY <1>a, <1>2 DEF Filled, Copied, ReadsWhatWasWritten
  <1> QED BY <1>1, <1>3, <1>4, <1>5

-----------------------------------------------------------------------------
LEMMA RingStep == ASSUME Isr = "writer", RingInv, [Next]_vars PROVE RingInv'
  <1>1. CASE Write
    BY <1>1, WriteCallKeeps, WriteCopyKeeps, WriteAdvanceKeeps, WriteRestartKeeps,
       WriteCopyRestKeeps, WriteAdvanceRestKeeps, WriteWrapKeeps DEF Write
  <1>2. CASE Read
    BY <1>2, ReadCallKeeps, ReadCopyKeeps, ReadAdvanceKeeps, ReadRestartKeeps,
       ReadCopyRestKeeps, ReadAdvanceRestKeeps, ReadWrapKeeps DEF Read
  <1>3. CASE UNCHANGED vars
    BY <1>3 DEF vars, RingInv, TypeOK, Indices, Room, Stock, Contents, Filled, Copied,
       ReadsWhatWasWritten, WriterInCall, ReaderInCall, Used
  <1> QED BY <1>1, <1>2, <1>3 DEF Next

LEMMA RingInvariant == ASSUME Isr = "writer" PROVE Spec => []RingInv
  <1>1. Init => RingInv
    BY RingInit
  <1>2. RingInv /\ [Next]_vars => RingInv'
    BY RingStep
  <1> QED BY <1>1, <1>2, PTL DEF Spec

\* The bytes that the task reads are those that the interrupt wrote, in their
\* order, wherever the interrupt falls: rx_buffer of the console, any Size.
THEOREM ReadsInOrder == ASSUME Isr = "writer" PROVE Spec => []ReadsWhatWasWritten
  <1>1. RingInv => ReadsWhatWasWritten
    BY DEF RingInv
  <1> QED BY <1>1, RingInvariant, PTL

\* Neither index leaves the buffer, so that no copy does.
THEOREM RingTypeCorrect == ASSUME Isr = "writer" PROVE Spec => []TypeOK
  <1>1. RingInv => TypeOK
    BY DEF RingInv
  <1> QED BY <1>1, RingInvariant, PTL

LEMMA FreeBehindUsed ==
    ASSUME NEW used \in Nat, NEW free \in Int, used + free = Size - 1,
           NEW j \in Nat, j < free, NEW k \in Nat, k < used
    PROVE  k \in Cells /\ used + j \in Cells /\ used + j # k
  BY SizeFact DEF Cells

\* The two copies of TM_BUFFER_Write and TM_BUFFER_Read never overlap, so that
\* they may themselves be interrupted.
THEOREM CopiesNeverOverlap == ASSUME Isr = "writer" PROVE Spec => []CopiesDisjoint
  <1>1. RingInv => CopiesDisjoint
    <2> SUFFICES ASSUME RingInv,
                        NEW j \in 0..(w.count - 1), NEW k \in 0..(r.count - 1)
                 PROVE  Cell(In, j) # Cell(Out, k)
      BY DEF CopiesDisjoint, CellsLeft
    <2> USE SizeFact, TypeFacts DEF RingInv
    <2>1. j \in Nat /\ k \in Nat
      OBVIOUS
    <2>2. j < GetFree(In, Out)
      <3>1. w.count \in 1..GetFree(In, Out)
        BY DEF Room
      <3> QED BY <3>1, SMTT(30)
    <2>3. k < Used
      <3>1. r.count \in 1..Used
        BY DEF Stock
      <3> QED BY <3>1
    <2>4. Cell(In, j) = Cell(Out, Used + j)
      BY <2>1, <2>2, CellAfterUsed DEF Used
    <2>5. Used \in Nat /\ GetFree(In, Out) \in Int /\ Used + GetFree(In, Out) = Size - 1
      <3>1. In \in 0..Size /\ Out \in 0..Size
        OBVIOUS
      <3>2. GetFree(In, Out) = Size - 1 - GetFull(In, Out) /\ GetFull(In, Out) \in 0..Size
        BY <3>1, FreeAndFull
      <3> QED BY <3>2, SMTT(30) DEF Used
    <2>6. k \in Cells /\ Used + j \in Cells /\ Used + j # k
      BY <2>1, <2>2, <2>3, <2>5, FreeBehindUsed
    <2> QED BY <2>4, <2>6, CellDistinct
  <1> QED BY <1>1, RingInvariant, PTL

-----------------------------------------------------------------------------
(* The ring buffer implements BoundedFifo. *)

CountUp(m, n) == [i \in 1..n |-> m + i]

LEMMA CountUpType ==
    ASSUME NEW m \in Nat, NEW n \in Nat
    PROVE  /\ CountUp(m, n) \in Seq(Nat) /\ Len(CountUp(m, n)) = n
           /\ \A i \in 1..n : CountUp(m, n)[i] = m + i
  BY DEF CountUp

LEMMA PutPiece ==
    ASSUME NEW m \in Nat, NEW u \in Nat, NEW n \in Nat
    PROVE  CountUp(m, u + n) = CountUp(m, u) \o CountUp(m + u, n)
  <1> DEFINE a == CountUp(m, u)
             b == CountUp(m + u, n)
             c == CountUp(m, u + n)
  <1>1. /\ a \in Seq(Nat) /\ Len(a) = u /\ \A i \in 1..u : a[i] = m + i
        /\ b \in Seq(Nat) /\ Len(b) = n /\ \A i \in 1..n : b[i] = m + u + i
        /\ c \in Seq(Nat) /\ Len(c) = u + n /\ \A i \in 1..(u + n) : c[i] = m + i
    <2>1. m + u \in Nat /\ u + n \in Nat
      OBVIOUS
    <2> QED BY <2>1, CountUpType
  <1> HIDE DEF a, b, c
  <1>2. /\ a \o b \in Seq(Nat) /\ Len(a \o b) = u + n
        /\ \A i \in 1..(u + n) : (a \o b)[i] = IF i <= u THEN a[i] ELSE b[i - u]
    BY <1>1, ConcatProperties, ZenonT(40)
  <1>3. ASSUME NEW i \in 1..(u + n) PROVE c[i] = (a \o b)[i]
    <2>1. CASE i <= u
      BY <1>1, <1>2, <2>1
    <2>2. CASE ~(i <= u)
      <3>1. i - u \in 1..n /\ m + u + (i - u) = m + i
        BY <2>2
      <3>2. b[i - u] = m + u + (i - u)
        BY <1>1, <3>1
      <3> QED BY <1>1, <1>2, <2>2, <3>1, <3>2
    <2> QED BY <2>1, <2>2
  <1>4. c = a \o b
    BY <1>1, <1>2, <1>3, SeqEqual
  <1> QED BY <1>4 DEF a, b, c

LEMMA TakePiece ==
    ASSUME NEW m \in Nat, NEW u \in Nat, NEW n \in Nat, n <= u
    PROVE  /\ SubSeq(CountUp(m, u), 1, n) = CountUp(m, n)
           /\ SubSeq(CountUp(m, u), n + 1, u) = CountUp(m + n, u - n)
  <1> DEFINE a == CountUp(m, u)
             b == CountUp(m, n)
             c == CountUp(m + n, u - n)
  <1>0. m + n \in Nat /\ u - n \in Nat /\ (\A i \in 1..u : m + i \in Nat)
    OBVIOUS
  <1>1. /\ a \in Seq(Nat) /\ Len(a) = u /\ \A i \in 1..u : a[i] = m + i /\ a[i] \in Nat
        /\ b \in Seq(Nat) /\ Len(b) = n /\ \A i \in 1..n : b[i] = m + i
        /\ c \in Seq(Nat) /\ Len(c) = u - n /\ \A i \in 1..(u - n) : c[i] = m + n + i
    BY <1>0, CountUpType
  <1> HIDE DEF a, b, c
  <1>2. SubSeq(a, 1, n) = b
    <2>1. /\ SubSeq(a, 1, n) \in Seq(Nat) /\ Len(SubSeq(a, 1, n)) = n
          /\ \A i \in 1..n : SubSeq(a, 1, n)[i] = a[i]
      BY <1>1
    <2>2. \A i \in 1..n : a[i] = b[i]
      BY <1>1
    <2> QED BY <1>1, <2>1, <2>2, SeqEqual
  <1>3. SubSeq(a, n + 1, u) = c
    <2>1. /\ SubSeq(a, n + 1, u) \in Seq(Nat) /\ Len(SubSeq(a, n + 1, u)) = u - n
          /\ \A i \in 1..(u - n) : SubSeq(a, n + 1, u)[i] = a[n + i]
      BY <1>1, SMTT(30)
    <2>2. \A i \in 1..(u - n) : a[n + i] = c[i]
      BY <1>1
    <2> QED BY <1>1, <2>1, <2>2, SeqEqual
  <1> QED BY <1>2, <1>3 DEF a, b, c

\* What is in the buffer, and that it is never more than Size - 1 bytes.
QueueShape == /\ FifoQueue = CountUp(Len(got), Used)
              /\ Used \in 0..(Size - 1) /\ Used = written - Len(got)
              /\ Len(got) \in Nat

LEMMA QueueFact == RingInv => QueueShape
  <1> SUFFICES ASSUME RingInv PROVE QueueShape
    OBVIOUS
  <1> USE SizeFact, TypeFacts DEF RingInv
  <1>1. Used \in 0..(Size - 1)
    <2>1. ~(In = Size /\ Out = 0)
      BY DEF Indices
    <2> QED BY <2>1, SMTT(30) DEF Used, GetFull
  <1>2. ASSUME NEW i \in 1..Used PROVE Buffer[Cell(Out, i - 1)] = Len(got) + i
    <2>1. i - 1 \in 0..(Size - 1) /\ i - 1 < Used
      BY <1>1
    <2>2. Buffer[Cell(Out, i - 1)] = Len(got) + (i - 1) + 1
      BY <2>1 DEF Contents
    <2> QED BY <2>2
  <1>3. FifoQueue = CountUp(Len(got), Used)
    BY <1>2 DEF FifoQueue, CountUp, Used
  <1>4. Used = written - Len(got)
    BY DEF Contents
  <1> QED BY <1>1, <1>3, <1>4 DEF QueueShape

LEMMA QueueFactNext == RingInv' => QueueShape'
  BY QueueFact, PTL

LEMMA FifoInit == Init => Fifo!Init
  <1> SUFFICES ASSUME Init PROVE Fifo!Init
    OBVIOUS
  <1>1. GetFull(In, Out) = 0
    BY DEF Init, GetFull
  <1>2. FifoQueue = <<>>
    BY <1>1 DEF FifoQueue
  <1> QED BY <1>2 DEF Init, Fifo!Init

LEMMA FifoPut ==
    ASSUME RingInv, RingInv', NEW n \in Nat \ {0}, written' = written + n, UNCHANGED got
    PROVE  Fifo!Next
  <1>1. /\ FifoQueue = CountUp(Len(got), Used) /\ Used \in 0..(Size - 1)
        /\ Used = written - Len(got) /\ Len(got) \in Nat
    BY QueueFact DEF QueueShape
  <1>2. /\ FifoQueue' = CountUp(Len(got'), Used') /\ Used' \in 0..(Size - 1)
        /\ Used' = written' - Len(got')
    BY QueueFactNext DEF QueueShape
  <1>3. written \in Nat
    BY TypeFacts DEF RingInv
  <1>4. Used' = Used + n
    BY <1>1, <1>2, <1>3
  <1>5. FifoQueue' = FifoQueue \o CountUp(Len(got) + Used, n)
    <2>1. Used \in Nat /\ n \in Nat
      BY <1>1
    <2>2. FifoQueue' = CountUp(Len(got), Used + n)
      BY <1>2, <1>4
    <2>3. CountUp(Len(got), Used + n) = CountUp(Len(got), Used) \o CountUp(Len(got) + Used, n)
      BY <1>1, <2>1, PutPiece
    <2> QED BY <1>1, <2>2, <2>3
  <1>6. Len(FifoQueue) = Used
    BY <1>1, CountUpType
  <1>7. n \in 1..(Size - 1) /\ Used + n <= Size - 1
    BY <1>1, <1>2, <1>4, SizeFact
  <1>8. Fifo!Put(n)
    BY <1>5, <1>6, <1>7 DEF Fifo!Put, CountUp
  <1> QED BY <1>7, <1>8 DEF Fifo!Next

LEMMA FifoTake ==
    ASSUME RingInv, RingInv', NEW n \in Nat \ {0}, n <= Used, UNCHANGED written,
           got' = got \o CountUp(Len(got), n)
    PROVE  Fifo!Next
  <1>1. /\ FifoQueue = CountUp(Len(got), Used) /\ Used \in 0..(Size - 1)
        /\ Used = written - Len(got) /\ Len(got) \in Nat
    BY QueueFact DEF QueueShape
  <1>2. /\ FifoQueue' = CountUp(Len(got'), Used') /\ Used' \in 0..(Size - 1)
        /\ Used' = written' - Len(got')
    BY QueueFactNext DEF QueueShape
  <1>3. written \in Nat /\ got \in Seq(Nat)
    BY TypeFacts DEF RingInv
  <1>4. Len(got') = Len(got) + n
    <2>1. CountUp(Len(got), n) \in Seq(Nat) /\ Len(CountUp(Len(got), n)) = n
      BY <1>1, CountUpType
    <2> QED BY <1>3, <2>1, ConcatProperties
  <1>5. Used' = Used - n
    BY <1>1, <1>2, <1>3, <1>4
  <1>6. /\ SubSeq(FifoQueue, 1, n) = CountUp(Len(got), n)
        /\ SubSeq(FifoQueue, n + 1, Used) = FifoQueue'
    <2>1. Used \in Nat /\ n \in Nat
      BY <1>1
    <2>2. FifoQueue' = CountUp(Len(got) + n, Used - n)
      BY <1>2, <1>4, <1>5
    <2>3. /\ SubSeq(CountUp(Len(got), Used), 1, n) = CountUp(Len(got), n)
          /\ SubSeq(CountUp(Len(got), Used), n + 1, Used) = CountUp(Len(got) + n, Used - n)
      BY <1>1, <2>1, TakePiece, ZenonT(40)
    <2> QED BY <1>1, <2>2, <2>3
  <1>7. Len(FifoQueue) = Used
    BY <1>1, CountUpType
  <1>8. n \in 1..(Size - 1)
    BY <1>1, SizeFact
  <1>9. Fifo!Take(n)
    BY <1>6, <1>7 DEF Fifo!Take
  <1> QED BY <1>8, <1>9 DEF Fifo!Next

LEMMA FifoStutter ==
    ASSUME RingInv, RingInv', UNCHANGED <<written, got>>
    PROVE  UNCHANGED Fifo!vars
  <1>1. FifoQueue = CountUp(Len(got), Used) /\ Used = written - Len(got)
    BY QueueFact DEF QueueShape
  <1>2. FifoQueue' = CountUp(Len(got'), Used') /\ Used' = written' - Len(got')
    BY QueueFactNext DEF QueueShape
  <1> QED BY <1>1, <1>2 DEF Fifo!vars

LEMMA FifoStep ==
    ASSUME Isr = "writer", RingInv, RingInv', [Next]_vars
    PROVE  [Fifo!Next]_(Fifo!vars)
  <1> USE SizeFact, TypeFacts DEF RingInv
  <1>1. CASE WriteAdvance
    <2> DEFINE n == ToCopy(In, w.count)
    <2>1. n \in Nat \ {0}
      <3>1. In # Size /\ w.count \in Nat \ {0}
        BY <1>1 DEF WriteAdvance, Indices, Room, WriterInCall
      <3> QED BY <3>1 DEF ToCopy, Smaller
    <2>2. written' = written + n /\ UNCHANGED got
      BY <1>1 DEF WriteAdvance
    <2> HIDE DEF n
    <2> QED BY <2>1, <2>2, FifoPut
  <1>2. CASE WriteAdvanceRest
    <2>1. w.count \in Nat \ {0}
      BY <1>2 DEF WriteAdvanceRest, Room, WriterInCall
    <2> QED BY <1>2, <2>1, FifoPut DEF WriteAdvanceRest
  <1>3. CASE ReadAdvance
    <2> DEFINE n == ToCopy(Out, r.count)
    <2>1. n \in Nat \ {0} /\ n <= Used
      <3>1. Out # Size /\ r.count \in Nat \ {0} /\ r.count <= Used
        BY <1>3 DEF ReadAdvance, Indices, Stock, ReaderInCall
      <3> QED BY <3>1 DEF ToCopy, Smaller
    <2>2. UNCHANGED written /\ got' = got \o CountUp(Len(got), n)
      BY <1>3 DEF ReadAdvance, Copied, CountUp
    <2> HIDE DEF n
    <2> QED BY <2>1, <2>2, FifoTake
  <1>4. CASE ReadAdvanceRest
    <2>1. r.count \in Nat \ {0} /\ r.count <= Used
      BY <1>4 DEF ReadAdvanceRest, Stock, ReaderInCall
    <2>2. UNCHANGED written /\ got' = got \o CountUp(Len(got), r.count)
      BY <1>4 DEF ReadAdvanceRest, Copied, CountUp
    <2> QED BY <2>1, <2>2, FifoTake
  <1>5. CASE UNCHANGED <<written, got>>
    BY <1>5, FifoStutter
  <1>6. UNCHANGED vars => UNCHANGED <<written, got>>
    BY DEF vars
  <1>7. Write => WriteAdvance \/ WriteAdvanceRest \/ UNCHANGED <<written, got>>
    BY DEF Write, WriteCall, WriteCopy, WriteRestart, WriteCopyRest, WriteWrap
  <1>8. Read => ReadAdvance \/ ReadAdvanceRest \/ UNCHANGED <<written, got>>
    BY DEF Read, ReadCall, ReadCopy, ReadRestart, ReadCopyRest, ReadWrap
  <1> QED BY <1>1, <1>2, <1>3, <1>4, <1>5, <1>6, <1>7, <1>8 DEF Next

\* The ring buffer is a bounded first-in first-out queue for every Size: each
\* piece enters when In moves and leaves when Out moves, and nothing else shows.
THEOREM RingImplementsFifo == ASSUME Isr = "writer" PROVE Spec => ImplementsFifo
  <1>1. RingInv /\ RingInv' /\ [Next]_vars => [Fifo!Next]_(Fifo!vars)
    BY FifoStep
  <1> QED BY <1>1, RingInvariant, FifoInit, PTL DEF Spec, ImplementsFifo, Fifo!Spec
=============================================================================
