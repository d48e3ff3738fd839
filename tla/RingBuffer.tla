----------------------------- MODULE RingBuffer ------------------------------
(***************************************************************************)
(* The cyclic byte buffer of Middlewares/lib/ringbuffer/ring_buffer.c,     *)
(* compiled with BUFFER_FAST, between one writer and one reader.  One of   *)
(* them is an interrupt: its calls run to completion between two           *)
(* statements of the other, which is a task.  The console uses it both     *)
(* ways round: the interrupt writes rx_buffer and reads tx_buffer.         *)
(*                                                                         *)
(* There is one action per statement that touches a field of the structure *)
(* or copies data; each reads at most one field that the other side writes.*)
(* A byte is the number under which it was written: 1, 2, ...              *)
(***************************************************************************)
EXTENDS Naturals, Sequences

CONSTANTS Size,       \* cells of the buffer, of which one stays free
          Isr,        \* which side is the interrupt: "writer" or "reader"
          MaxBytes    \* bound on the bytes written in a behaviour

ASSUME SizeAssumption == Size \in Nat \ {0, 1}
ASSUME IsrAssumption == Isr \in {"writer", "reader"}
ASSUME MaxBytesAssumption == MaxBytes \in Nat

VARIABLES Buffer,     \* the cells
          In,         \* where the next byte is written
          Out,        \* where the next byte is read
          w,          \* the call of TM_BUFFER_Write: where it is, bytes left to copy
          r,          \* the call of TM_BUFFER_Read, and the piece it copied last
          written,    \* bytes the writer made visible by moving In
          got         \* bytes the reader copied and released by moving Out

vars == <<Buffer, In, Out, w, r, written, got>>

Cells == 0..(Size - 1)

\* Places of a call, in their order: before the first copy, before the index
\* moves, before the index restarts, before the second copy, before the index
\* moves again, before the final test of the index.
Places == {"idle", "copy", "advance", "restart", "copyRest", "advanceRest", "wrap"}

TypeOK == /\ Buffer \in [Cells -> Nat]
          /\ In \in 0..Size /\ Out \in 0..Size
          /\ w \in [pc : Places, count : Nat]
          /\ r \in [pc : Places, count : Nat, data : Seq(Nat)]
          /\ written \in Nat
          /\ got \in Seq(Nat)

\* TM_BUFFER_Init
Init == /\ Buffer = [c \in Cells |-> 0]
        /\ In = 0 /\ Out = 0
        /\ w = [pc |-> "idle", count |-> 0]
        /\ r = [pc |-> "idle", count |-> 0, data |-> <<>>]
        /\ written = 0
        /\ got = <<>>

\* TM_BUFFER_GetFull; the second alternative is the overflow mode.
GetFull(in, out) == IF in >= out THEN in - out ELSE Size - (out - in)

\* The overflow mode is forgotten.
MutantFlat_GetFree(in, out) == Size - in + out - 1

\* TM_BUFFER_GetFree; one cell is kept free, so that full differs from empty.
GetFree(in, out) == IF out > in THEN out - in - 1 ELSE Size - (in - out) - 1

Wrapped(index) == IF index >= Size THEN 0 ELSE index
Smaller(a, b) == IF a < b THEN a ELSE b

\* How much of count bytes fits before the end of the buffer.
ToCopy(index, count) == Smaller(Size - index, count)

WriterMayRun == Isr = "writer" \/ r.pc = "idle"
ReaderMayRun == Isr = "reader" \/ w.pc = "idle"

--------------------------------------------------------------------------------
\* TM_BUFFER_Write

\* Tests the index and measures the free space; a full buffer ends the call.
WriteCall(n) ==
    /\ w.pc = "idle" /\ WriterMayRun
    /\ written + n <= MaxBytes
    /\ In' = Wrapped(In)
    /\ LET free == GetFree(Wrapped(In), Out)
       IN  w' = IF free = 0 THEN w ELSE [pc |-> "copy", count |-> Smaller(n, free)]
    /\ UNCHANGED <<Buffer, Out, r, written, got>>

\* memcpy of n new bytes from cell at on
CopyIn(at, n) == [c \in Cells |-> IF c \in at..(at + n - 1) THEN written + 1 + (c - at)
                                                           ELSE Buffer[c]]

WriteCopy ==
    /\ w.pc = "copy" /\ WriterMayRun
    /\ Buffer' = CopyIn(In, ToCopy(In, w.count))
    /\ w' = [w EXCEPT !.pc = "advance"]
    /\ UNCHANGED <<In, Out, r, written, got>>

\* In may become Size here.
WriteAdvance ==
    /\ w.pc = "advance" /\ WriterMayRun
    /\ LET n == ToCopy(In, w.count)
       IN  /\ In' = In + n
           /\ written' = written + n
           /\ w' = [pc |-> IF w.count > n THEN "restart" ELSE "wrap", count |-> w.count - n]
    /\ UNCHANGED <<Buffer, Out, r, got>>

\* The index does not restart before the second copy.
Mutant_WriteRestart ==
    /\ w.pc = "restart" /\ WriterMayRun
    /\ w' = [w EXCEPT !.pc = "copyRest"]
    /\ UNCHANGED <<Buffer, In, Out, r, written, got>>

WriteRestart ==
    /\ w.pc = "restart" /\ WriterMayRun
    /\ In' = 0
    /\ w' = [w EXCEPT !.pc = "copyRest"]
    /\ UNCHANGED <<Buffer, Out, r, written, got>>

WriteCopyRest ==
    /\ w.pc = "copyRest" /\ WriterMayRun
    /\ Buffer' = CopyIn(In, w.count)
    /\ w' = [w EXCEPT !.pc = "advanceRest"]
    /\ UNCHANGED <<In, Out, r, written, got>>

WriteAdvanceRest ==
    /\ w.pc = "advanceRest" /\ WriterMayRun
    /\ In' = w.count
    /\ written' = written + w.count
    /\ w' = [pc |-> "wrap", count |-> 0]
    /\ UNCHANGED <<Buffer, Out, r, got>>

\* The end of the call, whose index may stand behind the last cell.
WriteWrap ==
    /\ w.pc = "wrap" /\ WriterMayRun
    /\ In' = Wrapped(In)
    /\ w' = [pc |-> "idle", count |-> 0]
    /\ UNCHANGED <<Buffer, Out, r, written, got>>

Write == \/ \E n \in 1..Size : WriteCall(n)
         \/ WriteCopy \/ WriteAdvance
         \/ WriteRestart \/ WriteCopyRest \/ WriteAdvanceRest
         \/ WriteWrap

--------------------------------------------------------------------------------
\* TM_BUFFER_Read, the mirror image

ReadCall(n) ==
    /\ r.pc = "idle" /\ ReaderMayRun
    /\ Out' = Wrapped(Out)
    /\ LET full == GetFull(In, Wrapped(Out))
       IN  r' = IF full = 0 THEN r
                ELSE [pc |-> "copy", count |-> Smaller(n, full), data |-> <<>>]
    /\ UNCHANGED <<Buffer, In, w, written, got>>

\* memcpy of n bytes from cell at on
CopyOut(at, n) == [i \in 1..n |-> Buffer[at + i - 1]]

ReadCopy ==
    /\ r.pc = "copy" /\ ReaderMayRun
    /\ r' = [r EXCEPT !.pc = "advance", !.data = CopyOut(Out, ToCopy(Out, r.count))]
    /\ UNCHANGED <<Buffer, In, Out, w, written, got>>

ReadAdvance ==
    /\ r.pc = "advance" /\ ReaderMayRun
    /\ LET n == ToCopy(Out, r.count)
       IN  /\ Out' = Out + n
           /\ r' = [r EXCEPT !.pc = IF r.count > n THEN "restart" ELSE "wrap",
                             !.count = r.count - n]
    /\ got' = got \o r.data
    /\ UNCHANGED <<Buffer, In, w, written>>

ReadRestart ==
    /\ r.pc = "restart" /\ ReaderMayRun
    /\ Out' = 0
    /\ r' = [r EXCEPT !.pc = "copyRest"]
    /\ UNCHANGED <<Buffer, In, w, written, got>>

ReadCopyRest ==
    /\ r.pc = "copyRest" /\ ReaderMayRun
    /\ r' = [r EXCEPT !.pc = "advanceRest", !.data = CopyOut(Out, r.count)]
    /\ UNCHANGED <<Buffer, In, Out, w, written, got>>

ReadAdvanceRest ==
    /\ r.pc = "advanceRest" /\ ReaderMayRun
    /\ Out' = r.count
    /\ got' = got \o r.data
    /\ r' = [r EXCEPT !.pc = "wrap", !.count = 0]
    /\ UNCHANGED <<Buffer, In, w, written>>

ReadWrap ==
    /\ r.pc = "wrap" /\ ReaderMayRun
    /\ Out' = Wrapped(Out)
    /\ r' = [pc |-> "idle", count |-> 0, data |-> <<>>]
    /\ UNCHANGED <<Buffer, In, w, written, got>>

Read == \/ \E n \in 1..Size : ReadCall(n)
        \/ ReadCopy \/ ReadAdvance
        \/ ReadRestart \/ ReadCopyRest \/ ReadAdvanceRest
        \/ ReadWrap

Next == Write \/ Read

Spec == Init /\ [][Next]_vars

--------------------------------------------------------------------------------
\* The reader gets exactly the bytes that were written, in their order: none
\* is lost, repeated, or made up from a cell that holds no byte.
ReadsWhatWasWritten == \A i \in 1..Len(got) : got[i] = i

\* The cell k places after an index
Cell(index, k) == IF index + k < Size THEN index + k ELSE index + k - Size

\* Cells a call has not released yet
CellsLeft(call, index) == {Cell(index, k) : k \in 0..(call.count - 1)}

\* The two memcpys never touch the same cell, although each side measured the
\* buffer before the other moved its index: a copy need not be atomic.
CopiesDisjoint == CellsLeft(w, In) \cap CellsLeft(r, Out) = {}

\* The bytes from Out to In are the queue.
FifoQueue == [i \in 1..GetFull(In, Out) |-> Buffer[Cell(Out, i - 1)]]

Fifo == INSTANCE BoundedFifo WITH Capacity <- Size - 1, queue <- FifoQueue

\* The ring buffer is a bounded first-in first-out queue, whatever statement
\* of one side the other side's call falls into.
ImplementsFifo == Fifo!Spec
=============================================================================
