------------------------------- MODULE RingBuf ------------------------------
(***************************************************************************)
(* tuya_ringbuf.c: a byte ring with two cursors and no lock.  One writer   *)
(* and one reader use it; a cursor update takes several stores, so the     *)
(* other side can see a cursor that equals len (past the end) before it is *)
(* wrapped to 0.                                                           *)
(*                                                                         *)
(* Preempts names the sides that may run while the other is inside a call: *)
(* {} is a caller that locks around every call, {"writer"} a writer in an  *)
(* interrupt handler (a UART receiver) and a reader in a task,             *)
(* {"reader"} the reverse, both is two free-running threads.  A reader     *)
(* that runs inside a wrapping write sees in one past the end: it can      *)
(* empty the ring there and then takes the bytes before cell 0 for new.    *)
(* What is claimed below is claimed of readers that wait for the writer.   *)
(*                                                                         *)
(* The k-th byte ever written has the value k; written and read count the  *)
(* bytes made visible by the in cursor and consumed by the out cursor.     *)
(***************************************************************************)
EXTENDS Integers

CONSTANTS BufLen,    \* rbuff->len, a UINT16_T
          MaxReq,    \* bound: the largest length one call asks for
          MaxBytes,  \* bound: how many bytes a behaviour writes
          Preempts   \* the sides that may interrupt the other one

UINT16_MAX == 65535

ASSUME BufLenAssumption == BufLen \in Nat \ {0} /\ BufLen <= UINT16_MAX
ASSUME BoundAssumption == MaxReq \in Nat /\ MaxBytes \in Nat
ASSUME PreemptsAssumption == Preempts \subseteq {"reader", "writer"}

VARIABLES in, out,  \* rbuff->in and rbuff->out
          buff,     \* rbuff->buff: the value last stored in each cell
          written, read,
          wpc, wlen,       \* the writer: where it is, its local len
          rpc, rlen,       \* the reader: where it is, its local len
          data, start      \* what the reader's call has copied so far, and
                           \* the value of read when the call began

vars == <<in, out, buff, written, read, wpc, wlen, rpc, rlen, data, start>>
writerVars == <<in, buff, written, wpc, wlen>>
readerVars == <<out, read, rpc, rlen, data, start>>

GetMin(x, y) == IF x < y THEN x ELSE y

\* Slip: the cell that tells full from empty is given away.
FreeSizeWholeBuffer(i, o) ==
  IF i = o THEN BufLen ELSE IF o > i THEN o - i ELSE BufLen - (i - o)

\* tuya_ring_buff_free_size_get and tuya_ring_buff_used_size_get; the former
\* ends in a UINT16_T subtraction, which wraps.
FreeSize(i, o) ==
  LET size == IF i = o THEN BufLen
              ELSE IF o > i THEN o - i
              ELSE BufLen - (i - o)
  IN  IF size = 0 THEN UINT16_MAX ELSE size - 1

UsedSize(i, o) ==
  IF i = o THEN 0 ELSE IF i > o THEN i - o ELSE BufLen - (o - i)

\* n cells from position p, as memcpy reads them.
Chunk(p, n) == [k \in 0..(n - 1) |-> buff[p + k]]

\* The buffer after memcpy stored the n bytes numbered v, v+1, ... at p.
Stored(p, n, v) ==
  [c \in DOMAIN buff |-> IF p <= c /\ c < p + n THEN v + (c - p) ELSE buff[c]]

\* The caller's buffer after memcpy appended chunk to it.
Appended(d, chunk, dlen, n) ==
  [k \in 0..(dlen + n - 1) |-> IF k < dlen THEN d[k] ELSE chunk[k - dlen]]

WriterMayRun == rpc = "idle" \/ "writer" \in Preempts
ReaderMayRun == wpc = "idle" \/ "reader" \in Preempts

Init ==
  /\ in = 0 /\ out = 0
  /\ buff = [c \in 0..(BufLen - 1) |-> -1]
  /\ written = 0 /\ read = 0
  /\ wpc = "idle" /\ wlen = 0
  /\ rpc = "idle" /\ rlen = 0
  /\ data = [k \in {} |-> 0] /\ start = 0

-----------------------------------------------------------------------------
(* tuya_ring_buff_write: a call that finds no room returns 0 and changes   *)
(* nothing, so it is not a step.                                           *)

WriteCall(n) ==
  /\ WriterMayRun /\ wpc = "idle"
  /\ written + n <= MaxBytes
  /\ wlen' = GetMin(FreeSize(in, out), n)
  /\ wlen' > 0
  /\ wpc' = "copy"
  /\ UNCHANGED <<in, buff, written, readerVars>>

WriteCopy ==
  /\ WriterMayRun /\ wpc = "copy"
  /\ buff' = Stored(in, GetMin(BufLen - in, wlen), written)
  /\ wpc' = "advance"
  /\ UNCHANGED <<in, written, wlen, readerVars>>

WriteAdvance ==
  /\ WriterMayRun /\ wpc = "advance"
  /\ LET tmp == GetMin(BufLen - in, wlen)
     IN  /\ in' = in + tmp
         /\ written' = written + tmp
         /\ wlen' = wlen - tmp
         /\ wpc' = IF wlen > tmp THEN "copy_rest" ELSE "wrap"
  /\ UNCHANGED <<buff, readerVars>>

\* Slip: the second memcpy starts again at pdata instead of pdata + tmp_len.
WriteCopyRestFromStart ==
  /\ WriterMayRun /\ wpc = "copy_rest"
  /\ buff' = Stored(0, wlen, written - 1)
  /\ wpc' = "advance_rest"
  /\ UNCHANGED <<in, written, wlen, readerVars>>

WriteCopyRest ==
  /\ WriterMayRun /\ wpc = "copy_rest"
  /\ buff' = Stored(0, wlen, written)
  /\ wpc' = "advance_rest"
  /\ UNCHANGED <<in, written, wlen, readerVars>>

WriteAdvanceRest ==
  /\ WriterMayRun /\ wpc = "advance_rest"
  /\ in' = wlen
  /\ written' = written + wlen
  /\ wpc' = "wrap"
  /\ UNCHANGED <<buff, wlen, readerVars>>

WriteWrap ==
  /\ WriterMayRun /\ wpc = "wrap"
  /\ in' = IF in >= BufLen THEN 0 ELSE in
  /\ wpc' = "idle"
  /\ wlen' = 0
  /\ UNCHANGED <<buff, written, readerVars>>

-----------------------------------------------------------------------------
(* tuya_ring_buff_read and tuya_ring_buff_peek.                            *)

ReadCall(n) ==
  /\ ReaderMayRun /\ rpc = "idle"
  /\ rlen' = GetMin(UsedSize(in, out), n)
  /\ rlen' > 0
  /\ rpc' = "copy"
  /\ data' = [k \in {} |-> 0] /\ start' = read
  /\ UNCHANGED <<out, read, writerVars>>

ReadCopy ==
  /\ ReaderMayRun /\ rpc = "copy"
  /\ data' = Chunk(out, GetMin(BufLen - out, rlen))
  /\ rpc' = "advance"
  /\ UNCHANGED <<out, read, rlen, start, writerVars>>

\* Slip: out moves by the whole length before the rest is copied.
ReadAdvanceByWhole ==
  /\ ReaderMayRun /\ rpc = "advance"
  /\ LET tmp == GetMin(BufLen - out, rlen)
     IN  /\ out' = out + rlen
         /\ read' = read + tmp
         /\ rlen' = rlen - tmp
         /\ rpc' = IF rlen > tmp THEN "copy_rest" ELSE "wrap"
  /\ UNCHANGED <<data, start, writerVars>>

ReadAdvance ==
  /\ ReaderMayRun /\ rpc = "advance"
  /\ LET tmp == GetMin(BufLen - out, rlen)
     IN  /\ out' = out + tmp
         /\ read' = read + tmp
         /\ rlen' = rlen - tmp
         /\ rpc' = IF rlen > tmp THEN "copy_rest" ELSE "wrap"
  /\ UNCHANGED <<data, start, writerVars>>

ReadCopyRest ==
  /\ ReaderMayRun /\ rpc = "copy_rest"
  /\ data' = Appended(data, Chunk(0, rlen), read - start, rlen)
  /\ rpc' = "advance_rest"
  /\ UNCHANGED <<out, read, rlen, start, writerVars>>

ReadAdvanceRest ==
  /\ ReaderMayRun /\ rpc = "advance_rest"
  /\ out' = rlen
  /\ read' = read + rlen
  /\ rpc' = "wrap"
  /\ UNCHANGED <<rlen, data, start, writerVars>>

ReadWrap ==
  /\ ReaderMayRun /\ rpc = "wrap"
  /\ out' = IF out >= BufLen THEN 0 ELSE out
  /\ rpc' = "idle"
  /\ rlen' = 0
  /\ UNCHANGED <<read, data, start, writerVars>>

\* peek reads the cursors once, then copies without moving out.
PeekCall(n) ==
  /\ ReaderMayRun /\ rpc = "idle"
  /\ rlen' = GetMin(n, UsedSize(in, out))
  /\ rlen' > 0
  /\ rpc' = "peek"
  /\ data' = [k \in {} |-> 0] /\ start' = read
  /\ UNCHANGED <<out, read, writerVars>>

PeekCopy ==
  /\ ReaderMayRun /\ rpc = "peek"
  /\ LET tmp == GetMin(BufLen - out, rlen)
     IN  data' = Appended(Chunk(out, tmp), Chunk(0, rlen - tmp), tmp, rlen - tmp)
  /\ rpc' = "idle"
  /\ rlen' = 0
  /\ UNCHANGED <<out, read, start, writerVars>>

-----------------------------------------------------------------------------
(* tuya_ring_buff_reset, called by the reader to drop what is unread: in   *)
(* and then out are set to 0.  No writer is inside a call when it stores   *)
(* to in (a reader that does not preempt never runs then).                 *)

ResetIn ==
  /\ ReaderMayRun /\ rpc = "idle"
  /\ in' = 0
  /\ read' = written
  /\ rpc' = "reset"
  /\ UNCHANGED <<out, buff, written, wpc, wlen, rlen, data, start>>

ResetOut ==
  /\ ReaderMayRun /\ rpc = "reset"
  /\ out' = 0
  /\ rpc' = "idle"
  /\ UNCHANGED <<read, rlen, data, start, writerVars>>

WriterNext ==
  \/ \E n \in 1..MaxReq : WriteCall(n)
  \/ WriteCopy \/ WriteAdvance \/ WriteCopyRest \/ WriteAdvanceRest \/ WriteWrap

ReaderNext ==
  \/ \E n \in 1..MaxReq : ReadCall(n) \/ PeekCall(n)
  \/ ReadCopy \/ ReadAdvance \/ ReadCopyRest \/ ReadAdvanceRest \/ ReadWrap
  \/ PeekCopy \/ ResetIn \/ ResetOut

Next == WriterNext \/ ReaderNext

Spec == Init /\ [][Next]_vars

-----------------------------------------------------------------------------
PcSet == {"idle", "copy", "advance", "copy_rest", "advance_rest", "wrap"}

\* Type invariant: the cursors stay inside the buffer or one past its end.
TypeOK ==
  /\ in \in 0..BufLen /\ out \in 0..BufLen
  /\ buff \in [0..(BufLen - 1) -> Int]
  /\ written \in 0..MaxBytes /\ read \in 0..MaxBytes
  /\ wpc \in PcSet /\ wlen \in 0..BufLen
  /\ rpc \in PcSet \cup {"peek", "reset"} /\ rlen \in 0..BufLen
  /\ start \in 0..MaxBytes

\* The j-th unread byte is in the cell j places after out, around the end.
CellOf(j) == IF out + j < BufLen THEN out + j ELSE out + j - BufLen

\* A read or a peek hands over the oldest unread bytes, each one once and in
\* the order they were written, whatever the writer does during the call.
ReadsInOrder == \A k \in DOMAIN data : data[k] = start + k

\* No unread byte is ever overwritten ("unread buff area will not be
\* overwritten when writing overflow", OVERFLOW_STOP_TYPE).  While a reset is
\* between its two stores the bytes written meanwhile start at cell 0.
UnreadIntact ==
  \A j \in 0..(written - read - 1) :
     buff[IF rpc = "reset" THEN j ELSE CellOf(j)] = read + j

\* The room that free_size_get finds is exactly what the unread bytes leave,
\* one cell kept empty, also for a writer that interrupts the reader between the
\* stores of a wrapping read, where out is one past the end.  Between the two
\* stores of a reset the cursors belong to two epochs: there it may find less
\* room, but never more than there is.
RoomExact ==
  LET room == BufLen - 1 - (written - read)
  IN  wpc = "idle" =>
        IF rpc = "reset" THEN FreeSize(in, out) <= room ELSE FreeSize(in, out) = room

\* The ring is the abstract byte channel with one cell less than its length.
Fifo == INSTANCE ByteFifo WITH Capacity <- BufLen - 1
ImplementsFifo == Fifo!FifoSpec
=============================================================================
