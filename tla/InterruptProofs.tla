--------------------------- MODULE InterruptProofs --------------------------
(***************************************************************************)
(* Proofs about the two components whose buffers an interrupt fills.       *)
(* RingBuf: for every buffer length, request size and number of bytes,     *)
(* provided that the reader never interrupts the writer.  TklAdc: for any  *)
(* threads, channels, configurations and measured values, and for a median *)
(* of any odd number of samples.                                           *)
(***************************************************************************)
EXTENDS RingBuf, TklAdc, FiniteSetTheorems, WellFoundedInduction, TLAPS

-----------------------------------------------------------------------------
(* The ring.                                                               *)

\* A cursor one past the end stands for cell 0.
Norm(x) == IF x = BufLen THEN 0 ELSE x

unread == written - read

WriterBusy == wpc \in {"copy", "advance", "copy_rest", "advance_rest"}
ReaderBusy == rpc \in {"copy", "advance", "copy_rest", "advance_rest", "peek"}

\* Where each cursor may be one past the end.
CursorInv ==
  /\ in = BufLen => wpc \in {"copy_rest", "advance_rest", "wrap"}
  /\ wpc \in {"copy_rest", "advance_rest"} => in = BufLen
  /\ out = BufLen => rpc \in {"copy_rest", "advance_rest", "wrap"}
  /\ rpc \in {"copy_rest", "advance_rest"} => out = BufLen

\* The distance between the cursors is the number of unread bytes; between
\* the two stores of a reset, in counts the bytes written since the first.
SpanInv ==
  /\ 0 <= unread /\ unread <= BufLen - 1
  /\ rpc # "reset" => Norm(in) = IF Norm(out) + unread < BufLen
                                 THEN Norm(out) + unread
                                 ELSE Norm(out) + unread - BufLen
  /\ rpc = "reset" => /\ in = unread
                      /\ out = 0 \/ unread < out

\* What the writer has still to store fits in front of the unread bytes.
RoomInv ==
  /\ WriterBusy => /\ 0 < wlen /\ unread + wlen <= BufLen - 1
                   /\ written + wlen <= MaxBytes
                   /\ rpc = "reset" => out = 0 \/ unread + wlen < out
  /\ ReaderBusy => 0 < rlen /\ rlen <= unread

\* The bytes copied but not yet covered by a cursor are the right ones.
CopyInv ==
  /\ wpc = "advance" =>
       \A j \in 0..(GetMin(BufLen - in, wlen) - 1) : buff[in + j] = written + j
  /\ wpc = "advance_rest" => \A j \in 0..(wlen - 1) : buff[j] = written + j
  /\ rpc \in {"copy", "advance", "peek"} => start = read
  /\ rpc = "advance" => DOMAIN data = 0..(GetMin(BufLen - out, rlen) - 1)
  /\ rpc = "copy_rest" => DOMAIN data = 0..(read - start - 1) /\ start <= read

IInv == TypeOK /\ CursorInv /\ SpanInv /\ RoomInv /\ CopyInv
               /\ UnreadIntact /\ ReadsInOrder

ReaderWaits == "reader" \notin Preempts

-----------------------------------------------------------------------------
(* free_size_get never subtracts 1 from 0, so its UINT16_T result is the   *)
(* number of bytes that fit beside the unread ones.                        *)
LEMMA FreeSizeValue ==
  ASSUME NEW i \in 0..(BufLen - 1), NEW o \in 0..BufLen
  PROVE  FreeSize(i, o) = (IF i = o THEN BufLen ELSE IF o > i THEN o - i
                           ELSE BufLen - (i - o)) - 1
BY BufLenAssumption DEF FreeSize

LEMMA InitInv == Init => IInv
BY BufLenAssumption, BoundAssumption
DEF Init, IInv, TypeOK, PcSet, CursorInv, SpanInv, RoomInv, CopyInv, Norm, unread,
    UnreadIntact, ReadsInOrder, WriterBusy, ReaderBusy

LEMMA WriteCallInv ==
  ASSUME IInv, ReaderWaits, NEW n \in 1..MaxReq, WriteCall(n)
  PROVE  IInv'
<1> USE BufLenAssumption, BoundAssumption DEF IInv, WriteCall,
     TypeOK, PcSet, CursorInv, SpanInv, RoomInv, CopyInv, Norm, unread,
     UnreadIntact, CellOf, ReadsInOrder, WriterBusy, ReaderBusy, GetMin, Chunk, Stored, Appended,
     WriterMayRun, ReaderMayRun, ReaderWaits, writerVars, readerVars
<1>0. FreeSize(in, out) \in 0..(BufLen - 1 - unread) /\ in < BufLen
      /\ (rpc = "reset" => out = 0 \/ unread + FreeSize(in, out) < out)
  <2>1. in \in 0..(BufLen - 1) /\ out \in 0..BufLen
    OBVIOUS
  <2>2. FreeSize(in, out) = (IF in = out THEN BufLen ELSE IF out > in THEN out - in
                             ELSE BufLen - (in - out)) - 1
    BY <2>1, FreeSizeValue
  <2> QED BY SMTT(30), <2>1, <2>2
<1>0a. wlen' \in 1..FreeSize(in, out) /\ wlen' <= n
  BY <1>0, BoundAssumption
<1>1. TypeOK'
  BY <1>0, <1>0a
<1>2. CursorInv'
  OBVIOUS
<1>3. SpanInv'
  OBVIOUS
<1>4. RoomInv'
  <2>1. 0 < wlen' /\ unread + wlen' <= BufLen - 1 /\ written + wlen' <= MaxBytes
    BY SMTT(30), <1>0, <1>0a
  <2>2. rpc = "reset" => out = 0 \/ unread + wlen' < out
    BY SMTT(30), <1>0, <1>0a
  <2> QED BY <2>1, <2>2
<1>5. CopyInv'
  OBVIOUS
<1>6. UnreadIntact'
  OBVIOUS
<1>7. ReadsInOrder'
  OBVIOUS
<1> QED BY <1>1, <1>2, <1>3, <1>4, <1>5, <1>6, <1>7

LEMMA ReadCallInv ==
  ASSUME IInv, ReaderWaits, NEW n \in 1..MaxReq, ReadCall(n)
  PROVE  IInv'
<1> USE BufLenAssumption, BoundAssumption DEF IInv, ReadCall,
     TypeOK, PcSet, CursorInv, SpanInv, RoomInv, CopyInv, Norm, unread,
     UnreadIntact, CellOf, ReadsInOrder, WriterBusy, ReaderBusy, GetMin, Chunk, Stored, Appended,
     WriterMayRun, ReaderMayRun, ReaderWaits, writerVars, readerVars
<1>0. UsedSize(in, out) = unread
  BY DEF UsedSize
<1>0a. rlen' \in 1..unread
  BY <1>0, BoundAssumption
<1>1. TypeOK'
  BY SMTT(30), <1>0a
<1>2. CursorInv'
  OBVIOUS
<1>3. SpanInv'
  OBVIOUS
<1>4. RoomInv'
  BY <1>0a
<1>5. CopyInv'
  OBVIOUS
<1>6. UnreadIntact'
  OBVIOUS
<1>7. ReadsInOrder'
  OBVIOUS
<1> QED BY <1>1, <1>2, <1>3, <1>4, <1>5, <1>6, <1>7

LEMMA PeekCallInv ==
  ASSUME IInv, ReaderWaits, NEW n \in 1..MaxReq, PeekCall(n)
  PROVE  IInv'
<1> USE BufLenAssumption, BoundAssumption DEF IInv, PeekCall,
     TypeOK, PcSet, CursorInv, SpanInv, RoomInv, CopyInv, Norm, unread,
     UnreadIntact, CellOf, ReadsInOrder, WriterBusy, ReaderBusy, GetMin, Chunk, Stored, Appended,
     WriterMayRun, ReaderMayRun, ReaderWaits, writerVars, readerVars
<1>0. UsedSize(in, out) = unread
  BY DEF UsedSize
<1>0a. rlen' \in 1..unread
  BY <1>0, BoundAssumption
<1>1. TypeOK'
  BY SMTT(30), <1>0a
<1>2. CursorInv'
  OBVIOUS
<1>3. SpanInv'
  OBVIOUS
<1>4. RoomInv'
  BY <1>0a
<1>5. CopyInv'
  OBVIOUS
<1>6. UnreadIntact'
  OBVIOUS
<1>7. ReadsInOrder'
  OBVIOUS
<1> QED BY <1>1, <1>2, <1>3, <1>4, <1>5, <1>6, <1>7

LEMMA WriteCopyInv ==
  ASSUME IInv, ReaderWaits, WriteCopy
  PROVE  IInv'
<1> USE BufLenAssumption, BoundAssumption DEF IInv, WriteCopy,
     TypeOK, PcSet, CursorInv, SpanInv, RoomInv, CopyInv, Norm, unread,
     UnreadIntact, CellOf, ReadsInOrder, WriterBusy, ReaderBusy, GetMin, Chunk, Stored, Appended,
     WriterMayRun, ReaderMayRun, ReaderWaits, writerVars, readerVars
<1>1. TypeOK'
  OBVIOUS
<1>2. CursorInv'
  OBVIOUS
<1>3. SpanInv'
  OBVIOUS
<1>4. RoomInv'
  OBVIOUS
<1>5. CopyInv'
  OBVIOUS
<1>6. UnreadIntact'
  <2> SUFFICES ASSUME NEW j \in 0..(unread - 1)
               PROVE  buff'[IF rpc = "reset" THEN j ELSE CellOf(j)] = read + j
    OBVIOUS
  <2> DEFINE c == IF rpc = "reset" THEN j ELSE CellOf(j)
  <2>1. c \in 0..(BufLen - 1) /\ buff[c] = read + j
    <3>1. c \in 0..(BufLen - 1)
      OBVIOUS
    <3>2. buff[c] = read + j
      BY UnreadIntact DEF unread
    <3> QED BY <3>1, <3>2
  <2>2. ~(in <= c /\ c < in + GetMin(BufLen - in, wlen))
    OBVIOUS
  <2>3. buff'[c] = buff[c]
    BY <2>1, <2>2
  <2> QED BY <2>1, <2>3
<1>7. ReadsInOrder'
  OBVIOUS
<1> QED BY <1>1, <1>2, <1>3, <1>4, <1>5, <1>6, <1>7

LEMMA WriteAdvanceInv ==
  ASSUME IInv, ReaderWaits, WriteAdvance
  PROVE  IInv'
<1> USE BufLenAssumption, BoundAssumption DEF IInv, WriteAdvance,
     TypeOK, PcSet, CursorInv, SpanInv, RoomInv, CopyInv, Norm, unread,
     UnreadIntact, CellOf, ReadsInOrder, WriterBusy, ReaderBusy, GetMin, Chunk, Stored, Appended,
     WriterMayRun, ReaderMayRun, ReaderWaits, writerVars, readerVars
<1>1. TypeOK'
  OBVIOUS
<1>2. CursorInv'
  OBVIOUS
<1>3. SpanInv'
  OBVIOUS
<1>4. RoomInv'
  OBVIOUS
<1>5. CopyInv'
  OBVIOUS
<1>6. UnreadIntact'
  <2> SUFFICES ASSUME NEW j \in 0..(unread' - 1)
               PROVE  buff[IF rpc = "reset" THEN j ELSE CellOf(j)] = read + j
    OBVIOUS
  <2>1. CASE j < unread
    <3>1. j \in 0..(written - read - 1)
      BY <2>1
    <3> QED BY <3>1
  <2>2. CASE j >= unread
    <3>1. PICK k \in 0..(GetMin(BufLen - in, wlen) - 1) : j = unread + k
      BY <2>2
    <3>2. buff[in + k] = written + k
      BY <3>1
    <3>3. (IF rpc = "reset" THEN j ELSE CellOf(j)) = in + k
      BY <3>1
    <3> QED BY <3>1, <3>2, <3>3
  <2> QED BY <2>1, <2>2
<1>7. ReadsInOrder'
  OBVIOUS
<1> QED BY <1>1, <1>2, <1>3, <1>4, <1>5, <1>6, <1>7

LEMMA WriteCopyRestInv ==
  ASSUME IInv, ReaderWaits, WriteCopyRest
  PROVE  IInv'
<1> USE BufLenAssumption, BoundAssumption DEF IInv, WriteCopyRest,
     TypeOK, PcSet, CursorInv, SpanInv, RoomInv, CopyInv, Norm, unread,
     UnreadIntact, CellOf, ReadsInOrder, WriterBusy, ReaderBusy, GetMin, Chunk, Stored, Appended,
     WriterMayRun, ReaderMayRun, ReaderWaits, writerVars, readerVars
<1>1. TypeOK'
  OBVIOUS
<1>2. CursorInv'
  OBVIOUS
<1>3. SpanInv'
  OBVIOUS
<1>4. RoomInv'
  OBVIOUS
<1>5. CopyInv'
  OBVIOUS
<1>6. UnreadIntact'
  <2> SUFFICES ASSUME NEW j \in 0..(unread - 1)
               PROVE  buff'[IF rpc = "reset" THEN j ELSE CellOf(j)] = read + j
    OBVIOUS
  <2> DEFINE c == IF rpc = "reset" THEN j ELSE CellOf(j)
  <2>1. c \in 0..(BufLen - 1) /\ buff[c] = read + j
    <3>1. c \in 0..(BufLen - 1)
      OBVIOUS
    <3>2. buff[c] = read + j
      BY UnreadIntact DEF unread
    <3> QED BY <3>1, <3>2
  <2>2. ~(0 <= c /\ c < wlen)
    OBVIOUS
  <2>3. buff'[c] = buff[c]
    BY <2>1, <2>2
  <2> QED BY <2>1, <2>3
<1>7. ReadsInOrder'
  OBVIOUS
<1> QED BY <1>1, <1>2, <1>3, <1>4, <1>5, <1>6, <1>7

LEMMA WriteAdvanceRestInv ==
  ASSUME IInv, ReaderWaits, WriteAdvanceRest
  PROVE  IInv'
<1> USE BufLenAssumption, BoundAssumption DEF IInv, WriteAdvanceRest,
     TypeOK, PcSet, CursorInv, SpanInv, RoomInv, CopyInv, Norm, unread,
     UnreadIntact, CellOf, ReadsInOrder, WriterBusy, ReaderBusy, GetMin, Chunk, Stored, Appended,
     WriterMayRun, ReaderMayRun, ReaderWaits, writerVars, readerVars
<1>1. TypeOK'
  OBVIOUS
<1>2. CursorInv'
  OBVIOUS
<1>3. SpanInv'
  OBVIOUS
<1>4. RoomInv'
  OBVIOUS
<1>5. CopyInv'
  OBVIOUS
<1>6. UnreadIntact'
  BY SMTT(30)
<1>7. ReadsInOrder'
  OBVIOUS
<1> QED BY <1>1, <1>2, <1>3, <1>4, <1>5, <1>6, <1>7

LEMMA WriteWrapInv ==
  ASSUME IInv, ReaderWaits, WriteWrap
  PROVE  IInv'
<1> USE BufLenAssumption, BoundAssumption DEF IInv, WriteWrap,
     TypeOK, PcSet, CursorInv, SpanInv, RoomInv, CopyInv, Norm, unread,
     UnreadIntact, CellOf, ReadsInOrder, WriterBusy, ReaderBusy, GetMin, Chunk, Stored, Appended,
     WriterMayRun, ReaderMayRun, ReaderWaits, writerVars, readerVars
<1>1. TypeOK'
  OBVIOUS
<1>2. CursorInv'
  OBVIOUS
<1>3. SpanInv'
  OBVIOUS
<1>4. RoomInv'
  OBVIOUS
<1>5. CopyInv'
  OBVIOUS
<1>6. UnreadIntact'
  OBVIOUS
<1>7. ReadsInOrder'
  OBVIOUS
<1> QED BY <1>1, <1>2, <1>3, <1>4, <1>5, <1>6, <1>7

LEMMA ReadCopyInv ==
  ASSUME IInv, ReaderWaits, ReadCopy
  PROVE  IInv'
<1> USE BufLenAssumption, BoundAssumption DEF IInv, ReadCopy,
     TypeOK, PcSet, CursorInv, SpanInv, RoomInv, CopyInv, Norm, unread,
     UnreadIntact, CellOf, ReadsInOrder, WriterBusy, ReaderBusy, GetMin, Chunk, Stored, Appended,
     WriterMayRun, ReaderMayRun, ReaderWaits, writerVars, readerVars
<1>1. TypeOK'
  OBVIOUS
<1>2. CursorInv'
  OBVIOUS
<1>3. SpanInv'
  OBVIOUS
<1>4. RoomInv'
  OBVIOUS
<1>5. CopyInv'
  OBVIOUS
<1>6. UnreadIntact'
  OBVIOUS
<1>7. ReadsInOrder'
  <2> SUFFICES ASSUME NEW k \in 0..(GetMin(BufLen - out, rlen) - 1)
               PROVE  buff[out + k] = start + k
    OBVIOUS
  <2>1. k \in 0..(unread - 1) /\ CellOf(k) = out + k
    OBVIOUS
  <2> QED BY <2>1
<1> QED BY <1>1, <1>2, <1>3, <1>4, <1>5, <1>6, <1>7

LEMMA ReadAdvanceInv ==
  ASSUME IInv, ReaderWaits, ReadAdvance
  PROVE  IInv'
<1> USE BufLenAssumption, BoundAssumption DEF IInv, ReadAdvance,
     TypeOK, PcSet, CursorInv, SpanInv, RoomInv, CopyInv, Norm, unread,
     UnreadIntact, CellOf, ReadsInOrder, WriterBusy, ReaderBusy, GetMin, Chunk, Stored, Appended,
     WriterMayRun, ReaderMayRun, ReaderWaits, writerVars, readerVars
<1>1. TypeOK'
  OBVIOUS
<1>2. CursorInv'
  OBVIOUS
<1>3. SpanInv'
  OBVIOUS
<1>4. RoomInv'
  OBVIOUS
<1>5. CopyInv'
  OBVIOUS
<1>6. UnreadIntact'
  <2> DEFINE tmp == GetMin(BufLen - out, rlen)
  <2> SUFFICES ASSUME NEW j \in 0..(unread' - 1)
               PROVE  buff[CellOf(j)'] = read' + j
    OBVIOUS
  <2>1. j + tmp \in 0..(unread - 1)
    OBVIOUS
  <2>2. CellOf(j)' = CellOf(j + tmp)
    OBVIOUS
  <2>3. buff[CellOf(j + tmp)] = read + (j + tmp)
    BY <2>1
  <2> QED BY <2>2, <2>3
<1>7. ReadsInOrder'
  OBVIOUS
<1> QED BY <1>1, <1>2, <1>3, <1>4, <1>5, <1>6, <1>7

LEMMA ReadCopyRestInv ==
  ASSUME IInv, ReaderWaits, ReadCopyRest
  PROVE  IInv'
<1> USE BufLenAssumption, BoundAssumption DEF IInv, ReadCopyRest,
     TypeOK, PcSet, CursorInv, SpanInv, RoomInv, CopyInv, Norm, unread,
     UnreadIntact, CellOf, ReadsInOrder, WriterBusy, ReaderBusy, GetMin, Chunk, Stored, Appended,
     WriterMayRun, ReaderMayRun, ReaderWaits, writerVars, readerVars
<1>1. TypeOK'
  OBVIOUS
<1>2. CursorInv'
  OBVIOUS
<1>3. SpanInv'
  OBVIOUS
<1>4. RoomInv'
  OBVIOUS
<1>5. CopyInv'
  OBVIOUS
<1>6. UnreadIntact'
  OBVIOUS
<1>7. ReadsInOrder'
  <2> DEFINE d == read - start
  <2>1. \A k \in 0..(rlen - 1) : buff[k] = read + k
    <3> SUFFICES ASSUME NEW k \in 0..(rlen - 1) PROVE buff[k] = read + k
      OBVIOUS
    <3>1. k \in 0..(unread - 1) /\ CellOf(k) = k
      OBVIOUS
    <3> QED BY <3>1
  <2>2. ASSUME NEW k \in 0..(d + rlen - 1) PROVE data'[k] = start + k
    <3>1. CASE k < d
      <4>1. k \in 0..(read - start - 1)
        BY <3>1
      <4>2. DOMAIN data = 0..(read - start - 1)
        OBVIOUS
      <4>3. data[k] = start + k
        BY <4>1, <4>2
      <4> QED BY <3>1, <4>3
    <3>2. CASE k >= d
      BY <3>2, <2>1
    <3> QED BY <3>1, <3>2
  <2>3. DOMAIN data' = 0..(d + rlen - 1)
    OBVIOUS
  <2> QED BY <2>2, <2>3
<1> QED BY <1>1, <1>2, <1>3, <1>4, <1>5, <1>6, <1>7

LEMMA ReadAdvanceRestInv ==
  ASSUME IInv, ReaderWaits, ReadAdvanceRest
  PROVE  IInv'
<1> USE BufLenAssumption, BoundAssumption DEF IInv, ReadAdvanceRest,
     TypeOK, PcSet, CursorInv, SpanInv, RoomInv, CopyInv, Norm, unread,
     UnreadIntact, CellOf, ReadsInOrder, WriterBusy, ReaderBusy, GetMin, Chunk, Stored, Appended,
     WriterMayRun, ReaderMayRun, ReaderWaits, writerVars, readerVars
<1>1. TypeOK'
  OBVIOUS
<1>2. CursorInv'
  OBVIOUS
<1>3. SpanInv'
  OBVIOUS
<1>4. RoomInv'
  OBVIOUS
<1>5. CopyInv'
  OBVIOUS
<1>6. UnreadIntact'
  OBVIOUS
<1>7. ReadsInOrder'
  OBVIOUS
<1> QED BY <1>1, <1>2, <1>3, <1>4, <1>5, <1>6, <1>7

LEMMA ReadWrapInv ==
  ASSUME IInv, ReaderWaits, ReadWrap
  PROVE  IInv'
<1> USE BufLenAssumption, BoundAssumption DEF IInv, ReadWrap,
     TypeOK, PcSet, CursorInv, SpanInv, RoomInv, CopyInv, Norm, unread,
     UnreadIntact, CellOf, ReadsInOrder, WriterBusy, ReaderBusy, GetMin, Chunk, Stored, Appended,
     WriterMayRun, ReaderMayRun, ReaderWaits, writerVars, readerVars
<1>1. TypeOK'
  OBVIOUS
<1>2. CursorInv'
  OBVIOUS
<1>3. SpanInv'
  OBVIOUS
<1>4. RoomInv'
  OBVIOUS
<1>5. CopyInv'
  OBVIOUS
<1>6. UnreadIntact'
  <2>1. \A j \in 0..(unread - 1) : CellOf(j)' = CellOf(j)
    OBVIOUS
  <2> QED BY <2>1
<1>7. ReadsInOrder'
  OBVIOUS
<1> QED BY <1>1, <1>2, <1>3, <1>4, <1>5, <1>6, <1>7

LEMMA PeekCopyInv ==
  ASSUME IInv, ReaderWaits, PeekCopy
  PROVE  IInv'
<1> USE BufLenAssumption, BoundAssumption DEF IInv, PeekCopy,
     TypeOK, PcSet, CursorInv, SpanInv, RoomInv, CopyInv, Norm, unread,
     UnreadIntact, CellOf, ReadsInOrder, WriterBusy, ReaderBusy, GetMin, Chunk, Stored, Appended,
     WriterMayRun, ReaderMayRun, ReaderWaits, writerVars, readerVars
<1>1. TypeOK'
  OBVIOUS
<1>2. CursorInv'
  OBVIOUS
<1>3. SpanInv'
  OBVIOUS
<1>4. RoomInv'
  OBVIOUS
<1>5. CopyInv'
  OBVIOUS
<1>6. UnreadIntact'
  OBVIOUS
<1>7. ReadsInOrder'
  <2> DEFINE tmp == GetMin(BufLen - out, rlen)
  <2>1. \A k \in 0..(rlen - 1) :
          buff[IF k < tmp THEN out + k ELSE k - tmp] = read + k
    <3> SUFFICES ASSUME NEW k \in 0..(rlen - 1)
                 PROVE  buff[IF k < tmp THEN out + k ELSE k - tmp] = read + k
      OBVIOUS
    <3>1. k \in 0..(unread - 1)
          /\ CellOf(k) = IF k < tmp THEN out + k ELSE k - tmp
      OBVIOUS
    <3> QED BY <3>1
  <2>2. DOMAIN data' = 0..(rlen - 1)
    OBVIOUS
  <2>3. ASSUME NEW k \in 0..(rlen - 1) PROVE data'[k] = start + k
    <3>1. data'[k] = IF k < tmp THEN buff[out + k] ELSE buff[k - tmp]
      OBVIOUS
    <3>2. buff[IF k < tmp THEN out + k ELSE k - tmp] = read + k
      BY <2>1
    <3> QED BY <3>1, <3>2
  <2> QED BY <2>2, <2>3
<1> QED BY <1>1, <1>2, <1>3, <1>4, <1>5, <1>6, <1>7

LEMMA ResetInInv ==
  ASSUME IInv, ReaderWaits, ResetIn
  PROVE  IInv'
<1> USE BufLenAssumption, BoundAssumption DEF IInv, ResetIn,
     TypeOK, PcSet, CursorInv, SpanInv, RoomInv, CopyInv, Norm, unread,
     UnreadIntact, CellOf, ReadsInOrder, WriterBusy, ReaderBusy, GetMin, Chunk, Stored, Appended,
     WriterMayRun, ReaderMayRun, ReaderWaits, writerVars, readerVars
<1>1. TypeOK'
  OBVIOUS
<1>2. CursorInv'
  OBVIOUS
<1>3. SpanInv'
  OBVIOUS
<1>4. RoomInv'
  OBVIOUS
<1>5. CopyInv'
  OBVIOUS
<1>6. UnreadIntact'
  OBVIOUS
<1>7. ReadsInOrder'
  OBVIOUS
<1> QED BY <1>1, <1>2, <1>3, <1>4, <1>5, <1>6, <1>7

LEMMA ResetOutInv ==
  ASSUME IInv, ReaderWaits, ResetOut
  PROVE  IInv'
<1> USE BufLenAssumption, BoundAssumption DEF IInv, ResetOut,
     TypeOK, PcSet, CursorInv, SpanInv, RoomInv, CopyInv, Norm, unread,
     UnreadIntact, CellOf, ReadsInOrder, WriterBusy, ReaderBusy, GetMin, Chunk, Stored, Appended,
     WriterMayRun, ReaderMayRun, ReaderWaits, writerVars, readerVars
<1>1. TypeOK'
  OBVIOUS
<1>2. CursorInv'
  OBVIOUS
<1>3. SpanInv'
  OBVIOUS
<1>4. RoomInv'
  OBVIOUS
<1>5. CopyInv'
  OBVIOUS
<1>6. UnreadIntact'
  OBVIOUS
<1>7. ReadsInOrder'
  OBVIOUS
<1> QED BY <1>1, <1>2, <1>3, <1>4, <1>5, <1>6, <1>7

LEMMA StutterInv == IInv /\ UNCHANGED vars => IInv'
BY DEF vars, IInv, TypeOK, CursorInv, SpanInv, RoomInv, CopyInv, Norm, unread,
       UnreadIntact, CellOf, ReadsInOrder, WriterBusy, ReaderBusy

LEMMA NextInv == IInv /\ ReaderWaits /\ [Next]_vars => IInv'
<1> SUFFICES ASSUME IInv, ReaderWaits, [Next]_vars PROVE IInv'
  OBVIOUS
<1>1. ASSUME NEW n \in 1..MaxReq, WriteCall(n) PROVE IInv'
  BY <1>1, WriteCallInv
<1>2. ASSUME NEW n \in 1..MaxReq, ReadCall(n) PROVE IInv'
  BY <1>2, ReadCallInv
<1>3. ASSUME NEW n \in 1..MaxReq, PeekCall(n) PROVE IInv'
  BY <1>3, PeekCallInv
<1>4. CASE WriteCopy
  BY <1>4, WriteCopyInv
<1>5. CASE WriteAdvance
  BY <1>5, WriteAdvanceInv
<1>6. CASE WriteCopyRest
  BY <1>6, WriteCopyRestInv
<1>7. CASE WriteAdvanceRest
  BY <1>7, WriteAdvanceRestInv
<1>8. CASE WriteWrap
  BY <1>8, WriteWrapInv
<1>9. CASE ReadCopy
  BY <1>9, ReadCopyInv
<1>10. CASE ReadAdvance
  BY <1>10, ReadAdvanceInv
<1>11. CASE ReadCopyRest
  BY <1>11, ReadCopyRestInv
<1>12. CASE ReadAdvanceRest
  BY <1>12, ReadAdvanceRestInv
<1>13. CASE ReadWrap
  BY <1>13, ReadWrapInv
<1>14. CASE PeekCopy
  BY <1>14, PeekCopyInv
<1>15. CASE ResetIn
  BY <1>15, ResetInInv
<1>16. CASE ResetOut
  BY <1>16, ResetOutInv
<1>17. CASE UNCHANGED vars
  BY <1>17, StutterInv
<1> QED
  BY <1>1, <1>2, <1>3, <1>4, <1>5, <1>6, <1>7, <1>8, <1>9, <1>10, <1>11, <1>12, <1>13, <1>14, <1>15, <1>16, <1>17
  DEF Next, WriterNext, ReaderNext

(* With a reader that never interrupts the writer, every reachable state   *)
(* satisfies the inductive invariant: the cursors, the sizes and the bytes *)
(* in the ring agree at every point of both sides' calls.                  *)
THEOREM RingInvariant == ASSUME ReaderWaits PROVE Spec => []IInv
<1>1. Init => IInv
  BY InitInv
<1>2. IInv /\ [Next]_vars => IInv'
  BY NextInv
<1> QED BY <1>1, <1>2, PTL DEF Spec

(* Reads and peeks return the oldest unread bytes in order, and no unread  *)
(* byte is overwritten, for every length, request size and interleaving in *)
(* which the reader does not interrupt the writer.                         *)
THEOREM RingIsLossless ==
  ASSUME ReaderWaits PROVE Spec => [](TypeOK /\ ReadsInOrder /\ UnreadIntact)
<1>1. IInv => TypeOK /\ ReadsInOrder /\ UnreadIntact
  BY DEF IInv
<1> QED BY <1>1, RingInvariant, PTL

(* free_size_get tells a writer that interrupts a read, a peek or a reset   *)
(* exactly the room there is, or less while a reset is between its stores. *)
THEOREM RingRoomIsExact == ASSUME ReaderWaits PROVE Spec => []RoomExact
<1>1. IInv => RoomExact
  <2> SUFFICES ASSUME IInv, wpc = "idle"
               PROVE  /\ rpc # "reset" => FreeSize(in, out) = BufLen - 1 - unread
                      /\ rpc = "reset" => FreeSize(in, out) <= BufLen - 1 - unread
    BY DEF RoomExact, unread
  <2> USE BufLenAssumption DEF IInv, TypeOK, PcSet, CursorInv, SpanInv, Norm, unread
  <2>1. in \in 0..(BufLen - 1) /\ out \in 0..BufLen
    OBVIOUS
  <2>2. FreeSize(in, out) = (IF in = out THEN BufLen ELSE IF out > in THEN out - in
                             ELSE BufLen - (in - out)) - 1
    BY <2>1, FreeSizeValue
  <2>3. CASE rpc # "reset"
    BY <2>1, <2>2, <2>3
  <2>4. CASE rpc = "reset"
    BY <2>1, <2>2, <2>4
  <2> QED BY <2>3, <2>4
<1> QED BY <1>1, RingInvariant, PTL

(* Every step of the ring is a step of the abstract byte channel or leaves *)
(* it unchanged: cursor updates accept, deliver or drop bytes and the      *)
(* copies, the wraps and peek do neither.                                  *)
THEOREM RingImplementsFifo == ASSUME ReaderWaits PROVE Spec => ImplementsFifo
<1>1. Init => Fifo!FifoInit
  BY DEF Init, Fifo!FifoInit
<1>2. IInv /\ [Next]_vars => [Fifo!FifoNext]_(Fifo!fifoVars)
  <2> SUFFICES ASSUME IInv, [Next]_vars, ~UNCHANGED <<written, read>>
               PROVE  \/ \E n \in 1..(BufLen - 1) : Fifo!Accept(n) \/ Fifo!Deliver(n)
                      \/ Fifo!Drop
    BY DEF Fifo!FifoNext, Fifo!fifoVars
  <2> USE BufLenAssumption DEF IInv, TypeOK, PcSet, CursorInv, SpanInv, RoomInv, unread,
          WriterBusy, ReaderBusy, GetMin, writerVars, readerVars
  <2>1. CASE WriteAdvance
    <3> DEFINE tmp == GetMin(BufLen - in, wlen)
    <3>1. tmp \in 1..(BufLen - 1) /\ Fifo!Accept(tmp)
      BY <2>1 DEF WriteAdvance, Fifo!Accept
    <3> QED BY <3>1
  <2>2. CASE WriteAdvanceRest
    <3>1. wlen \in 1..(BufLen - 1) /\ Fifo!Accept(wlen)
      BY <2>2 DEF WriteAdvanceRest, Fifo!Accept
    <3> QED BY <3>1
  <2>3. CASE ReadAdvance
    <3> DEFINE tmp == GetMin(BufLen - out, rlen)
    <3>1. tmp \in 1..(BufLen - 1) /\ Fifo!Deliver(tmp)
      BY <2>3 DEF ReadAdvance, Fifo!Deliver
    <3> QED BY <3>1
  <2>4. CASE ReadAdvanceRest
    <3>1. rlen \in 1..(BufLen - 1) /\ Fifo!Deliver(rlen)
      BY <2>4 DEF ReadAdvanceRest, Fifo!Deliver
    <3> QED BY <3>1
  <2>5. CASE ResetIn
    BY <2>5 DEF ResetIn, Fifo!Drop
  <2>6. \A n \in 1..MaxReq : ~WriteCall(n) /\ ~ReadCall(n) /\ ~PeekCall(n)
    BY DEF WriteCall, ReadCall, PeekCall
  <2>7. /\ ~WriteCopy /\ ~WriteCopyRest /\ ~WriteWrap
        /\ ~ReadCopy /\ ~ReadCopyRest /\ ~ReadWrap /\ ~PeekCopy /\ ~ResetOut
    BY DEF WriteCopy, WriteCopyRest, WriteWrap, ReadCopy, ReadCopyRest, ReadWrap,
           PeekCopy, ResetOut
  <2> QED BY <2>1, <2>2, <2>3, <2>4, <2>5, <2>6, <2>7
          DEF Next, WriterNext, ReaderNext, vars
<1> QED BY <1>1, <1>2, RingInvariant, PTL DEF Spec, ImplementsFifo, Fifo!FifoSpec

-----------------------------------------------------------------------------
(* The converter.                                                          *)

AdcSize == desc.data_buff_size
AdcCnt == desc.current_sample_data_cnt

AdcPoints == {"idle", "begin", "clear", "open", "failed", "wait", "median", "average", "copy", "lost"}

AdcTypes ==
  /\ config.conv_cnt \in Nat
  /\ DOMAIN desc = {"channel", "data_buff_size", "current_sample_data_cnt"}
  /\ desc = [x \in DOMAIN desc |-> desc[x]]
  /\ AdcSize \in 0..(SizeMod - 1) /\ AdcCnt \in Nat
  /\ DOMAIN read_adc_buf = Cells /\ read_adc_buf = [i \in Cells |-> read_adc_buf[i]]
  /\ pc \in [Threads -> AdcPoints]
  /\ DOMAIN saved = Threads /\ saved = [t \in Threads |-> saved[t]]
  /\ \A t \in Threads : saved[t] \in 0..(SizeMod - 1)
  /\ raw \in Seq(Values)
  /\ overlap \in BOOLEAN

\* The device is open for one thread, which waits for it, and samples only then.
Device ==
  /\ \A t, u \in Threads : pc[t] = "wait" /\ pc[u] = "wait" => t = u
  /\ \A t \in Threads : pc[t] = "wait" => use_cnt # 0
  /\ sampling # 0 => \E t \in Threads : pc[t] = "wait"

\* Unless calls overlapped, one thread at most is in a call.
Alone ==
  ~overlap => \A t, u \in Threads : pc[t] # "idle" /\ pc[u] # "idle" => t = u

\* ... the size in the descriptor is the configured one, but between the
\* section of a call and the store that puts it back, ...
Sizes ==
  ~overlap =>
    /\ (\A t \in Threads : pc[t] = "idle") => AdcSize = Size
    /\ \A t \in Threads : pc[t] \in {"begin", "clear", "open", "copy", "lost"} => AdcSize = Size
    /\ \A t \in Threads : pc[t] \in {"failed", "wait", "median", "average"} =>
         saved[t] = Size /\ AdcSize = IF Size = 1 THEN MedianSize ELSE Size
    /\ \A t \in Threads : pc[t] \in {"median", "average"} => Size = 1

Buffered == \A i \in 1..Len(raw) : read_adc_buf[i - 1] = raw[i]

\* ... and the buffer has the samples of the read under way.
Samples ==
  ~overlap =>
    /\ \A t \in Threads : pc[t] = "wait" =>
         got = <<>> /\ AdcCnt = Len(raw) /\ AdcCnt <= AdcSize /\ Buffered
    /\ \A t \in Threads : pc[t] = "copy" /\ Size # 1 => Len(raw) = AdcSize /\ Buffered

AdcIInv == AdcTypes /\ Device /\ Alone /\ Sizes /\ Samples /\ SamplesInOrder

LEMMA AdcNumbers ==
  /\ SizeMod \in Nat \ {0} /\ MedianSize \in 0..(SizeMod - 1) /\ Cells = 0..(SizeMod - 2)
  /\ \A n \in Nat : n % SizeMod \in 0..(SizeMod - 1)
<1>1. MedianSize \in Nat /\ CharMax \in Nat /\ SizeMod \in Nat /\ MedianSize <= CharMax /\ CharMax < SizeMod
  BY TklAdcAssumption
<1> QED
  BY <1>1 DEF Cells

LEMMA NoSamples == <<>> \in Seq(Values)
  OBVIOUS

LEMMA AdcInitHolds == PortInit => AdcIInv
<1> SUFFICES ASSUME PortInit PROVE AdcIInv
  OBVIOUS
<1>1. AdcTypes
  <2>1. config.conv_cnt \in Nat /\ AdcSize = 0 /\ AdcCnt = 0
    BY DEF PortInit, AdcSize, AdcCnt
  <2>2. /\ DOMAIN desc = {"channel", "data_buff_size", "current_sample_data_cnt"}
        /\ desc = [x \in DOMAIN desc |-> desc[x]]
    BY DEF PortInit
  <2>3. DOMAIN read_adc_buf = Cells /\ read_adc_buf = [i \in Cells |-> read_adc_buf[i]]
    BY DEF PortInit
  <2>4. /\ pc \in [Threads -> AdcPoints] /\ DOMAIN saved = Threads
        /\ saved = [t \in Threads |-> saved[t]] /\ \A t \in Threads : saved[t] = 0
    BY DEF PortInit, AdcPoints
  <2>5. raw \in Seq(Values) /\ overlap \in BOOLEAN
    <3>1. raw = <<>> /\ overlap = FALSE
      BY DEF PortInit
    <3> QED
      BY <3>1, NoSamples
  <2> QED
    BY <2>1, <2>2, <2>3, <2>4, <2>5, AdcNumbers DEF AdcTypes
<1>2. Device /\ Alone /\ Samples
  BY DEF PortInit, Device, Alone, Samples
<1>3. Size = 0 /\ AdcSize = 0
  BY AdcNumbers DEF PortInit, Size, AdcSize
<1>4. Sizes
  BY <1>3 DEF PortInit, Sizes
<1>5. SamplesInOrder
  BY DEF PortInit, SamplesInOrder
<1> QED
  BY <1>1, <1>2, <1>4, <1>5 DEF AdcIInv

LEMMA AdcInitStep ==
  ASSUME AdcIInv, NEW c \in Configs \cup {Refused}, AdcInit(c)
  PROVE  AdcIInv'
<1>1. c.conv_cnt \in Nat /\ Size' = c.conv_cnt % SizeMod /\ Size' \in 0..(SizeMod - 1)
  <2>1. ASSUME c \in Configs PROVE c.conv_cnt \in Nat
    BY <2>1, TklAdcAssumption
  <2>2. ASSUME c = Refused PROVE c.conv_cnt \in Nat
    BY <2>2 DEF Refused
  <2>3. c.conv_cnt \in Nat
    BY <2>1, <2>2
  <2>4. Size' = c.conv_cnt % SizeMod
    BY DEF AdcInit, Size
  <2> QED
    BY <2>3, <2>4, AdcNumbers
<1>2. AdcSize' = Size' /\ AdcCnt' = 0
  BY <1>1 DEF AdcInit, AdcSize, AdcCnt
<1>3. AdcTypes'
  BY <1>1, <1>2 DEF AdcIInv, AdcInit, AdcTypes
<1>4. Device' /\ Alone'
  BY DEF AdcIInv, AdcInit, Device, Alone
<1>5. \A t \in Threads : pc'[t] = "idle"
  BY DEF AdcInit
<1>6. Sizes' /\ Samples'
  BY <1>2, <1>5 DEF Sizes, Samples
<1>7. SamplesInOrder'
  BY DEF AdcInit, SamplesInOrder
<1> QED
  BY <1>3, <1>4, <1>6, <1>7 DEF AdcIInv

\* What a call that leaves buffer, samples and device alone keeps.
LEMMA CallStep ==
  ASSUME AdcIInv, NEW t \in Threads, NEW chs, Call(t, chs)
  PROVE  AdcIInv'
<1>1. /\ pc[t] = "idle" /\ pc' = [pc EXCEPT ![t] = "begin"]
      /\ overlap' = (overlap \/ \E u \in Threads : pc[u] # "idle")
      /\ raw' = IF overlap' THEN <<>> ELSE raw
      /\ UNCHANGED <<config, desc, read_adc_buf, use_cnt, sampling, saved, got>>
  BY DEF Call
<1>2. Size' = Size /\ AdcSize' = AdcSize /\ AdcCnt' = AdcCnt
  BY <1>1 DEF Size, AdcSize, AdcCnt
<1>3. AdcTypes'
  BY <1>1, <1>2 DEF AdcIInv, AdcTypes, AdcPoints
<1>4. Device'
  BY <1>1 DEF AdcIInv, AdcTypes, Device
<1>5. ~overlap' => ~overlap /\ raw' = raw /\ \A u \in Threads : pc[u] = "idle"
  BY <1>1
<1>6. pc'[t] = "begin" /\ \A u \in Threads : u # t => pc'[u] = pc[u]
  BY <1>1 DEF AdcIInv, AdcTypes
<1>7. Alone'
  BY <1>5, <1>6 DEF Alone
<1>8. Sizes'
  BY <1>2, <1>5, <1>6 DEF AdcIInv, Sizes
<1>9. Samples'
  BY <1>5, <1>6 DEF Samples
<1>10. SamplesInOrder'
  BY <1>1, <1>2, <1>5 DEF AdcIInv, SamplesInOrder
<1> QED
  BY <1>3, <1>4, <1>7, <1>8, <1>9, <1>10 DEF AdcIInv

\* A step of thread t to a point p that keeps the device and the overlap.
Moves(t, p) == pc' = [pc EXCEPT ![t] = p] /\ UNCHANGED overlap

LEMMA AloneMoves ==
  ASSUME AdcIInv, NEW t \in Threads, pc[t] # "idle", NEW p \in AdcPoints, Moves(t, p)
  PROVE  /\ pc' \in [Threads -> AdcPoints] /\ pc'[t] = p
         /\ \A u \in Threads : u # t => pc'[u] = pc[u]
         /\ Alone'
         /\ ~overlap' => ~overlap /\ \A u \in Threads : u # t => pc[u] = "idle" /\ pc'[u] = "idle"
<1>1. pc \in [Threads -> AdcPoints]
  BY DEF AdcIInv, AdcTypes
<1>2. pc' \in [Threads -> AdcPoints] /\ pc'[t] = p /\ \A u \in Threads : u # t => pc'[u] = pc[u]
  BY <1>1 DEF Moves
<1>3. ~overlap' => ~overlap /\ \A u \in Threads : u # t => pc[u] = "idle"
  BY DEF AdcIInv, Alone, Moves
<1> QED
  BY <1>2, <1>3 DEF Alone

LEMMA BeginStep ==
  ASSUME AdcIInv, NEW t \in Threads, Begin(t)
  PROVE  AdcIInv'
<1>1. pc[t] = "begin" /\ Moves(t, "clear") /\ "clear" \in AdcPoints
  BY DEF Begin, Goto, Moves, AdcPoints
<1>2. AdcSize' = AdcSize /\ AdcCnt' = AdcCnt /\ Size' = Size
  BY DEF Begin, AdcIInv, AdcTypes, AdcSize, AdcCnt, Size
<1>3. /\ pc' \in [Threads -> AdcPoints] /\ pc'[t] = "clear" /\ Alone'
      /\ \A u \in Threads : u # t => pc'[u] = pc[u]
      /\ ~overlap' => ~overlap /\ \A u \in Threads : u # t => pc[u] = "idle" /\ pc'[u] = "idle"
  BY <1>1, AloneMoves
<1>4. AdcTypes'
  BY <1>2, <1>3 DEF Begin, AdcIInv, AdcTypes
<1>5. Device'
  BY <1>1, <1>3 DEF Begin, AdcIInv, Device
<1>6. Sizes'
  BY <1>1, <1>2, <1>3 DEF AdcIInv, Sizes
<1>7. Samples'
  BY <1>3 DEF Samples
<1>8. SamplesInOrder'
  BY <1>2, <1>3 DEF Begin, AdcIInv, SamplesInOrder
<1> QED
  BY <1>3, <1>4, <1>5, <1>6, <1>7, <1>8 DEF AdcIInv

LEMMA ClearStep ==
  ASSUME AdcIInv, NEW t \in Threads, Clear(t)
  PROVE  AdcIInv'
<1>1. pc[t] = "clear" /\ Moves(t, "open") /\ "open" \in AdcPoints
  BY DEF Clear, Goto, Moves, AdcPoints
<1>2. AdcSize' = AdcSize /\ AdcCnt' = AdcCnt /\ Size' = Size
  BY DEF Clear, AdcSize, AdcCnt, Size
<1>3. /\ pc' \in [Threads -> AdcPoints] /\ pc'[t] = "open" /\ Alone'
      /\ \A u \in Threads : u # t => pc'[u] = pc[u]
      /\ ~overlap' => ~overlap /\ \A u \in Threads : u # t => pc[u] = "idle" /\ pc'[u] = "idle"
  BY <1>1, AloneMoves
<1>4. AdcTypes'
  BY <1>2, <1>3 DEF Clear, AdcIInv, AdcTypes, Cells
<1>5. Device'
  BY <1>1, <1>3 DEF Clear, AdcIInv, Device
<1>6. Sizes'
  BY <1>1, <1>2, <1>3 DEF AdcIInv, Sizes
<1>7. Samples'
  BY <1>3 DEF Samples
<1>8. SamplesInOrder'
  BY <1>2, <1>3 DEF Clear, AdcIInv, SamplesInOrder
<1> QED
  BY <1>3, <1>4, <1>5, <1>6, <1>7, <1>8 DEF AdcIInv

LEMMA OpenStep ==
  ASSUME AdcIInv, NEW t \in Threads, Open(t)
  PROVE  AdcIInv'
<1> DEFINE now == IF AdcSize = 1 THEN MedianSize ELSE AdcSize
           p == IF Opens(now) THEN "wait" ELSE "failed"
<1>1. pc[t] = "open" /\ Moves(t, p) /\ p \in AdcPoints
  BY DEF Open, Goto, Moves, AdcPoints, AdcSize
<1>2. Size' = Size /\ UNCHANGED <<config, read_adc_buf, overlap>>
  BY DEF Open, Size
<1>3. saved' = [saved EXCEPT ![t] = AdcSize]
  BY DEF Open, AdcSize
<1>4. desc' = [desc EXCEPT !.current_sample_data_cnt = 0, !.data_buff_size = now]
  BY DEF Open, AdcSize
<1>5. AdcSize' = now /\ AdcCnt' = 0
  BY <1>4 DEF AdcIInv, AdcTypes, AdcSize, AdcCnt
<1>6. IF Opens(now) THEN use_cnt = 0 /\ use_cnt' = 1 /\ raw' = <<>> /\ got' = <<>>
      ELSE UNCHANGED <<use_cnt, sampling, raw, got>>
  BY DEF Open, Opens, AdcSize
<1>7. /\ pc' \in [Threads -> AdcPoints] /\ pc'[t] = p /\ Alone'
      /\ \A u \in Threads : u # t => pc'[u] = pc[u]
      /\ ~overlap' => ~overlap /\ \A u \in Threads : u # t => pc[u] = "idle" /\ pc'[u] = "idle"
  BY <1>1, AloneMoves
<1>8. now \in 0..(SizeMod - 1)
  BY AdcNumbers DEF AdcIInv, AdcTypes
<1> HIDE DEF now
<1>9. raw' \in Seq(Values)
  <2>1. raw \in Seq(Values)
    BY DEF AdcIInv, AdcTypes
  <2>2. raw' = <<>> \/ raw' = raw
    BY <1>6
  <2> QED
    BY <2>1, <2>2, NoSamples
<1>10. AdcTypes'
  <2>1. desc' = [x \in DOMAIN desc' |-> desc'[x]] /\ DOMAIN desc' = DOMAIN desc
    BY <1>4 DEF AdcIInv, AdcTypes
  <2>2. DOMAIN saved' = Threads /\ saved' = [u \in Threads |-> saved'[u]]
        /\ \A u \in Threads : saved'[u] \in 0..(SizeMod - 1)
    BY <1>3 DEF AdcIInv, AdcTypes
  <2> QED
    BY <1>2, <1>5, <1>7, <1>8, <1>9, <2>1, <2>2 DEF AdcIInv, AdcTypes
<1>11. Device'
  BY <1>1, <1>6, <1>7 DEF AdcIInv, Device
<1>12. Sizes'
  <2>1. saved'[t] = AdcSize
    BY <1>3 DEF AdcIInv, AdcTypes
  <2>2. ~overlap' => AdcSize = Size
    BY <1>1, <1>7 DEF AdcIInv, Sizes
  <2> QED
    BY <1>2, <1>5, <1>7, <2>1, <2>2 DEF Sizes, now
<1>13. Samples'
  <2>1. Opens(now) => Len(raw') = 0 /\ got' = <<>> /\ Buffered'
    BY <1>6 DEF Buffered
  <2> QED
    BY <1>5, <1>7, <1>8, <2>1 DEF Samples
<1>14. SamplesInOrder'
  BY <1>2, <1>6, <1>7 DEF AdcIInv, SamplesInOrder
<1> QED
  BY <1>7, <1>10, <1>11, <1>12, <1>13, <1>14 DEF AdcIInv

\* The end of one channel: the next one begins, or the call is over.
LEMMA LeaveMoves ==
  ASSUME AdcIInv, NEW t \in Threads, NEW r, Leave(t, r)
  PROVE  /\ \E p \in {"idle", "begin"} : pc' = [pc EXCEPT ![t] = p]
         /\ saved' = [saved EXCEPT ![t] = 0]
  BY DEF Leave

LEMMA FailedStep ==
  ASSUME AdcIInv, NEW t \in Threads, Failed(t)
  PROVE  AdcIInv'
<1>1. PICK p \in {"idle", "begin"} : pc' = [pc EXCEPT ![t] = p]
  BY LeaveMoves DEF Failed
<1>2. pc[t] = "failed" /\ Moves(t, p) /\ p \in AdcPoints
  BY <1>1 DEF Failed, Moves, AdcPoints
<1>3. /\ saved' = [saved EXCEPT ![t] = 0] /\ desc' = [desc EXCEPT !.data_buff_size = saved[t]]
      /\ UNCHANGED <<config, read_adc_buf, use_cnt, sampling, got, raw, overlap>>
  BY LeaveMoves DEF Failed
<1>4. Size' = Size /\ AdcSize' = saved[t] /\ AdcCnt' = AdcCnt
  BY <1>3 DEF AdcIInv, AdcTypes, AdcSize, AdcCnt, Size
<1>5. /\ pc' \in [Threads -> AdcPoints] /\ pc'[t] = p /\ Alone'
      /\ \A u \in Threads : u # t => pc'[u] = pc[u]
      /\ ~overlap' => ~overlap /\ \A u \in Threads : u # t => pc[u] = "idle" /\ pc'[u] = "idle"
  BY <1>2, AloneMoves
<1>6. AdcTypes'
  <2>1. desc' = [x \in DOMAIN desc' |-> desc'[x]] /\ DOMAIN desc' = DOMAIN desc
    BY <1>3 DEF AdcIInv, AdcTypes
  <2>2. DOMAIN saved' = Threads /\ saved' = [u \in Threads |-> saved'[u]]
        /\ \A u \in Threads : saved'[u] \in 0..(SizeMod - 1)
    <3>1. DOMAIN saved = Threads /\ saved = [u \in Threads |-> saved[u]]
          /\ \A u \in Threads : saved[u] \in 0..(SizeMod - 1)
      BY DEF AdcIInv, AdcTypes
    <3>2. 0 \in 0..(SizeMod - 1)
      BY AdcNumbers
    <3>3. saved' = [saved EXCEPT ![t] = 0]
      BY <1>3
    <3>4. \A u \in Threads : saved'[u] \in 0..(SizeMod - 1)
      BY <3>1, <3>2, <3>3
    <3> QED
      BY <3>1, <3>3, <3>4
  <2>3. saved[t] \in 0..(SizeMod - 1)
    BY DEF AdcIInv, AdcTypes
  <2> QED
    BY <1>3, <1>4, <1>5, <2>1, <2>2, <2>3 DEF AdcIInv, AdcTypes
<1>7. Device'
  BY <1>2, <1>3, <1>5 DEF AdcIInv, Device
<1>8. Sizes'
  <2>1. ~overlap' => saved[t] = Size
    BY <1>2, <1>5 DEF AdcIInv, Sizes
  <2> QED
    BY <1>4, <1>5, <2>1 DEF Sizes
<1>9. Samples'
  BY <1>5 DEF Samples
<1>10. SamplesInOrder'
  BY <1>3, <1>4 DEF AdcIInv, SamplesInOrder
<1> QED
  BY <1>5, <1>6, <1>7, <1>8, <1>9, <1>10 DEF AdcIInv

LEMMA IsrStep ==
  ASSUME AdcIInv, NEW v \in Measurable, Isr(v)
  PROVE  AdcIInv'
<1> DEFINE stored == AdcCnt < AdcSize
           now == IF stored THEN AdcCnt + 1 ELSE AdcCnt
<1>1. /\ sampling # 0
      /\ sampling' = IF AllDone(now) THEN 0 ELSE sampling
      /\ read_adc_buf' = IF stored THEN [read_adc_buf EXCEPT ![AdcCnt] = v] ELSE read_adc_buf
      /\ raw' = IF stored /\ ~overlap THEN Append(raw, v) ELSE raw
      /\ desc' = [desc EXCEPT !.current_sample_data_cnt = now]
      /\ UNCHANGED <<config, use_cnt, pc, saved, got, overlap>>
  BY DEF Isr, AdcCnt, AdcSize
<1>2. /\ Size' = Size /\ AdcSize' = AdcSize /\ AdcCnt' = now
      /\ desc' = [x \in DOMAIN desc' |-> desc'[x]] /\ DOMAIN desc' = DOMAIN desc
  BY <1>1 DEF AdcIInv, AdcTypes, AdcSize, AdcCnt, Size
<1>3. AdcSize \in 0..(SizeMod - 1) /\ AdcCnt \in Nat
  BY DEF AdcIInv, AdcTypes
<1>4. raw \in Seq(Values) /\ (~overlap => v \in Values)
  BY DEF AdcIInv, AdcTypes, Measurable
<1>5. raw' \in Seq(Values)
  BY <1>1, <1>4
<1>6. now \in Nat /\ (stored => AdcCnt \in Cells)
  BY <1>3, AdcNumbers
<1>7. AdcTypes'
  <2>1. /\ read_adc_buf' = [i \in Cells |-> read_adc_buf'[i]] /\ DOMAIN read_adc_buf' = Cells
        /\ (stored => read_adc_buf'[AdcCnt] = v)
        /\ \A i \in Cells : i # AdcCnt => read_adc_buf'[i] = read_adc_buf[i]
    <3>1. read_adc_buf = [i \in Cells |-> read_adc_buf[i]] /\ DOMAIN read_adc_buf = Cells
      BY DEF AdcIInv, AdcTypes
    <3> HIDE DEF stored
    <3> QED
      BY <1>1, <1>6, <3>1
  <2> HIDE DEF now, stored
  <2> QED
    BY <1>1, <1>2, <1>3, <1>5, <1>6, <2>1 DEF AdcIInv, AdcTypes
<1>8. Device'
  BY <1>1 DEF AdcIInv, Device
<1>9. Alone' /\ Sizes'
  BY <1>1, <1>2 DEF AdcIInv, Alone, Sizes
<1>10. PICK t \in Threads : pc[t] = "wait"
  BY <1>1 DEF AdcIInv, Device
<1>11. ASSUME ~overlap' PROVE got' = <<>> /\ AdcCnt' = Len(raw') /\ AdcCnt' <= AdcSize' /\ Buffered'
  <2>1. ~overlap /\ got = <<>> /\ AdcCnt = Len(raw) /\ AdcCnt <= AdcSize /\ Buffered
    BY <1>1, <1>10, <1>11 DEF AdcIInv, Samples
  <2>2. CASE stored
    <3>1. /\ raw' = Append(raw, v) /\ Len(raw') = Len(raw) + 1
          /\ raw'[Len(raw) + 1] = v /\ \A i \in 1..Len(raw) : raw'[i] = raw[i]
      BY <1>1, <1>4, <2>1, <2>2
    <3>2. PICK n \in Nat : n = Len(raw)
      BY <1>4
    <3>3. /\ read_adc_buf' = [read_adc_buf EXCEPT ![n] = v] /\ n \in Cells
          /\ DOMAIN read_adc_buf = Cells /\ n < SizeMod - 1
      BY <1>1, <1>3, <1>6, <2>1, <2>2, <3>2, AdcNumbers DEF AdcIInv, AdcTypes
    <3>4. ASSUME NEW i \in 1..(n + 1) PROVE read_adc_buf'[i - 1] = raw'[i]
      <4>1. CASE i = n + 1
        BY <3>1, <3>2, <3>3, <4>1
      <4>2. CASE i \in 1..n
        <5>1. i - 1 # n /\ read_adc_buf'[i - 1] = read_adc_buf[i - 1]
          <6>1. i - 1 \in 0..(SizeMod - 2) /\ i - 1 # n
            BY <3>3, <4>2, AdcNumbers
          <6> QED
            BY <3>3, <6>1, AdcNumbers
        <5>2. read_adc_buf[i - 1] = raw[i] /\ raw'[i] = raw[i]
          BY <2>1, <3>1, <3>2, <4>2 DEF Buffered
        <5> QED
          BY <5>1, <5>2
      <4> QED
        BY <4>1, <4>2
    <3>5. Buffered'
      BY <3>1, <3>2, <3>4 DEF Buffered
    <3> QED
      BY <1>1, <1>2, <1>3, <2>1, <2>2, <3>1, <3>2, <3>5
  <2>3. CASE ~stored
    BY <1>1, <1>2, <2>1, <2>3 DEF Buffered
  <2> QED
    BY <2>2, <2>3
<1>12. Samples'
  <2>1. ~overlap' => \A u \in Threads : pc'[u] # "copy"
    BY <1>1, <1>10 DEF AdcIInv, Alone
  <2> QED
    BY <1>11, <2>1 DEF Samples
<1>13. SamplesInOrder'
  BY <1>11 DEF SamplesInOrder
<1> QED
  BY <1>7, <1>8, <1>9, <1>12, <1>13 DEF AdcIInv

LEMMA PollStep ==
  ASSUME AdcIInv, NEW t \in Threads, Poll(t)
  PROVE  AdcIInv'
<1> DEFINE p == IF saved[t] = 1 THEN "median" ELSE "copy"
<1>1. pc[t] = "wait" /\ Moves(t, p) /\ p \in AdcPoints
  BY DEF Poll, Goto, Moves, AdcPoints
<1>2. /\ UNCHANGED <<config, desc, read_adc_buf, saved, got, raw, overlap>>
      /\ sampling' = 0 /\ AdcCnt = AdcSize
  BY DEF Poll, AdcCnt, AdcSize
<1>3. Size' = Size /\ AdcSize' = AdcSize /\ AdcCnt' = AdcCnt
  BY <1>2 DEF AdcSize, AdcCnt, Size
<1>4. /\ pc' \in [Threads -> AdcPoints] /\ pc'[t] = p /\ Alone'
      /\ \A u \in Threads : u # t => pc'[u] = pc[u]
      /\ ~overlap' => ~overlap /\ \A u \in Threads : u # t => pc[u] = "idle" /\ pc'[u] = "idle"
  BY <1>1, AloneMoves
<1>5. AdcTypes'
  BY <1>2, <1>3, <1>4 DEF AdcIInv, AdcTypes
<1>6. \A u \in Threads : pc'[u] # "wait"
  BY <1>1, <1>4 DEF AdcIInv, Device
<1>7. Device'
  BY <1>2, <1>6 DEF Device
<1>8. Sizes'
  <2>1. ~overlap' => saved[t] = Size /\ AdcSize = IF Size = 1 THEN MedianSize ELSE Size
    BY <1>1, <1>4 DEF AdcIInv, Sizes
  <2> QED
    BY <1>2, <1>3, <1>4, <2>1 DEF Sizes
<1>9. Samples'
  <2>1. ~overlap' => AdcCnt = Len(raw) /\ Buffered
    BY <1>1, <1>4 DEF AdcIInv, Samples
  <2>2. Buffered' <=> Buffered
    BY <1>2 DEF Buffered
  <2> QED
    BY <1>2, <1>3, <1>4, <1>6, <2>1, <2>2 DEF Samples
<1>10. SamplesInOrder'
  BY <1>2, <1>3 DEF AdcIInv, SamplesInOrder
<1> QED
  BY <1>4, <1>5, <1>7, <1>8, <1>9, <1>10 DEF AdcIInv

LEMMA MedianStep ==
  ASSUME AdcIInv, NEW t \in Threads, Median(t)
  PROVE  AdcIInv'
<1>1. pc[t] = "median" /\ Moves(t, "average") /\ "average" \in AdcPoints
  BY DEF Median, Goto, Moves, AdcPoints
<1>2. UNCHANGED <<config, desc, read_adc_buf, use_cnt, sampling, saved, got, raw, overlap>>
  BY DEF Median
<1>3. Size' = Size /\ AdcSize' = AdcSize /\ AdcCnt' = AdcCnt
  BY <1>2 DEF AdcSize, AdcCnt, Size
<1>4. /\ pc' \in [Threads -> AdcPoints] /\ pc'[t] = "average" /\ Alone'
      /\ \A u \in Threads : u # t => pc'[u] = pc[u]
      /\ ~overlap' => ~overlap /\ \A u \in Threads : u # t => pc[u] = "idle" /\ pc'[u] = "idle"
  BY <1>1, AloneMoves
<1>5. AdcTypes'
  BY <1>2, <1>3, <1>4 DEF AdcIInv, AdcTypes
<1>6. Device'
  BY <1>1, <1>2, <1>4 DEF AdcIInv, Device
<1>7. Sizes'
  BY <1>1, <1>2, <1>3, <1>4 DEF AdcIInv, Sizes
<1>8. Samples'
  BY <1>4 DEF Samples
<1>9. SamplesInOrder'
  BY <1>2, <1>3 DEF AdcIInv, SamplesInOrder
<1> QED
  BY <1>4, <1>5, <1>6, <1>7, <1>8, <1>9 DEF AdcIInv

LEMMA AverageStep ==
  ASSUME AdcIInv, NEW t \in Threads, Average(t)
  PROVE  AdcIInv'
<1>1. PICK p \in {"lost", "copy"} : pc[t] = "average" /\ Moves(t, p)
  BY DEF Average, Goto, Moves
<1>2. p \in AdcPoints
  BY DEF AdcPoints
<1>3. /\ desc' = [desc EXCEPT !.data_buff_size = saved[t]]
      /\ UNCHANGED <<config, use_cnt, sampling, saved, got, raw, overlap>>
  BY DEF Average, SizeAfter
<1>4. PICK x : read_adc_buf' = read_adc_buf \/ read_adc_buf' = [read_adc_buf EXCEPT ![0] = x]
  BY DEF Average
<1>5. Size' = Size /\ AdcSize' = saved[t] /\ AdcCnt' = AdcCnt
  BY <1>3 DEF AdcIInv, AdcTypes, AdcSize, AdcCnt, Size
<1>6. /\ pc' \in [Threads -> AdcPoints] /\ pc'[t] = p /\ Alone'
      /\ \A u \in Threads : u # t => pc'[u] = pc[u]
      /\ ~overlap' => ~overlap /\ \A u \in Threads : u # t => pc[u] = "idle" /\ pc'[u] = "idle"
  BY <1>1, <1>2, AloneMoves
<1>7. AdcTypes'
  <2>1. desc' = [y \in DOMAIN desc' |-> desc'[y]] /\ DOMAIN desc' = DOMAIN desc
    BY <1>3 DEF AdcIInv, AdcTypes
  <2>2. DOMAIN read_adc_buf' = Cells /\ read_adc_buf' = [i \in Cells |-> read_adc_buf'[i]]
    BY <1>4 DEF AdcIInv, AdcTypes
  <2>3. saved[t] \in 0..(SizeMod - 1)
    BY DEF AdcIInv, AdcTypes
  <2> QED
    BY <1>3, <1>5, <1>6, <2>1, <2>2, <2>3 DEF AdcIInv, AdcTypes
<1>8. Device'
  BY <1>1, <1>3, <1>6 DEF AdcIInv, Device
<1>9. ~overlap' => saved[t] = Size /\ Size = 1
  BY <1>1, <1>6 DEF AdcIInv, Sizes
<1>10. Sizes'
  BY <1>5, <1>6, <1>9 DEF Sizes
<1>11. Samples'
  BY <1>5, <1>6, <1>9 DEF Samples
<1>12. SamplesInOrder'
  BY <1>3, <1>5 DEF AdcIInv, SamplesInOrder
<1> QED
  BY <1>6, <1>7, <1>8, <1>10, <1>11, <1>12 DEF AdcIInv

LEMMA CopyStep ==
  ASSUME AdcIInv, NEW t \in Threads, Copy(t)
  PROVE  AdcIInv'
<1>1. PICK p \in {"idle", "begin"} : pc' = [pc EXCEPT ![t] = p]
  BY LeaveMoves DEF Copy
<1>2. pc[t] = "copy" /\ Moves(t, p) /\ p \in AdcPoints
  BY <1>1 DEF Copy, Moves, AdcPoints
<1>3. /\ saved' = [saved EXCEPT ![t] = 0]
      /\ got' = [i \in 1..AdcSize |-> Convert(read_adc_buf[i - 1])]
      /\ UNCHANGED <<config, desc, read_adc_buf, use_cnt, sampling, raw, overlap>>
  BY LeaveMoves DEF Copy, AdcSize
<1>4. Size' = Size /\ AdcSize' = AdcSize /\ AdcCnt' = AdcCnt
  BY <1>3 DEF AdcSize, AdcCnt, Size
<1>5. /\ pc' \in [Threads -> AdcPoints] /\ pc'[t] = p /\ Alone'
      /\ \A u \in Threads : u # t => pc'[u] = pc[u]
      /\ ~overlap' => ~overlap /\ \A u \in Threads : u # t => pc[u] = "idle" /\ pc'[u] = "idle"
  BY <1>2, AloneMoves
<1>6. AdcTypes'
  <2>1. DOMAIN saved = Threads /\ saved = [u \in Threads |-> saved[u]]
        /\ \A u \in Threads : saved[u] \in 0..(SizeMod - 1)
    BY DEF AdcIInv, AdcTypes
  <2>2. 0 \in 0..(SizeMod - 1)
    BY AdcNumbers
  <2>3. saved' = [saved EXCEPT ![t] = 0]
    BY <1>3
  <2>4. \A u \in Threads : saved'[u] \in 0..(SizeMod - 1)
    BY <2>1, <2>2, <2>3
  <2>5. DOMAIN saved' = Threads /\ saved' = [u \in Threads |-> saved'[u]]
    BY <2>1, <2>3
  <2> QED
    BY <1>3, <1>4, <1>5, <2>4, <2>5 DEF AdcIInv, AdcTypes
<1>7. Device'
  BY <1>2, <1>3, <1>5 DEF AdcIInv, Device
<1>8. ~overlap' => AdcSize = Size
  BY <1>2, <1>5 DEF AdcIInv, Sizes
<1>9. Sizes'
  BY <1>4, <1>5, <1>8 DEF Sizes
<1>10. Samples'
  BY <1>5 DEF Samples
<1>11. SamplesInOrder'
  <2> SUFFICES ASSUME ~overlap'
               PROVE  /\ Len(got') = Size'
                      /\ Size' # 1 => got' = [i \in 1..Len(raw') |-> Convert(raw'[i])]
    BY DEF SamplesInOrder
  <2>1. AdcSize \in Nat
    BY DEF AdcIInv, AdcTypes
  <2>2. Len(got') = AdcSize
    BY <1>3, <2>1
  <2>3. ASSUME Size' # 1 PROVE got' = [i \in 1..Len(raw') |-> Convert(raw'[i])]
    <3>1. Len(raw) = AdcSize /\ Buffered
      BY <1>2, <1>4, <1>5, <2>3 DEF AdcIInv, Samples
    <3>2. \A i \in 1..AdcSize : Convert(read_adc_buf[i - 1]) = Convert(raw[i])
      BY <3>1 DEF Buffered
    <3>3. raw' = raw
      BY <1>3
    <3>4. got' = [i \in 1..AdcSize |-> Convert(raw[i])]
      BY <1>3, <3>2
    <3> QED
      BY <3>1, <3>3, <3>4 DEF Convert
  <2> QED
    BY <1>4, <1>8, <2>2, <2>3
<1> QED
  BY <1>5, <1>6, <1>7, <1>9, <1>10, <1>11 DEF AdcIInv

LEMMA RunawayStep ==
  ASSUME AdcIInv, NEW t \in Threads, Runaway(t)
  PROVE  AdcIInv'
<1>1. pc[t] = "copy" /\ Moves(t, "lost") /\ "lost" \in AdcPoints
  BY DEF Runaway, Moves, AdcPoints
<1>2. UNCHANGED <<config, desc, read_adc_buf, use_cnt, sampling, saved, got, raw, overlap>>
  BY DEF Runaway
<1>3. Size' = Size /\ AdcSize' = AdcSize /\ AdcCnt' = AdcCnt
  BY <1>2 DEF AdcSize, AdcCnt, Size
<1>4. /\ pc' \in [Threads -> AdcPoints] /\ pc'[t] = "lost" /\ Alone'
      /\ \A u \in Threads : u # t => pc'[u] = pc[u]
      /\ ~overlap' => ~overlap /\ \A u \in Threads : u # t => pc[u] = "idle" /\ pc'[u] = "idle"
  BY <1>1, AloneMoves
<1>5. AdcTypes'
  BY <1>2, <1>3, <1>4 DEF AdcIInv, AdcTypes
<1>6. Device'
  BY <1>1, <1>2, <1>4 DEF AdcIInv, Device
<1>7. Sizes'
  BY <1>1, <1>3, <1>4 DEF AdcIInv, Sizes
<1>8. Samples'
  BY <1>4 DEF Samples
<1>9. SamplesInOrder'
  BY <1>2, <1>3 DEF AdcIInv, SamplesInOrder
<1> QED
  BY <1>4, <1>5, <1>6, <1>7, <1>8, <1>9 DEF AdcIInv

LEMMA AdcStutters ==
  ASSUME AdcIInv, UNCHANGED portVars
  PROVE  AdcIInv'
<1>1. AdcTypes' /\ Device' /\ Alone'
  BY DEF AdcIInv, portVars, AdcTypes, AdcSize, AdcCnt, Device, Alone
<1>2. Sizes' /\ Samples' /\ SamplesInOrder'
  BY DEF AdcIInv, portVars, Sizes, Samples, Buffered, SamplesInOrder, AdcSize, AdcCnt, Size
<1> QED
  BY <1>1, <1>2 DEF AdcIInv

LEMMA PortStep == AdcIInv /\ [PortNext]_portVars => AdcIInv'
<1> SUFFICES ASSUME AdcIInv, [PortNext]_portVars PROVE AdcIInv'
  OBVIOUS
<1>1. ASSUME NEW t \in Threads, Step(t) PROVE AdcIInv'
  BY <1>1, BeginStep, ClearStep, OpenStep, FailedStep, PollStep, MedianStep, AverageStep,
     CopyStep, RunawayStep DEF Step
<1>2. ASSUME NEW t \in Threads, Lost(t) PROVE AdcIInv'
  BY <1>2, AdcStutters DEF Lost
<1> QED
  BY <1>1, <1>2, AdcInitStep, CallStep, IsrStep, AdcStutters DEF PortNext

\* The converter is open for one waiting call at a time; while no two calls
\* overlap, the size in the descriptor is what the configuration, or the median
\* under way, needs, and the buffer has the samples of the read under way
\* (tkl_adc_read_single_channel, saradc_isr).
THEOREM AdcInvariant == PortSpec => []AdcIInv
  BY AdcInitHolds, PortStep, PTL DEF PortSpec

\* Unless calls overlapped, the size is as configured when none is under way,
\* whichever way the calls before ended (tkl_adc.c:293).
THEOREM SizeIsRestored == PortSpec => []SizeRestored
<1>1. AdcIInv => SizeRestored
  BY DEF AdcIInv, Sizes, SizeRestored, AdcSize
<1> QED
  BY <1>1, AdcInvariant, PTL

LEMMA Smallest ==
  ASSUME NEW T \in SUBSET Nat, T # {}
  PROVE  \E x \in T : \A y \in T : x <= y
<1>1. \A x, y : <<y, x>> \in OpToRel(<, Nat) <=> x \in Nat /\ y \in Nat /\ y < x
  BY DEF OpToRel
<1>2. PICK R : /\ IsWellFoundedOn(R, Nat)
               /\ \A x, y : <<y, x>> \in R <=> x \in Nat /\ y \in Nat /\ y < x
  BY <1>1, NatLessThanWellFounded, Zenon
<1>3. PICK x \in T : \A y \in T : ~(<<y, x>> \in R)
  BY <1>2, WFMin
<1>4. \A y \in T : ~(y < x)
  BY <1>2, <1>3
<1> QED
  BY <1>4

\* The cells P of u have the samples S of d, each in one cell: that of j is g[j].
Places(g, d, u, P, S) ==
  /\ g \in [P -> S]
  /\ \A i, j \in P : g[i] = g[j] => i = j
  /\ \A s \in S : \E j \in P : g[j] = s
  /\ \A j \in P : u[j] = d[g[j]]

Holds(d, u, P, S) == \E g : Places(g, d, u, P, S)

LEMMA HoldsAdd ==
  ASSUME NEW d, NEW u, NEW v, NEW P, NEW S, NEW p, NEW s, Holds(d, u, P, S),
         p \notin P, s \notin S, v[p] = d[s], \A j \in P : v[j] = u[j]
  PROVE  Holds(d, v, P \cup {p}, S \cup {s})
<1>1. PICK g : Places(g, d, u, P, S)
  BY DEF Holds
<1>2. PICK h : h = [j \in P \cup {p} |-> IF j = p THEN s ELSE g[j]]
  OBVIOUS
<1>3. h[p] = s /\ \A j \in P : h[j] = g[j] /\ g[j] \in S
  BY <1>1, <1>2 DEF Places
<1>4. h \in [P \cup {p} -> S \cup {s}]
  BY <1>2, <1>3
<1>5. \A i, j \in P \cup {p} : h[i] = h[j] => i = j
  BY <1>1, <1>3 DEF Places
<1>6. \A r \in S \cup {s} : \E j \in P \cup {p} : h[j] = r
  BY <1>1, <1>3 DEF Places
<1>7. \A j \in P \cup {p} : v[j] = d[h[j]]
  BY <1>1, <1>3 DEF Places
<1> QED
  BY <1>4, <1>5, <1>6, <1>7 DEF Holds, Places

LEMMA HoldsDrop ==
  ASSUME NEW d, NEW u, NEW P, NEW S, NEW p \in P, Holds(d, u, P, S)
  PROVE  \E s \in S : u[p] = d[s] /\ Holds(d, u, P \ {p}, S \ {s})
<1>1. PICK g : Places(g, d, u, P, S)
  BY DEF Holds
<1>2. PICK h : h = [j \in P \ {p} |-> g[j]]
  OBVIOUS
<1>3. g[p] \in S /\ u[p] = d[g[p]]
  BY <1>1 DEF Places
<1>4. \A j \in P \ {p} : h[j] = g[j] /\ g[j] \in S \ {g[p]}
  BY <1>1, <1>2 DEF Places
<1>5. h \in [P \ {p} -> S \ {g[p]}]
  BY <1>2, <1>4
<1>6. \A i, j \in P \ {p} : h[i] = h[j] => i = j
  BY <1>1, <1>4 DEF Places
<1>7. \A r \in S \ {g[p]} : \E j \in P \ {p} : h[j] = r
  BY <1>1, <1>4 DEF Places
<1>8. \A j \in P \ {p} : u[j] = d[h[j]]
  BY <1>1, <1>4 DEF Places
<1>9. Holds(d, u, P \ {p}, S \ {g[p]})
  BY <1>5, <1>6, <1>7, <1>8 DEF Holds, Places
<1> QED
  BY <1>3, <1>9

\* A heap of n cells: no cell has less than its parent.
Ordered(u, n) == \A i \in 1..(n - 1) : u[Parent(i)] <= u[i]

LEMMA ParentIs ==
  /\ \A i \in Nat : i # 0 => Parent(i) \in Nat /\ Parent(i) < i
  /\ \A i, p \in Nat : i # 0 => (Parent(i) = p <=> i = 2 * p + 1 \/ i = 2 * p + 2)
  BY DEF Parent

LEMMA RootIsLeast ==
  ASSUME NEW n \in Nat, NEW u \in [0..(n - 1) -> Nat], Ordered(u, n), NEW j \in 0..(n - 1)
  PROVE  u[0] <= u[j]
<1> DEFINE Bad == {i \in 0..(n - 1) : ~(u[0] <= u[i])}
<1> SUFFICES ASSUME Bad # {} PROVE FALSE
  OBVIOUS
<1>1. Bad \in SUBSET Nat
  OBVIOUS
<1>2. PICK i \in Bad : \A k \in Bad : i <= k
  BY <1>1, Smallest
<1>3. i \in 0..(n - 1) /\ ~(u[0] <= u[i]) /\ i # 0
  OBVIOUS
<1>4. Parent(i) \in 0..(n - 1) /\ Parent(i) < i
  BY <1>3, ParentIs
<1>5. u[0] <= u[Parent(i)]
  BY <1>2, <1>4
<1>6. u[Parent(i)] <= u[i]
  BY <1>3 DEF Ordered
<1> QED
  BY <1>3, <1>4, <1>5, <1>6

\* What up, the loop of MinHeapInsert from cell hs towards the root, computes.
Lifts(up, u, hs, x) ==
  up = [p \in 0..hs |->
          IF p # 0 /\ u[Parent(p)] > x
          THEN [up[Parent(p)] EXCEPT ![p] = u[Parent(p)]]
          ELSE [i \in 0..hs |-> IF i = p THEN x ELSE IF i < hs THEN u[i] ELSE 0]]

InsertIs(up, hs) == up[hs]

LiftsUpTo(up, u, hs, x, m) ==
  \A p \in 0..m :
    up[p] = IF p # 0 /\ u[Parent(p)] > x
            THEN [up[Parent(p)] EXCEPT ![p] = u[Parent(p)]]
            ELSE [i \in 0..hs |-> IF i = p THEN x ELSE IF i < hs THEN u[i] ELSE 0]

LEMMA LiftsExist ==
  ASSUME NEW u, NEW hs \in Nat, NEW x
  PROVE  \E up : Lifts(up, u, hs, x)
<1> DEFINE Bad == {m \in 0..hs : ~\E up : DOMAIN up = 0..hs /\ LiftsUpTo(up, u, hs, x, m)}
<1>1. Bad = {}
  <2> SUFFICES ASSUME Bad # {} PROVE FALSE
    OBVIOUS
  <2>1. Bad \in SUBSET Nat
    OBVIOUS
  <2>2. PICK m \in Bad : \A k \in Bad : m <= k
    BY <2>1, Smallest
  <2>3. m \in 0..hs /\ ~\E up : DOMAIN up = 0..hs /\ LiftsUpTo(up, u, hs, x, m)
    OBVIOUS
  <2>4. PICK b : DOMAIN b = 0..hs /\ \A p \in 0..(m - 1) :
                   b[p] = IF p # 0 /\ u[Parent(p)] > x
                          THEN [b[Parent(p)] EXCEPT ![p] = u[Parent(p)]]
                          ELSE [i \in 0..hs |-> IF i = p THEN x ELSE IF i < hs THEN u[i] ELSE 0]
    <3>1. CASE m = 0
      <4>1. PICK b : b = [p \in 0..hs |-> 0]
        OBVIOUS
      <4>2. DOMAIN b = 0..hs /\ \A p \in 0..(m - 1) : FALSE
        BY <3>1, <4>1
      <4> QED
        BY <4>2
    <3>2. CASE m # 0
      <4>1. m - 1 \in 0..hs /\ m - 1 \notin Bad
        BY <2>2, <2>3, <3>2
      <4>2. PICK b : DOMAIN b = 0..hs /\ LiftsUpTo(b, u, hs, x, m - 1)
        BY <4>1
      <4> QED
        BY <4>2, Zenon DEF LiftsUpTo
    <3> QED
      BY <3>1, <3>2
  <2>5. PICK y : y = IF m # 0 /\ u[Parent(m)] > x
                     THEN [b[Parent(m)] EXCEPT ![m] = u[Parent(m)]]
                     ELSE [i \in 0..hs |-> IF i = m THEN x ELSE IF i < hs THEN u[i] ELSE 0]
    OBVIOUS
  <2>6. PICK c : c = [b EXCEPT ![m] = y]
    OBVIOUS
  <2>7. DOMAIN c = 0..hs /\ c[m] = y /\ \A p \in 0..hs : p # m => c[p] = b[p]
    BY <2>3, <2>4, <2>6
  <2>8. \A p \in 0..m : p # 0 => Parent(p) \in 0..hs /\ Parent(p) # m /\ c[Parent(p)] = b[Parent(p)]
    <3> TAKE p \in 0..m
    <3>1. p # 0 => Parent(p) \in Nat /\ Parent(p) < p
      BY <2>3, ParentIs
    <3> QED
      BY <2>3, <2>7, <3>1
  <2>9. ASSUME NEW p \in 0..m
        PROVE  c[p] = IF p # 0 /\ u[Parent(p)] > x
                      THEN [c[Parent(p)] EXCEPT ![p] = u[Parent(p)]]
                      ELSE [i \in 0..hs |-> IF i = p THEN x ELSE IF i < hs THEN u[i] ELSE 0]
    <3>1. CASE p = m
      <4>1. c[p] = y
        BY <2>7, <3>1
      <4>2. p # 0 => c[Parent(p)] = b[Parent(p)]
        BY <2>8
      <4> QED
        BY <2>5, <3>1, <4>1, <4>2
    <3>2. CASE p # m
      <4>1. p \in 0..(m - 1) /\ p \in 0..hs
        BY <2>3, <3>2
      <4>2. c[p] = b[p] /\ (p # 0 => c[Parent(p)] = b[Parent(p)])
        BY <2>7, <2>8, <3>2, <4>1
      <4> QED
        BY <2>4, <4>1, <4>2
    <3> QED
      BY <3>1, <3>2
  <2>10. LiftsUpTo(c, u, hs, x, m)
    BY <2>9 DEF LiftsUpTo
  <2> QED
    BY <2>3, <2>7, <2>10
<1>2. hs \in 0..hs
  OBVIOUS
<1>a. hs \notin Bad
  BY <1>1, Zenon
<1>3. PICK b : DOMAIN b = 0..hs /\ LiftsUpTo(b, u, hs, x, hs)
  BY <1>2, <1>a
<1>4. PICK up : up = [p \in 0..hs |-> b[p]]
  OBVIOUS
<1>5. DOMAIN up = 0..hs /\ \A p \in 0..hs : up[p] = b[p]
  BY <1>4
<1>6. ASSUME NEW p \in 0..hs
      PROVE  up[p] = IF p # 0 /\ u[Parent(p)] > x
                     THEN [up[Parent(p)] EXCEPT ![p] = u[Parent(p)]]
                     ELSE [i \in 0..hs |-> IF i = p THEN x ELSE IF i < hs THEN u[i] ELSE 0]
  <2>1. p # 0 => Parent(p) \in 0..hs
    <3>1. p # 0 => Parent(p) \in Nat /\ Parent(p) < p
      BY ParentIs
    <3> QED
      BY <3>1
  <2>2. p # 0 => up[Parent(p)] = b[Parent(p)]
    BY <1>5, <2>1
  <2>3. b[p] = IF p # 0 /\ u[Parent(p)] > x
               THEN [b[Parent(p)] EXCEPT ![p] = u[Parent(p)]]
               ELSE [i \in 0..hs |-> IF i = p THEN x ELSE IF i < hs THEN u[i] ELSE 0]
    BY <1>3 DEF LiftsUpTo
  <2> QED
    BY <1>5, <2>2, <2>3
<1>7. up = [p \in 0..hs |->
              IF p # 0 /\ u[Parent(p)] > x
              THEN [up[Parent(p)] EXCEPT ![p] = u[Parent(p)]]
              ELSE [i \in 0..hs |-> IF i = p THEN x ELSE IF i < hs THEN u[i] ELSE 0]]
  <2>1. PICK w : w = [p \in 0..hs |->
              IF p # 0 /\ u[Parent(p)] > x
              THEN [up[Parent(p)] EXCEPT ![p] = u[Parent(p)]]
              ELSE [i \in 0..hs |-> IF i = p THEN x ELSE IF i < hs THEN u[i] ELSE 0]]
    OBVIOUS
  <2>2. \A p \in 0..hs : w[p] = up[p]
    BY <1>6, <2>1
  <2>3. w = [p \in 0..hs |-> w[p]]
    BY <2>1
  <2>4. w = [p \in 0..hs |-> b[p]]
    BY <1>5, <2>2, <2>3
  <2> QED
    BY <1>4, <2>1, <2>4
<1> QED
  BY <1>7, Zenon DEF Lifts

LEMMA InsertLifts ==
  ASSUME NEW u, NEW hs \in Nat, NEW x
  PROVE  \E up : Lifts(up, u, hs, x) /\ MinHeapInsert(u, hs, x) = up[hs]
<1>1. MinHeapInsert(u, hs, x) = InsertIs(CHOOSE up : Lifts(up, u, hs, x), hs)
  <2>1. MinHeapInsert(u, hs, x) = InsertIs(CHOOSE up : up = [p \in 0..hs |->
              IF p # 0 /\ u[Parent(p)] > x
              THEN [up[Parent(p)] EXCEPT ![p] = u[Parent(p)]]
              ELSE [i \in 0..hs |-> IF i = p THEN x ELSE IF i < hs THEN u[i] ELSE 0]], hs)
    BY Zenon DEF MinHeapInsert, InsertIs
  <2> QED
    BY <2>1, Zenon DEF Lifts
<1>2. PICK up : up = CHOOSE f : Lifts(f, u, hs, x)
  OBVIOUS
<1>3. Lifts(up, u, hs, x)
  BY <1>2, LiftsExist, Zenon
<1> QED
  BY <1>1, <1>2, <1>3, Zenon DEF InsertIs

\* The loop puts x and the samples of all other cells into the cells, and keeps
\* their order.
Lifted(v, u, hs, p) ==
  /\ v \in [0..hs -> Nat]
  /\ \A i \in 1..hs : i < hs \/ p = hs => v[Parent(i)] <= v[i]
  /\ p < hs => v[p] <= u[p]
  /\ \A i \in 0..(hs - 1) : i > p => v[i] = u[i]

LEMMA LiftKeepsOrder ==
  ASSUME NEW hs \in Nat, NEW u \in [0..(hs - 1) -> Nat], NEW x \in Nat, Ordered(u, hs),
         NEW up, Lifts(up, u, hs, x)
  PROVE  \A p \in 0..hs : p = hs \/ u[p] > x => Lifted(up[p], u, hs, p)
<1> DEFINE Bad == {p \in 0..hs : (p = hs \/ u[p] > x) /\ ~Lifted(up[p], u, hs, p)}
<1> SUFFICES ASSUME Bad # {} PROVE FALSE
  OBVIOUS
<1>1. Bad \in SUBSET Nat
  OBVIOUS
<1>2. PICK p \in Bad : \A k \in Bad : p <= k
  BY <1>1, Smallest
<1>3. p \in 0..hs /\ (p = hs \/ u[p] > x) /\ ~Lifted(up[p], u, hs, p)
  OBVIOUS
<1>4. up[p] = IF p # 0 /\ u[Parent(p)] > x
              THEN [up[Parent(p)] EXCEPT ![p] = u[Parent(p)]]
              ELSE [i \in 0..hs |-> IF i = p THEN x ELSE IF i < hs THEN u[i] ELSE 0]
  BY <1>3, Zenon DEF Lifts
<1>5. \A i \in 1..hs : Parent(i) \in 0..(hs - 1) /\ Parent(i) < i
  BY ParentIs
<1>6. \A i \in 1..(hs - 1) : u[Parent(i)] <= u[i]
  BY DEF Ordered
<1>7. CASE p # 0 /\ u[Parent(p)] > x
  <2>1. PICK q \in 0..(hs - 1) : q = Parent(p) /\ q < p
    BY <1>3, <1>5, <1>7
  <2>2. PICK v : v = up[q] /\ Lifted(v, u, hs, q)
    <3>1. q \in 0..hs /\ u[q] > x /\ q \notin Bad
      BY <1>2, <1>7, <2>1
    <3> QED
      BY <3>1
  <2>3. up[p] = [v EXCEPT ![p] = u[q]]
    BY <1>4, <1>7, <2>1, <2>2
  <2>4. v \in [0..hs -> Nat] /\ u[q] \in Nat
    BY <2>1, <2>2 DEF Lifted
  <2>5. PICK w : w = up[p]
    OBVIOUS
  <2>6. w \in [0..hs -> Nat] /\ w[p] = u[q] /\ \A i \in 0..hs : i # p => w[i] = v[i]
    BY <1>3, <2>3, <2>4, <2>5
  <2>7. /\ \A i \in 1..(hs - 1) : v[Parent(i)] <= v[i]
        /\ v[q] <= u[q]
        /\ \A i \in 0..(hs - 1) : i > q => v[i] = u[i]
    <3>1. \A i \in 1..(hs - 1) : i \in 1..hs /\ i < hs
      OBVIOUS
    <3>2. \A i \in 1..hs : i < hs \/ q = hs => v[Parent(i)] <= v[i]
      BY <2>2 DEF Lifted
    <3>3. (q < hs => v[q] <= u[q]) /\ \A i \in 0..(hs - 1) : i > q => v[i] = u[i]
      BY <2>2 DEF Lifted
    <3> QED
      BY <2>1, <3>1, <3>2, <3>3
  <2>8. ASSUME NEW i \in 1..hs, i < hs \/ p = hs PROVE w[Parent(i)] <= w[i]
    <3>1. PICK k \in 0..(hs - 1) : k = Parent(i) /\ k < i
      BY <1>5
    <3>2. CASE i = p
      <4>1. w[q] = v[q] /\ w[i] = u[q]
        BY <2>1, <2>6, <3>2
      <4> QED
        BY <2>1, <2>7, <3>1, <3>2, <4>1
    <3>3. CASE i # p /\ k = p
      <4>1. i \in 1..(hs - 1) /\ p \in 1..(hs - 1) /\ i > q
        BY <1>7, <2>1, <2>8, <3>1, <3>3, <1>3
      <4>2. u[p] <= u[i] /\ u[q] <= u[p]
        BY <1>6, <2>1, <3>1, <3>3, <4>1
      <4>3. w[i] = u[i] /\ w[k] = u[q]
        <5>1. i \in 0..hs /\ i \in 0..(hs - 1)
          BY <4>1
        <5>2. w[i] = v[i]
          BY <2>6, <3>3, <5>1
        <5>3. v[i] = u[i]
          BY <2>7, <4>1, <5>1
        <5> QED
          BY <2>6, <3>3, <5>2, <5>3
      <4>4. u[p] \in Nat /\ u[i] \in Nat /\ u[q] \in Nat
        BY <2>1, <4>1
      <4> QED
        BY <3>1, <4>2, <4>3, <4>4
    <3>4. CASE i # p /\ k # p
      <4>1. i \in 1..(hs - 1)
        BY <2>8, <3>4, <1>3
      <4>2. w[i] = v[i] /\ w[k] = v[k]
        <5>1. i \in 0..hs /\ k \in 0..hs
          BY <3>1
        <5> QED
          BY <2>6, <3>4, <5>1
      <4>3. v[Parent(i)] <= v[i]
        BY <2>7, <4>1
      <4> QED
        BY <3>1, <4>2, <4>3
    <3> QED
      BY <3>2, <3>3, <3>4
  <2>9. p < hs => w[p] <= u[p]
    <3>1. p < hs => u[Parent(p)] <= u[p]
      BY <1>3, <1>6, <1>7
    <3> QED
      BY <2>1, <2>6, <3>1
  <2>10. ASSUME NEW i \in 0..(hs - 1), i > p PROVE w[i] = u[i]
    <3>1. i \in 0..hs /\ i # p /\ i > q
      BY <1>3, <2>1, <2>10
    <3>2. w[i] = v[i]
      BY <2>6, <3>1
    <3>3. v[i] = u[i]
      BY <2>7, <3>1
    <3> QED
      BY <3>2, <3>3
  <2> QED
    BY <1>3, <2>5, <2>6, <2>8, <2>9, <2>10 DEF Lifted
<1>8. CASE ~(p # 0 /\ u[Parent(p)] > x)
  <2>1. PICK w : w = up[p]
    OBVIOUS
  <2>2. w = [i \in 0..hs |-> IF i = p THEN x ELSE IF i < hs THEN u[i] ELSE 0]
    BY <1>4, <1>8, <2>1
  <2>3. w \in [0..hs -> Nat] /\ w[p] = x /\ \A i \in 0..(hs - 1) : i # p => w[i] = u[i]
    BY <1>3, <2>2
  <2>4. ASSUME NEW i \in 1..hs, i < hs \/ p = hs PROVE w[Parent(i)] <= w[i]
    <3>1. PICK k \in 0..(hs - 1) : k = Parent(i) /\ k < i
      BY <1>5
    <3>2. CASE i = p
      <4>1. u[k] <= x
        BY <1>8, <3>1, <3>2
      <4> QED
        BY <2>3, <3>1, <3>2, <4>1
    <3>3. CASE i # p /\ k = p
      <4>1. i \in 1..(hs - 1) /\ u[p] > x
        BY <1>3, <2>4, <3>1, <3>3
      <4>2. u[p] <= u[i] /\ w[i] = u[i] /\ w[k] = x
        <5>1. u[p] <= u[i]
          BY <1>6, <3>1, <3>3, <4>1
        <5>2. i \in 0..(hs - 1)
          BY <4>1
        <5> QED
          BY <2>3, <3>3, <5>1, <5>2
      <4>3. u[p] \in Nat /\ u[i] \in Nat
        BY <3>1, <3>3, <4>1
      <4> QED
        BY <3>1, <4>1, <4>2, <4>3
    <3>4. CASE i # p /\ k # p
      <4>1. i \in 1..(hs - 1)
        BY <1>3, <2>4, <3>4
      <4>2. w[i] = u[i] /\ w[k] = u[k]
        BY <2>3, <3>1, <3>4, <4>1
      <4> QED
        BY <1>6, <3>1, <4>1, <4>2
    <3> QED
      BY <3>2, <3>3, <3>4
  <2>5. p < hs => w[p] <= u[p]
    BY <1>3, <2>3
  <2>6. \A i \in 0..(hs - 1) : i > p => w[i] = u[i]
    BY <1>3, <2>3
  <2> QED
    BY <1>3, <2>1, <2>3, <2>4, <2>5, <2>6 DEF Lifted
<1> QED
  BY <1>7, <1>8

\* ... and no sample is lost.
LiftHolds(d, u, hs, v, p, s) ==
  \A P, S :
    (/\ P \subseteq 0..(hs - 1) /\ p \notin P /\ \A i \in 0..(hs - 1) : i < p => i \in P
     /\ s \notin S /\ Holds(d, u, P, S))
    => Holds(d, v, P \cup {p}, S \cup {s})

LEMMA LiftKeepsSamples ==
  ASSUME NEW d, NEW s, NEW hs \in Nat, NEW u \in [0..(hs - 1) -> Nat], Ordered(u, hs), d[s] \in Nat,
         NEW up, Lifts(up, u, hs, d[s])
  PROVE  \A p \in 0..hs : p = hs \/ u[p] > d[s] => LiftHolds(d, u, hs, up[p], p, s)
<1> DEFINE Bad == {p \in 0..hs : (p = hs \/ u[p] > d[s]) /\ ~LiftHolds(d, u, hs, up[p], p, s)}
<1> SUFFICES ASSUME Bad # {} PROVE FALSE
  OBVIOUS
<1>1. Bad \in SUBSET Nat
  OBVIOUS
<1>2. PICK p \in Bad : \A k \in Bad : p <= k
  BY <1>1, Smallest
<1>3. p \in 0..hs /\ (p = hs \/ u[p] > d[s]) /\ ~LiftHolds(d, u, hs, up[p], p, s)
  OBVIOUS
<1>4. up[p] = IF p # 0 /\ u[Parent(p)] > d[s]
              THEN [up[Parent(p)] EXCEPT ![p] = u[Parent(p)]]
              ELSE [i \in 0..hs |-> IF i = p THEN d[s] ELSE IF i < hs THEN u[i] ELSE 0]
  BY <1>3, Zenon DEF Lifts
<1>5. PICK P, S : /\ P \subseteq 0..(hs - 1) /\ p \notin P /\ \A i \in 0..(hs - 1) : i < p => i \in P
                  /\ s \notin S /\ Holds(d, u, P, S) /\ ~Holds(d, up[p], P \cup {p}, S \cup {s})
  <2>1. ~LiftHolds(d, u, hs, up[p], p, s)
    BY <1>3
  <2> HIDE DEF Bad
  <2> QED
    BY <2>1 DEF LiftHolds
<1>6. CASE p # 0 /\ u[Parent(p)] > d[s]
  <2>1. PICK q \in 0..(hs - 1) : q = Parent(p) /\ q < p
    BY <1>3, <1>6, ParentIs
  <2>2. q \in P
    BY <1>5, <2>1
  <2>3. PICK r \in S : u[q] = d[r] /\ Holds(d, u, P \ {q}, S \ {r})
    BY <1>5, <2>2, HoldsDrop
  <2>4. q \in 0..hs /\ u[q] > d[s] /\ q \notin Bad
    BY <1>2, <1>3, <1>6, <2>1
  <2>5. PICK v : v = up[q] /\ LiftHolds(d, u, hs, v, q, s)
    BY <2>4
  <2>6. /\ P \ {q} \subseteq 0..(hs - 1) /\ q \notin P \ {q} /\ s \notin S \ {r}
        /\ \A i \in 0..(hs - 1) : i < q => i \in P \ {q}
    <3>1. \A i \in 0..(hs - 1) : i < q => i < p /\ i # q
      BY <1>3, <2>1
    <3>2. \A i \in 0..(hs - 1) : i < p => i \in P
      BY <1>5
    <3> QED
      BY <1>5, <3>1, <3>2
  <2>7. Holds(d, v, (P \ {q}) \cup {q}, (S \ {r}) \cup {s})
    BY <2>3, <2>5, <2>6, Zenon DEF LiftHolds
  <2>8. Holds(d, v, P, (S \ {r}) \cup {s})
    <3>1. (P \ {q}) \cup {q} = P
      BY <2>2
    <3> QED
      BY <2>7, <3>1
  <2>9. PICK w : w = up[p]
    OBVIOUS
  <2>10. w[p] = d[r] /\ \A i \in P : w[i] = v[i]
    <3>1. v \in [0..hs -> Nat]
      BY <2>4, <2>5, LiftKeepsOrder DEF Lifted
    <3>2. w = [v EXCEPT ![p] = u[q]]
      BY <1>4, <1>6, <2>1, <2>5, <2>9
    <3> QED
      BY <1>3, <1>5, <2>3, <3>1, <3>2
  <2>11. r \notin (S \ {r}) \cup {s}
    BY <1>5, <2>3
  <2>12. Holds(d, w, P \cup {p}, ((S \ {r}) \cup {s}) \cup {r})
    BY <1>5, <2>8, <2>10, <2>11, HoldsAdd
  <2>13. ((S \ {r}) \cup {s}) \cup {r} = S \cup {s}
    BY <2>3
  <2> QED
    BY <1>5, <2>9, <2>12, <2>13
<1>7. CASE ~(p # 0 /\ u[Parent(p)] > d[s])
  <2>1. PICK w : w = up[p]
    OBVIOUS
  <2>2. w = [i \in 0..hs |-> IF i = p THEN d[s] ELSE IF i < hs THEN u[i] ELSE 0]
    BY <1>4, <1>7, <2>1
  <2>3. w[p] = d[s] /\ \A i \in P : w[i] = u[i]
    BY <1>3, <1>5, <2>2
  <2>4. Holds(d, w, P \cup {p}, S \cup {s})
    BY <1>5, <2>3, HoldsAdd
  <2> QED
    BY <1>5, <2>1, <2>4
<1> QED
  BY <1>6, <1>7

\* MinHeapInsert adds a sample to the heap.
LEMMA InsertHolds ==
  ASSUME NEW d, NEW s, NEW hs \in Nat, NEW u \in [0..(hs - 1) -> Nat], Ordered(u, hs), d[s] \in Nat,
         NEW S, s \notin S, Holds(d, u, 0..(hs - 1), S)
  PROVE  /\ MinHeapInsert(u, hs, d[s]) \in [0..hs -> Nat]
         /\ Ordered(MinHeapInsert(u, hs, d[s]), hs + 1)
         /\ Holds(d, MinHeapInsert(u, hs, d[s]), 0..hs, S \cup {s})
<1>1. PICK up : Lifts(up, u, hs, d[s]) /\ MinHeapInsert(u, hs, d[s]) = up[hs]
  BY InsertLifts
<1>2. hs \in 0..hs
  OBVIOUS
<1>3. Lifted(up[hs], u, hs, hs)
  BY <1>1, <1>2, LiftKeepsOrder
<1>4. LiftHolds(d, u, hs, up[hs], hs, s)
  BY <1>1, <1>2, LiftKeepsSamples
<1>5. up[hs] \in [0..hs -> Nat] /\ \A i \in 1..hs : up[hs][Parent(i)] <= up[hs][i]
  BY <1>3 DEF Lifted
<1>6. Holds(d, up[hs], (0..(hs - 1)) \cup {hs}, S \cup {s})
  <2>1. hs \notin 0..(hs - 1)
    OBVIOUS
  <2> QED
    BY <1>4, <2>1, Zenon DEF LiftHolds
<1>7. (0..(hs - 1)) \cup {hs} = 0..hs /\ (hs + 1) - 1 = hs
  OBVIOUS
<1> QED
  BY <1>1, <1>5, <1>6, <1>7 DEF Ordered

\* The cell that MinHeapReplace goes on with from cell p, or p where it ends.
Child(u, hs, x, p) ==
  IF 2 * p + 1 < hs /\ x > u[2 * p + 1]
  THEN IF 2 * p + 2 < hs /\ u[2 * p + 1] > u[2 * p + 2] THEN 2 * p + 2 ELSE 2 * p + 1
  ELSE IF 2 * p + 2 < hs /\ x > u[2 * p + 2] THEN 2 * p + 2 ELSE p

Leads(c, u, hs, x, p) ==
  \/ /\ c = p
     /\ \A o \in {2 * p + 1, 2 * p + 2} : o < hs => x <= u[o]
  \/ /\ c \in {2 * p + 1, 2 * p + 2} /\ c \in 0..(hs - 1) /\ c > p /\ x > u[c]
     /\ \A o \in {2 * p + 1, 2 * p + 2} : o < hs => u[c] <= u[o]

LEMMA ChildLeads ==
  ASSUME NEW hs \in Nat, NEW u \in [0..(hs - 1) -> Nat], NEW x \in Nat, NEW p \in 0..(hs - 1)
  PROVE  Leads(Child(u, hs, x, p), u, hs, x, p)
<1>0. PICK c : c = Child(u, hs, x, p)
  OBVIOUS
<1>1. PICK l, r : l = 2 * p + 1 /\ r = 2 * p + 2
  OBVIOUS
<1>2. l \in Nat /\ r \in Nat /\ l > p /\ r > p /\ (l < hs => l \in 0..(hs - 1)) /\ (r < hs => r \in 0..(hs - 1))
  BY <1>1
<1>3. (l < hs => u[l] \in Nat) /\ (r < hs => u[r] \in Nat)
  BY <1>2
<1>4. c = IF l < hs /\ x > u[l] THEN IF r < hs /\ u[l] > u[r] THEN r ELSE l
          ELSE IF r < hs /\ x > u[r] THEN r ELSE p
  BY <1>0, <1>1 DEF Child
<1>5. ASSUME l < hs /\ x > u[l] /\ r < hs /\ u[l] > u[r] PROVE Leads(c, u, hs, x, p)
  BY <1>1, <1>2, <1>3, <1>4, <1>5 DEF Leads
<1>6. ASSUME l < hs /\ x > u[l] /\ ~(r < hs /\ u[l] > u[r]) PROVE Leads(c, u, hs, x, p)
  BY <1>1, <1>2, <1>3, <1>4, <1>6 DEF Leads
<1>7. ASSUME ~(l < hs /\ x > u[l]) /\ r < hs /\ x > u[r] PROVE Leads(c, u, hs, x, p)
  BY <1>1, <1>2, <1>3, <1>4, <1>7 DEF Leads
<1>8. ASSUME ~(l < hs /\ x > u[l]) /\ ~(r < hs /\ x > u[r]) PROVE Leads(c, u, hs, x, p)
  BY <1>1, <1>2, <1>3, <1>4, <1>8 DEF Leads
<1> QED
  BY <1>0, <1>5, <1>6, <1>7, <1>8


LEMMA ChildBelow ==
  ASSUME NEW hs \in Nat, NEW u \in [0..(hs - 1) -> Nat], NEW x \in Nat, NEW p \in 0..(hs - 1)
  PROVE  \/ Child(u, hs, x, p) = p
         \/ Child(u, hs, x, p) \in 0..(hs - 1) /\ Child(u, hs, x, p) > p
<1>1. PICK c : c = Child(u, hs, x, p)
  OBVIOUS
<1>2. c = p \/ (c \in 0..(hs - 1) /\ c > p)
  BY <1>1, ChildLeads DEF Leads
<1> QED
  BY <1>1, <1>2

\* What down, its loop from cell 0 towards the leaves, computes.
Sinks(down, u, hs, x) ==
  down = [p \in 0..(hs - 1) |->
    LET l == 2 * p + 1
        r == 2 * p + 2
    IN  IF l < hs /\ x > u[l]
        THEN IF r < hs /\ u[l] > u[r] THEN [down[r] EXCEPT ![p] = u[r]]
             ELSE [down[l] EXCEPT ![p] = u[l]]
        ELSE IF r < hs /\ x > u[r] THEN [down[r] EXCEPT ![p] = u[r]] ELSE [u EXCEPT ![p] = x]]

SinksAt(b, y, u, hs, x, p) ==
  LET c == Child(u, hs, x, p)
  IN  y = IF c = p THEN [u EXCEPT ![p] = x] ELSE [b[c] EXCEPT ![p] = u[c]]

LEMMA SinksIs ==
  ASSUME NEW hs \in Nat, NEW u, NEW x, NEW down
  PROVE  Sinks(down, u, hs, x)
           <=> /\ down = [p \in 0..(hs - 1) |-> down[p]]
               /\ \A p \in 0..(hs - 1) : SinksAt(down, down[p], u, hs, x, p)
<1>1. ASSUME NEW p \in 0..(hs - 1), NEW y
      PROVE  SinksAt(down, y, u, hs, x, p)
               <=> y = LET l == 2 * p + 1
                           r == 2 * p + 2
                       IN  IF l < hs /\ x > u[l]
                           THEN IF r < hs /\ u[l] > u[r] THEN [down[r] EXCEPT ![p] = u[r]]
                                ELSE [down[l] EXCEPT ![p] = u[l]]
                           ELSE IF r < hs /\ x > u[r] THEN [down[r] EXCEPT ![p] = u[r]]
                                ELSE [u EXCEPT ![p] = x]
  <2>1. 2 * p + 1 # p /\ 2 * p + 2 # p
    OBVIOUS
  <2>2. PICK l, r, z, b, e :
          /\ l = 2 * p + 1 /\ r = 2 * p + 2 /\ z = [u EXCEPT ![p] = x]
          /\ b = [down[r] EXCEPT ![p] = u[r]] /\ e = [down[l] EXCEPT ![p] = u[l]]
    OBVIOUS
  <2>3. l # p /\ r # p
    BY <2>1, <2>2
  <2>4. PICK c : c = IF l < hs /\ x > u[l] THEN IF r < hs /\ u[l] > u[r] THEN r ELSE l
                     ELSE IF r < hs /\ x > u[r] THEN r ELSE p
    OBVIOUS
  <2>5. c = Child(u, hs, x, p)
    BY <2>2, <2>4, Zenon DEF Child
  <2>6. SinksAt(down, y, u, hs, x, p)
          <=> y = IF c = p THEN z ELSE [down[c] EXCEPT ![p] = u[c]]
    BY <2>2, <2>5, Zenon DEF SinksAt
  <2>7. (IF c = p THEN z ELSE [down[c] EXCEPT ![p] = u[c]])
          = IF l < hs /\ x > u[l] THEN IF r < hs /\ u[l] > u[r] THEN b ELSE e
            ELSE IF r < hs /\ x > u[r] THEN b ELSE z
    <3>1. CASE l < hs /\ x > u[l] /\ r < hs /\ u[l] > u[r]
      BY <2>2, <2>3, <2>4, <3>1, Zenon
    <3>2. CASE l < hs /\ x > u[l] /\ ~(r < hs /\ u[l] > u[r])
      BY <2>2, <2>3, <2>4, <3>2, Zenon
    <3>3. CASE ~(l < hs /\ x > u[l]) /\ r < hs /\ x > u[r]
      BY <2>2, <2>3, <2>4, <3>3, Zenon
    <3>4. CASE ~(l < hs /\ x > u[l]) /\ ~(r < hs /\ x > u[r])
      BY <2>2, <2>3, <2>4, <3>4, Zenon
    <3> QED
      BY <3>1, <3>2, <3>3, <3>4, Zenon
  <2> QED
    BY <2>2, <2>6, <2>7, Zenon
<1>2. PICK f : f = [p \in 0..(hs - 1) |->
    LET l == 2 * p + 1
        r == 2 * p + 2
    IN  IF l < hs /\ x > u[l]
        THEN IF r < hs /\ u[l] > u[r] THEN [down[r] EXCEPT ![p] = u[r]]
             ELSE [down[l] EXCEPT ![p] = u[l]]
        ELSE IF r < hs /\ x > u[r] THEN [down[r] EXCEPT ![p] = u[r]] ELSE [u EXCEPT ![p] = x]]
  OBVIOUS
<1>3. Sinks(down, u, hs, x) <=> down = f
  BY <1>2, Zenon DEF Sinks
<1>4. f = [p \in 0..(hs - 1) |-> f[p]] /\ \A p \in 0..(hs - 1) : SinksAt(down, f[p], u, hs, x, p)
  <2>1. f = [p \in 0..(hs - 1) |-> f[p]]
    BY <1>2, Zenon
  <2>2. ASSUME NEW p \in 0..(hs - 1) PROVE SinksAt(down, f[p], u, hs, x, p)
    <3>1. f[p] = LET l == 2 * p + 1
                     r == 2 * p + 2
                 IN  IF l < hs /\ x > u[l]
                     THEN IF r < hs /\ u[l] > u[r] THEN [down[r] EXCEPT ![p] = u[r]]
                          ELSE [down[l] EXCEPT ![p] = u[l]]
                     ELSE IF r < hs /\ x > u[r] THEN [down[r] EXCEPT ![p] = u[r]]
                          ELSE [u EXCEPT ![p] = x]
      BY <1>2, Zenon
    <3> QED
      BY <1>1, <3>1, Zenon
  <2> QED
    BY <2>1, <2>2
<1>5. \A p \in 0..(hs - 1) : \A y, z : SinksAt(down, y, u, hs, x, p) /\ SinksAt(down, z, u, hs, x, p) => y = z
  BY Zenon DEF SinksAt
<1>6. ASSUME down = [p \in 0..(hs - 1) |-> down[p]],
             \A p \in 0..(hs - 1) : SinksAt(down, down[p], u, hs, x, p)
      PROVE  down = f
  <2>1. \A p \in 0..(hs - 1) : down[p] = f[p]
    BY <1>4, <1>5, <1>6, Zenon
  <2> QED
    BY <1>4, <1>6, <2>1
<1> QED
  BY <1>3, <1>4, <1>6, Zenon

LEMMA SinksExist ==
  ASSUME NEW hs \in Nat, NEW u \in [0..(hs - 1) -> Nat], NEW x \in Nat
  PROVE  \E down : Sinks(down, u, hs, x)
<1> DEFINE Good(m) == \E b : /\ b = [p \in 0..(hs - 1) |-> b[p]]
                             /\ \A p \in 0..(hs - 1) : p >= hs - m => SinksAt(b, b[p], u, hs, x, p)
           Bad == {m \in 0..hs : ~Good(m)}
<1>1. Bad = {}
  <2> SUFFICES ASSUME Bad # {} PROVE FALSE
    OBVIOUS
  <2>1. Bad \in SUBSET Nat
    OBVIOUS
  <2>2. PICK m \in Bad : \A k \in Bad : m <= k
    BY <2>1, Smallest
  <2>3. m \in 0..hs /\ ~Good(m)
    OBVIOUS
  <2>a. m \in 0..hs
    BY <2>3
  <2>4. m # 0
    <3>1. PICK b : b = [p \in 0..(hs - 1) |-> 0]
      OBVIOUS
    <3>2. b = [p \in 0..(hs - 1) |-> b[p]]
      BY <3>1
    <3>3. m = 0 => \A p \in 0..(hs - 1) : ~(p >= hs - m)
      OBVIOUS
    <3>4. m = 0 => Good(m)
      BY <3>2, <3>3
    <3> QED
      BY <2>3, <3>4
  <2>5. m - 1 \in 0..hs /\ m - 1 \notin Bad
    <3> HIDE DEF Good, Bad
    <3>1. m - 1 \in 0..hs /\ ~(m <= m - 1)
      BY <2>4, <2>a
    <3> QED
      BY <2>2, <3>1
  <2>6. PICK b : /\ b = [p \in 0..(hs - 1) |-> b[p]]
                 /\ \A p \in 0..(hs - 1) : p >= hs - (m - 1) => SinksAt(b, b[p], u, hs, x, p)
    BY <2>5
  <2>7. PICK q \in 0..(hs - 1) : q = hs - m
    <3> HIDE DEF Good, Bad
    <3>1. hs - m \in 0..(hs - 1)
      BY <2>4, <2>a
    <3> QED
      BY <3>1
  <2>8. PICK y : SinksAt(b, y, u, hs, x, q)
    BY DEF SinksAt
  <2>9. PICK e : e = [b EXCEPT ![q] = y]
    OBVIOUS
  <2>10. e = [p \in 0..(hs - 1) |-> e[p]] /\ e[q] = y /\ \A p \in 0..(hs - 1) : p # q => e[p] = b[p]
    BY <2>6, <2>9
  <2>11. ASSUME NEW p \in 0..(hs - 1), p >= hs - m PROVE SinksAt(e, e[p], u, hs, x, p)
    <3>1. PICK c : c = Child(u, hs, x, p)
      OBVIOUS
    <3>2. c = p \/ (c \in 0..(hs - 1) /\ c > p)
      <4> HIDE DEF Good, Bad
      <4>1. \/ c = p
            \/ c \in 0..(hs - 1) /\ c > p
        BY <3>1, ChildBelow
      <4> QED
        BY <4>1
    <3>3. c = p \/ e[c] = b[c]
      <4>1. c > p => c # q
        BY <2>3, <2>7, <2>11
      <4> QED
        BY <2>10, <3>2, <4>1
    <3>4. SinksAt(b, e[p], u, hs, x, p)
      <4>1. CASE p = q
        BY <2>8, <2>10, <4>1
      <4>2. CASE p # q
        <5>1. p >= hs - (m - 1)
          BY <2>3, <2>7, <2>11, <4>2
        <5> QED
          BY <2>6, <2>10, <4>2, <5>1
      <4> QED
        BY <4>1, <4>2
    <3> QED
      BY <3>1, <3>3, <3>4, Zenon DEF SinksAt
  <2>12. Good(m)
    BY <2>10, <2>11
  <2> QED
    BY <2>3, <2>12
<1>2. hs \in 0..hs
  OBVIOUS
<1>3. hs \notin Bad
  BY <1>1, Zenon
<1>4. Good(hs)
  BY <1>2, <1>3
<1>5. PICK b : /\ b = [p \in 0..(hs - 1) |-> b[p]]
               /\ \A p \in 0..(hs - 1) : p >= hs - hs => SinksAt(b, b[p], u, hs, x, p)
  BY <1>4
<1>6. \A p \in 0..(hs - 1) : p >= hs - hs
  OBVIOUS
<1>7. Sinks(b, u, hs, x)
  BY <1>5, <1>6, SinksIs
<1> QED
  BY <1>7

LEMMA ReplaceSinks ==
  ASSUME NEW hs \in Nat, NEW u \in [0..(hs - 1) -> Nat], NEW x \in Nat
  PROVE  \E down : Sinks(down, u, hs, x) /\ MinHeapReplace(u, hs, x) = down[0]
<1>1. MinHeapReplace(u, hs, x) = InsertIs(CHOOSE down : Sinks(down, u, hs, x), 0)
  <2>1. MinHeapReplace(u, hs, x) = InsertIs(CHOOSE down : down = [p \in 0..(hs - 1) |->
    LET l == 2 * p + 1
        r == 2 * p + 2
    IN  IF l < hs /\ x > u[l]
        THEN IF r < hs /\ u[l] > u[r] THEN [down[r] EXCEPT ![p] = u[r]]
             ELSE [down[l] EXCEPT ![p] = u[l]]
        ELSE IF r < hs /\ x > u[r] THEN [down[r] EXCEPT ![p] = u[r]] ELSE [u EXCEPT ![p] = x]], 0)
    BY Zenon DEF MinHeapReplace, InsertIs
  <2> QED
    BY <2>1, Zenon DEF Sinks
<1>2. PICK down : down = CHOOSE f : Sinks(f, u, hs, x)
  OBVIOUS
<1>3. Sinks(down, u, hs, x)
  BY <1>2, SinksExist, Zenon
<1> QED
  BY <1>1, <1>2, <1>3, Zenon DEF InsertIs

Sunk(v, u, hs, p) ==
  /\ v \in [0..(hs - 1) -> Nat]
  /\ Ordered(v, hs)
  /\ v[p] >= u[p]
  /\ \A i \in 0..(hs - 1) : i < 2 * p + 1 /\ i # p => v[i] = u[i]

LEMMA SinkKeepsOrder ==
  ASSUME NEW hs \in Nat, NEW u \in [0..(hs - 1) -> Nat], NEW x \in Nat, Ordered(u, hs),
         NEW down, Sinks(down, u, hs, x)
  PROVE  \A p \in 0..(hs - 1) : u[p] <= x => Sunk(down[p], u, hs, p)
<1> DEFINE Bad == {m \in Nat : \E p \in 0..(hs - 1) : m = hs - p /\ u[p] <= x /\ ~Sunk(down[p], u, hs, p)}
<1> SUFFICES ASSUME Bad # {} PROVE FALSE
  <2>1. \A p \in 0..(hs - 1) : hs - p \in Nat
    OBVIOUS
  <2> QED
    BY <2>1
<1>1. Bad \in SUBSET Nat
  OBVIOUS
<1>2. PICK m \in Bad : \A k \in Bad : m <= k
  BY <1>1, Smallest
<1>3. PICK p \in 0..(hs - 1) : m = hs - p /\ u[p] <= x /\ ~Sunk(down[p], u, hs, p)
  OBVIOUS
<1>4. \A c \in 0..(hs - 1) : c > p /\ u[c] <= x => Sunk(down[c], u, hs, c)
  <2> SUFFICES ASSUME NEW c \in 0..(hs - 1), c > p, u[c] <= x, ~Sunk(down[c], u, hs, c) PROVE FALSE
    OBVIOUS
  <2>1. hs - c \in Nat /\ ~(m <= hs - c)
    BY <1>3
  <2>2. hs - c \in Bad
    BY <2>1
  <2> HIDE DEF Bad
  <2> QED
    BY <1>2, <2>1, <2>2
<1> HIDE DEF Bad
<1>5. PICK c : c = Child(u, hs, x, p)
  OBVIOUS
<1>6. down[p] = IF c = p THEN [u EXCEPT ![p] = x] ELSE [down[c] EXCEPT ![p] = u[c]]
  <2>1. SinksAt(down, down[p], u, hs, x, p)
    BY SinksIs
  <2> QED
    BY <1>5, <2>1, Zenon DEF SinksAt
<1>7. \A i \in 1..(hs - 1) : Parent(i) \in 0..(hs - 1) /\ Parent(i) < i
  BY ParentIs
<1>8. \A i \in 1..(hs - 1) : u[Parent(i)] <= u[i]
  BY DEF Ordered
<1>9. \A i \in 1..(hs - 1) : Parent(i) = p => i \in {2 * p + 1, 2 * p + 2}
  BY ParentIs
<1>10. PICK w : w = down[p]
  OBVIOUS
<1>11. CASE c = p /\ \A o \in {2 * p + 1, 2 * p + 2} : o < hs => x <= u[o]
  <2>1. w = [u EXCEPT ![p] = x]
    BY <1>6, <1>10, <1>11
  <2>2. w \in [0..(hs - 1) -> Nat] /\ w[p] = x /\ \A i \in 0..(hs - 1) : i # p => w[i] = u[i]
    BY <2>1
  <2>3. ASSUME NEW i \in 1..(hs - 1) PROVE w[Parent(i)] <= w[i]
    <3>1. PICK k \in 0..(hs - 1) : k = Parent(i) /\ k < i
      BY <1>7
    <3>2. i \in 0..(hs - 1) /\ u[k] <= u[i] /\ u[k] \in Nat /\ u[i] \in Nat
      BY <1>8, <3>1
    <3>3. CASE i = p
      <4>1. w[i] = x /\ w[k] = u[k]
        BY <2>2, <3>1, <3>3
      <4> QED
        BY <1>3, <3>1, <3>2, <3>3, <4>1
    <3>4. CASE i # p /\ k = p
      <4>1. x <= u[i]
        <5>1. Parent(i) = p /\ i < hs
          BY <3>1, <3>4
        <5>2. i \in {2 * p + 1, 2 * p + 2}
          BY <1>9, <5>1
        <5> QED
          BY <1>11, <5>1, <5>2
      <4>2. w[i] = u[i] /\ w[k] = x
        BY <2>2, <3>2, <3>4
      <4> QED
        BY <3>1, <4>1, <4>2
    <3>5. CASE i # p /\ k # p
      <4>1. w[i] = u[i] /\ w[k] = u[k]
        BY <2>2, <3>2, <3>5
      <4> QED
        BY <3>1, <3>2, <4>1
    <3> QED
      BY <3>3, <3>4, <3>5
  <2>4. Ordered(w, hs)
    BY <2>3 DEF Ordered
  <2>5. w[p] >= u[p]
    BY <1>3, <2>2
  <2> QED
    BY <1>3, <1>10, <2>2, <2>4, <2>5 DEF Sunk
<1>12. CASE /\ c \in {2 * p + 1, 2 * p + 2} /\ c \in 0..(hs - 1) /\ c > p /\ x > u[c]
            /\ \A o \in {2 * p + 1, 2 * p + 2} : o < hs => u[c] <= u[o]
  <2>1. u[c] \in Nat /\ u[p] \in Nat /\ u[c] <= x /\ c # p
    BY <1>12
  <2>2. Parent(c) = p /\ c \in 1..(hs - 1)
    BY <1>12, ParentIs
  <2>3. u[p] <= u[c]
    BY <1>8, <2>2
  <2>4. PICK v : v = down[c] /\ Sunk(v, u, hs, c)
    BY <1>4, <1>12, <2>1
  <2>5. /\ v \in [0..(hs - 1) -> Nat]
        /\ \A i \in 1..(hs - 1) : v[Parent(i)] <= v[i]
        /\ v[c] >= u[c]
        /\ \A i \in 0..(hs - 1) : i < 2 * c + 1 /\ i # c => v[i] = u[i]
    BY <2>4 DEF Sunk, Ordered
  <2>6. w = [v EXCEPT ![p] = u[c]]
    BY <1>6, <1>10, <2>1, <2>4
  <2>7. w \in [0..(hs - 1) -> Nat] /\ w[p] = u[c] /\ \A i \in 0..(hs - 1) : i # p => w[i] = v[i]
    BY <2>1, <2>5, <2>6
  <2>8. ASSUME NEW i \in 1..(hs - 1) PROVE w[Parent(i)] <= w[i]
    <3>1. PICK k \in 0..(hs - 1) : k = Parent(i) /\ k < i
      BY <1>7
    <3>2. i \in 0..(hs - 1) /\ u[k] <= u[i] /\ u[k] \in Nat /\ u[i] \in Nat /\ v[k] <= v[i]
      BY <1>8, <2>5, <3>1
    <3>3. CASE i = p
      <4>1. k < 2 * c + 1 /\ k # c /\ k # p
        BY <1>12, <3>1, <3>3
      <4>2. w[k] = u[k]
        BY <2>5, <2>7, <3>1, <4>1
      <4>3. u[k] <= u[c]
        BY <2>1, <2>3, <3>2, <3>3
      <4> QED
        BY <2>7, <3>1, <3>3, <4>2, <4>3
    <3>4. CASE i # p /\ k = p
      <4>1. w[k] = u[c] /\ w[i] = v[i]
        BY <2>7, <3>2, <3>4
      <4>2. CASE i = c
        BY <2>5, <3>1, <4>1, <4>2
      <4>3. CASE i # c
        <5>1. i \in {2 * p + 1, 2 * p + 2}
          BY <1>9, <3>1, <3>4
        <5>2. u[c] <= u[i] /\ i < 2 * c + 1
          BY <1>12, <5>1
        <5>3. v[i] = u[i]
          BY <2>5, <3>2, <4>3, <5>2
        <5> QED
          BY <3>1, <4>1, <5>2, <5>3
      <4> QED
        BY <4>2, <4>3
    <3>5. CASE i # p /\ k # p
      <4>1. w[i] = v[i] /\ w[k] = v[k]
        BY <2>7, <3>2, <3>5
      <4> QED
        BY <3>1, <3>2, <4>1
    <3> QED
      BY <3>3, <3>4, <3>5
  <2>9. Ordered(w, hs)
    BY <2>8 DEF Ordered
  <2>10. w[p] >= u[p]
    BY <2>1, <2>3, <2>7
  <2>11. ASSUME NEW i \in 0..(hs - 1), i < 2 * p + 1, i # p PROVE w[i] = u[i]
    <3>1. i < 2 * c + 1 /\ i # c
      BY <1>12, <2>11
    <3> QED
      BY <2>5, <2>7, <2>11, <3>1
  <2> QED
    BY <1>3, <1>10, <2>7, <2>9, <2>10, <2>11 DEF Sunk
<1>13. \/ /\ c = p
          /\ \A o \in {2 * p + 1, 2 * p + 2} : o < hs => x <= u[o]
       \/ /\ c \in {2 * p + 1, 2 * p + 2} /\ c \in 0..(hs - 1) /\ c > p /\ x > u[c]
          /\ \A o \in {2 * p + 1, 2 * p + 2} : o < hs => u[c] <= u[o]
  <2>1. Leads(Child(u, hs, x, p), u, hs, x, p)
    BY ChildLeads
  <2> QED
    BY <1>5, <2>1, Zenon DEF Leads
<1> QED
  BY <1>11, <1>12, <1>13

SinkHolds(d, u, hs, v, p, s) ==
  \A P, S :
    (/\ P \subseteq 0..(hs - 1) /\ p \notin P /\ \A i \in 0..(hs - 1) : i > p => i \in P
     /\ s \notin S /\ Holds(d, u, P, S))
    => Holds(d, v, P \cup {p}, S \cup {s})

LEMMA SinkKeepsSamples ==
  ASSUME NEW d, NEW s, NEW hs \in Nat, NEW u \in [0..(hs - 1) -> Nat], Ordered(u, hs), d[s] \in Nat,
         NEW down, Sinks(down, u, hs, d[s])
  PROVE  \A p \in 0..(hs - 1) : u[p] <= d[s] => SinkHolds(d, u, hs, down[p], p, s)
<1> DEFINE Bad == {m \in Nat : \E p \in 0..(hs - 1) :
                     m = hs - p /\ u[p] <= d[s] /\ ~SinkHolds(d, u, hs, down[p], p, s)}
<1> SUFFICES ASSUME Bad # {} PROVE FALSE
  <2>1. \A p \in 0..(hs - 1) : hs - p \in Nat
    OBVIOUS
  <2> QED
    BY <2>1
<1>1. Bad \in SUBSET Nat
  OBVIOUS
<1>2. PICK m \in Bad : \A k \in Bad : m <= k
  BY <1>1, Smallest
<1>3. PICK p \in 0..(hs - 1) : m = hs - p /\ u[p] <= d[s] /\ ~SinkHolds(d, u, hs, down[p], p, s)
  OBVIOUS
<1>4. \A c \in 0..(hs - 1) : c > p /\ u[c] <= d[s] => SinkHolds(d, u, hs, down[c], c, s)
  <2> SUFFICES ASSUME NEW c \in 0..(hs - 1), c > p, u[c] <= d[s], ~SinkHolds(d, u, hs, down[c], c, s)
               PROVE FALSE
    OBVIOUS
  <2>1. hs - c \in Nat /\ ~(m <= hs - c)
    BY <1>3
  <2>2. hs - c \in Bad
    BY <2>1
  <2> HIDE DEF Bad
  <2> QED
    BY <1>2, <2>1, <2>2
<1> HIDE DEF Bad
<1>5. PICK c : c = Child(u, hs, d[s], p)
  OBVIOUS
<1>6. down[p] = IF c = p THEN [u EXCEPT ![p] = d[s]] ELSE [down[c] EXCEPT ![p] = u[c]]
  <2>1. SinksAt(down, down[p], u, hs, d[s], p)
    BY SinksIs
  <2> QED
    BY <1>5, <2>1, Zenon DEF SinksAt
<1>7. PICK P, S : /\ P \subseteq 0..(hs - 1) /\ p \notin P /\ \A i \in 0..(hs - 1) : i > p => i \in P
                  /\ s \notin S /\ Holds(d, u, P, S) /\ ~Holds(d, down[p], P \cup {p}, S \cup {s})
  <2>1. ~SinkHolds(d, u, hs, down[p], p, s)
    BY <1>3
  <2> QED
    BY <2>1 DEF SinkHolds
<1>8. PICK w : w = down[p]
  OBVIOUS
<1>9. CASE c = p
  <2>1. w = [u EXCEPT ![p] = d[s]]
    BY <1>6, <1>8, <1>9
  <2>2. w[p] = d[s] /\ \A i \in P : w[i] = u[i]
    BY <1>7, <2>1
  <2>3. Holds(d, w, P \cup {p}, S \cup {s})
    BY <1>7, <2>2, HoldsAdd
  <2> QED
    BY <1>7, <1>8, <2>3
<1>10. CASE c # p /\ c \in 0..(hs - 1) /\ c > p /\ d[s] > u[c]
  <2>1. c \in P /\ u[c] <= d[s]
    BY <1>7, <1>10
  <2>2. PICK r \in S : u[c] = d[r] /\ Holds(d, u, P \ {c}, S \ {r})
    BY <1>7, <2>1, HoldsDrop
  <2>3. PICK v : v = down[c] /\ SinkHolds(d, u, hs, v, c, s)
    BY <1>4, <1>10, <2>1
  <2>4. /\ P \ {c} \subseteq 0..(hs - 1) /\ c \notin P \ {c} /\ s \notin S \ {r}
        /\ \A i \in 0..(hs - 1) : i > c => i \in P \ {c}
    <3>1. \A i \in 0..(hs - 1) : i > c => i > p /\ i # c
      BY <1>10
    <3>2. \A i \in 0..(hs - 1) : i > p => i \in P
      BY <1>7
    <3> QED
      BY <1>7, <3>1, <3>2
  <2>5. Holds(d, v, (P \ {c}) \cup {c}, (S \ {r}) \cup {s})
    BY <2>2, <2>3, <2>4, Zenon DEF SinkHolds
  <2>6. Holds(d, v, P, (S \ {r}) \cup {s})
    <3>1. (P \ {c}) \cup {c} = P
      BY <2>1
    <3> QED
      BY <2>5, <3>1
  <2>7. w[p] = d[r] /\ \A i \in P : w[i] = v[i]
    <3>1. v \in [0..(hs - 1) -> Nat]
      BY <1>10, <2>1, <2>3, SinkKeepsOrder DEF Sunk
    <3>2. w = [v EXCEPT ![p] = u[c]]
      BY <1>6, <1>8, <1>10, <2>3
    <3> QED
      BY <1>7, <2>2, <3>1, <3>2
  <2>8. r \notin (S \ {r}) \cup {s}
    BY <1>7, <2>2
  <2>9. Holds(d, w, P \cup {p}, ((S \ {r}) \cup {s}) \cup {r})
    BY <1>7, <2>6, <2>7, <2>8, HoldsAdd
  <2>10. ((S \ {r}) \cup {s}) \cup {r} = S \cup {s}
    BY <2>2
  <2> QED
    BY <1>7, <1>8, <2>9, <2>10
<1> QED
  BY <1>5, <1>9, <1>10, ChildLeads DEF Leads

\* MinHeapReplace puts a sample in the place of the least of the heap.
LEMMA ReplaceHolds ==
  ASSUME NEW d, NEW s, NEW hs \in Nat \ {0}, NEW u \in [0..(hs - 1) -> Nat], Ordered(u, hs),
         d[s] \in Nat, d[s] > u[0], NEW S, s \notin S, Holds(d, u, 0..(hs - 1), S),
         NEW v, v = MinHeapReplace(u, hs, d[s])
  PROVE  /\ v \in [0..(hs - 1) -> Nat] /\ Ordered(v, hs) /\ u[0] <= v[0]
         /\ \E r \in S : d[r] = u[0] /\ Holds(d, v, 0..(hs - 1), (S \ {r}) \cup {s})
<1>1. PICK down : Sinks(down, u, hs, d[s]) /\ v = down[0]
  BY ReplaceSinks
<1>2. 0 \in 0..(hs - 1) /\ u[0] <= d[s] /\ u[0] \in Nat
  OBVIOUS
<1>3. Sunk(v, u, hs, 0)
  BY <1>1, <1>2, SinkKeepsOrder
<1>4. SinkHolds(d, u, hs, v, 0, s)
  BY <1>1, <1>2, SinkKeepsSamples
<1>5. PICK r \in S : u[0] = d[r] /\ Holds(d, u, (0..(hs - 1)) \ {0}, S \ {r})
  BY <1>2, HoldsDrop
<1>6. Holds(d, v, ((0..(hs - 1)) \ {0}) \cup {0}, (S \ {r}) \cup {s})
  <2>1. /\ (0..(hs - 1)) \ {0} \subseteq 0..(hs - 1) /\ 0 \notin (0..(hs - 1)) \ {0}
        /\ \A i \in 0..(hs - 1) : i > 0 => i \in (0..(hs - 1)) \ {0}
        /\ s \notin S \ {r}
    OBVIOUS
  <2> QED
    BY <1>4, <1>5, <2>1, Zenon DEF SinkHolds
<1>7. ((0..(hs - 1)) \ {0}) \cup {0} = 0..(hs - 1)
  BY <1>2
<1>8. v \in [0..(hs - 1) -> Nat] /\ Ordered(v, hs) /\ u[0] <= v[0]
  BY <1>2, <1>3 DEF Sunk
<1> QED
  BY <1>5, <1>6, <1>7, <1>8

\* What heap, the loops of MedianOf, computes.
Grows(f, d, n) ==
  f = [i \in 0..n |->
        IF i = 0 THEN Nothing
        ELSE IF i <= (n + 1) \div 2 THEN MinHeapInsert(f[i - 1], i - 1, d[i - 1])
        ELSE IF f[i - 1][0] < d[i - 1] THEN MinHeapReplace(f[i - 1], (n + 1) \div 2, d[i - 1])
        ELSE f[i - 1]]

GrowsTo(b, y, d, half, i) ==
  y = IF i = 0 THEN Nothing
      ELSE IF i <= half THEN MinHeapInsert(b[i - 1], i - 1, d[i - 1])
      ELSE IF b[i - 1][0] < d[i - 1] THEN MinHeapReplace(b[i - 1], half, d[i - 1])
      ELSE b[i - 1]

LEMMA GrowsIs ==
  ASSUME NEW f, NEW d, NEW n \in Nat
  PROVE  Grows(f, d, n)
           <=> /\ f = [i \in 0..n |-> f[i]]
               /\ \A i \in 0..n : GrowsTo(f, f[i], d, (n + 1) \div 2, i)
<1>1. PICK w : w = [i \in 0..n |->
        IF i = 0 THEN Nothing
        ELSE IF i <= (n + 1) \div 2 THEN MinHeapInsert(f[i - 1], i - 1, d[i - 1])
        ELSE IF f[i - 1][0] < d[i - 1] THEN MinHeapReplace(f[i - 1], (n + 1) \div 2, d[i - 1])
        ELSE f[i - 1]]
  OBVIOUS
<1>2. Grows(f, d, n) <=> f = w
  BY <1>1, Zenon DEF Grows
<1>3. w = [i \in 0..n |-> w[i]]
  BY <1>1, Zenon
<1>4. ASSUME NEW i \in 0..n, NEW y
      PROVE  GrowsTo(f, y, d, (n + 1) \div 2, i) <=> y = w[i]
  BY <1>1, Zenon DEF GrowsTo
<1>5. ASSUME f = [i \in 0..n |-> f[i]], \A i \in 0..n : GrowsTo(f, f[i], d, (n + 1) \div 2, i)
      PROVE  f = w
  <2>1. \A i \in 0..n : f[i] = w[i]
    BY <1>4, <1>5, Zenon
  <2> QED
    BY <1>3, <1>5, <2>1
<1>6. ASSUME f = w
      PROVE  f = [i \in 0..n |-> f[i]] /\ \A i \in 0..n : GrowsTo(f, f[i], d, (n + 1) \div 2, i)
  <2>1. f = [i \in 0..n |-> f[i]]
    BY <1>3, <1>6, Zenon
  <2>2. \A i \in 0..n : f[i] = w[i]
    BY <1>6, Zenon
  <2> QED
    BY <1>4, <2>1, <2>2, Zenon
<1> QED
  BY <1>2, <1>5, <1>6, Zenon

LEMMA GrowsExist ==
  ASSUME NEW d, NEW n \in Nat
  PROVE  \E f : Grows(f, d, n)
<1> DEFINE Good(m) == \E b : /\ b = [i \in 0..n |-> b[i]]
                             /\ \A i \in 0..n : i <= m => GrowsTo(b, b[i], d, (n + 1) \div 2, i)
           Bad == {m \in 0..n : ~Good(m)}
<1>1. Bad = {}
  <2> SUFFICES ASSUME Bad # {} PROVE FALSE
    OBVIOUS
  <2>1. Bad \in SUBSET Nat
    OBVIOUS
  <2>2. PICK m \in Bad : \A k \in Bad : m <= k
    BY <2>1, Smallest
  <2>3. m \in 0..n /\ ~Good(m)
    OBVIOUS
  <2>4. PICK b : /\ b = [i \in 0..n |-> b[i]]
                 /\ \A i \in 0..n : i < m => GrowsTo(b, b[i], d, (n + 1) \div 2, i)
    <3>1. CASE m = 0
      <4>1. PICK b : b = [i \in 0..n |-> 0]
        OBVIOUS
      <4>2. b = [i \in 0..n |-> b[i]]
        BY <4>1
      <4>3. \A i \in 0..n : ~(i < m)
        BY <3>1
      <4> QED
        BY <4>2, <4>3
    <3>2. CASE m # 0
      <4>1. m - 1 \in 0..n /\ m - 1 \notin Bad
        <5> HIDE DEF Good, Bad
        <5>1. m - 1 \in 0..n /\ ~(m <= m - 1)
          BY <2>3, <3>2
        <5> QED
          BY <2>2, <5>1
      <4>2. Good(m - 1)
        BY <4>1
      <4>3. \A i \in 0..n : i < m => i <= m - 1
        BY <2>3
      <4> QED
        BY <4>2, <4>3
    <3> QED
      BY <3>1, <3>2
  <2>5. PICK y : GrowsTo(b, y, d, (n + 1) \div 2, m)
    BY Zenon DEF GrowsTo
  <2>6. PICK e : e = [b EXCEPT ![m] = y]
    OBVIOUS
  <2>7. e = [i \in 0..n |-> e[i]] /\ e[m] = y /\ \A i \in 0..n : i # m => e[i] = b[i]
    BY <2>3, <2>4, <2>6
  <2>8. ASSUME NEW i \in 0..n, i <= m PROVE GrowsTo(e, e[i], d, (n + 1) \div 2, i)
    <3>1. i = 0 \/ e[i - 1] = b[i - 1]
      <4>1. i # 0 => i - 1 \in 0..n /\ i - 1 # m
        BY <2>3, <2>8
      <4> QED
        BY <2>7, <4>1
    <3>2. GrowsTo(b, e[i], d, (n + 1) \div 2, i)
      <4>1. CASE i = m
        BY <2>5, <2>7, <4>1
      <4>2. CASE i # m
        <5>1. i < m
          BY <2>3, <2>8, <4>2
        <5> QED
          BY <2>4, <2>7, <4>2, <5>1
      <4> QED
        BY <4>1, <4>2
    <3> QED
      BY <3>1, <3>2, Zenon DEF GrowsTo
  <2>9. Good(m)
    BY <2>7, <2>8
  <2> QED
    BY <2>3, <2>9
<1>2. n \in 0..n
  OBVIOUS
<1>3. n \notin Bad
  BY <1>1, Zenon
<1>4. Good(n)
  BY <1>2, <1>3
<1>5. PICK b : /\ b = [i \in 0..n |-> b[i]]
               /\ \A i \in 0..n : i <= n => GrowsTo(b, b[i], d, (n + 1) \div 2, i)
  BY <1>4
<1>6. \A i \in 0..n : i <= n
  OBVIOUS
<1> QED
  BY <1>5, <1>6, GrowsIs

MedianIs(f, n) == f[n][0]

LEMMA MedianGrows ==
  ASSUME NEW d, NEW n \in Nat
  PROVE  \E f : Grows(f, d, n) /\ MedianOf(d, n) = f[n][0]
<1>1. MedianOf(d, n) = MedianIs(CHOOSE f : Grows(f, d, n), n)
  <2>1. MedianOf(d, n) = MedianIs(CHOOSE f : f = [i \in 0..n |->
        IF i = 0 THEN Nothing
        ELSE IF i <= (n + 1) \div 2 THEN MinHeapInsert(f[i - 1], i - 1, d[i - 1])
        ELSE IF f[i - 1][0] < d[i - 1] THEN MinHeapReplace(f[i - 1], (n + 1) \div 2, d[i - 1])
        ELSE f[i - 1]], n)
    BY Zenon DEF MedianOf, MedianIs
  <2> QED
    BY <2>1, Zenon DEF Grows
<1>2. PICK f : f = CHOOSE g : Grows(g, d, n)
  OBVIOUS
<1>3. Grows(f, d, n)
  BY <1>2, GrowsExist, Zenon
<1> QED
  BY <1>1, <1>2, <1>3, Zenon DEF MedianIs

\* After i samples the heap u of k cells has those of S; none of the others is
\* greater than its root.
HasGreatest(d, u, i, k, S) ==
  /\ u \in [0..(k - 1) -> Nat] /\ Ordered(u, k)
  /\ S \subseteq 0..(i - 1) /\ Holds(d, u, 0..(k - 1), S)
  /\ \A j \in 0..(i - 1) : j \in S \/ d[j] <= u[0]

Filled(i, half) == IF i <= half THEN i ELSE half

LEMMA NothingHolds ==
  ASSUME NEW d
  PROVE  HasGreatest(d, Nothing, 0, 0, {})
<1>1. 0..(0 - 1) = {}
  OBVIOUS
<1>2. Nothing \in [{} -> Nat] /\ Ordered(Nothing, 0)
  BY DEF Nothing, Ordered
<1>3. Holds(d, Nothing, {}, {})
  <2>1. PICK g : g = [j \in {} |-> 0]
    OBVIOUS
  <2>2. g \in [{} -> {}]
    BY <2>1
  <2>3. Places(g, d, Nothing, {}, {})
    BY <2>2 DEF Places
  <2> QED
    BY <2>3 DEF Holds
<1> QED
  BY <1>1, <1>2, <1>3 DEF HasGreatest

LEMMA InsertKeepsGreatest ==
  ASSUME NEW d, NEW i \in Nat, NEW u, NEW S, S = 0..(i - 1), HasGreatest(d, u, i, i, S), d[i] \in Nat
  PROVE  HasGreatest(d, MinHeapInsert(u, i, d[i]), i + 1, i + 1, S \cup {i})
<1>1. u \in [0..(i - 1) -> Nat] /\ Ordered(u, i) /\ Holds(d, u, 0..(i - 1), S) /\ i \notin S
  BY DEF HasGreatest
<1>2. PICK v : v = MinHeapInsert(u, i, d[i])
  OBVIOUS
<1>3. v \in [0..i -> Nat] /\ Ordered(v, i + 1) /\ Holds(d, v, 0..i, S \cup {i})
  BY <1>1, <1>2, InsertHolds
<1>4. (i + 1) - 1 = i /\ S \cup {i} = 0..i
  OBVIOUS
<1> QED
  BY <1>2, <1>3, <1>4 DEF HasGreatest

LEMMA RestKeepsGreatest ==
  ASSUME NEW d, NEW i \in Nat, NEW k \in Nat \ {0}, NEW u, NEW S, HasGreatest(d, u, i, k, S),
         \A j \in 0..i : d[j] \in Nat
  PROVE  \E R : HasGreatest(d, IF u[0] < d[i] THEN MinHeapReplace(u, k, d[i]) ELSE u, i + 1, k, R)
<1>1. /\ u \in [0..(k - 1) -> Nat] /\ Ordered(u, k) /\ Holds(d, u, 0..(k - 1), S)
      /\ S \subseteq 0..(i - 1) /\ \A j \in 0..(i - 1) : j \in S \/ d[j] <= u[0]
  BY DEF HasGreatest
<1>2. i \notin S /\ d[i] \in Nat /\ (i + 1) - 1 = i /\ u[0] \in Nat
  BY <1>1
<1>3. CASE u[0] < d[i]
  <2>1. PICK v : v = MinHeapReplace(u, k, d[i])
    OBVIOUS
  <2>2. d[i] > u[0]
    BY <1>2, <1>3
  <2>3. /\ v \in [0..(k - 1) -> Nat] /\ Ordered(v, k) /\ u[0] <= v[0]
        /\ \E r \in S : d[r] = u[0] /\ Holds(d, v, 0..(k - 1), (S \ {r}) \cup {i})
    <3>1. /\ k \in Nat \ {0} /\ u \in [0..(k - 1) -> Nat] /\ Ordered(u, k) /\ d[i] \in Nat /\ d[i] > u[0]
          /\ i \notin S /\ Holds(d, u, 0..(k - 1), S)
      BY <1>1, <1>2, <2>2
    <3> QED
      BY <2>1, <3>1, ReplaceHolds, Zenon
  <2>4. PICK r \in S : d[r] = u[0] /\ Holds(d, v, 0..(k - 1), (S \ {r}) \cup {i})
    BY <2>3
  <2>5. PICK R : R = (S \ {r}) \cup {i}
    OBVIOUS
  <2>6. R \subseteq 0..i
    BY <1>1, <2>5
  <2>7. ASSUME NEW j \in 0..i, j \notin R PROVE d[j] <= v[0]
    <3>1. j \in 0..(i - 1) /\ (j \notin S \/ j = r)
      BY <2>5, <2>7
    <3>2. d[j] <= u[0] /\ d[j] \in Nat /\ v[0] \in Nat
      BY <1>1, <1>2, <2>3, <2>4, <3>1
    <3> QED
      BY <1>2, <2>3, <3>2
  <2>8. HasGreatest(d, v, i + 1, k, R)
    BY <1>2, <2>3, <2>4, <2>5, <2>6, <2>7 DEF HasGreatest
  <2> QED
    BY <1>3, <2>1, <2>8
<1>4. CASE ~(u[0] < d[i])
  <2>1. \A j \in 0..i : j \in S \/ d[j] <= u[0]
    BY <1>1, <1>2, <1>4
  <2>2. S \subseteq 0..i
    BY <1>1
  <2>3. HasGreatest(d, u, i + 1, k, S)
    BY <1>1, <1>2, <2>1, <2>2 DEF HasGreatest
  <2> QED
    BY <1>4, <2>3
<1> QED
  BY <1>3, <1>4

LEMMA GrowsKeepsGreatest ==
  ASSUME NEW d, NEW n \in Nat, \A j \in 0..(n - 1) : d[j] \in Nat, NEW f, Grows(f, d, n)
  PROVE  \A i \in 0..n : \E S : /\ HasGreatest(d, f[i], i, Filled(i, (n + 1) \div 2), S)
                                /\ i <= (n + 1) \div 2 => S = 0..(i - 1)
<1> DEFINE Good(i) == \E S : /\ HasGreatest(d, f[i], i, Filled(i, (n + 1) \div 2), S)
                             /\ i <= (n + 1) \div 2 => S = 0..(i - 1)
           Bad == {i \in 0..n : ~Good(i)}
<1> SUFFICES ASSUME Bad # {} PROVE FALSE
  OBVIOUS
<1>1. Bad \in SUBSET Nat
  OBVIOUS
<1>2. PICK i \in Bad : \A k \in Bad : i <= k
  BY <1>1, Smallest
<1>3. i \in 0..n /\ ~Good(i)
  OBVIOUS
<1>4. PICK half \in Nat : half = (n + 1) \div 2
  OBVIOUS
<1>5. GrowsTo(f, f[i], d, half, i)
  BY <1>3, <1>4, GrowsIs
<1>6. CASE i = 0
  <2>1. f[i] = Nothing /\ Filled(i, half) = 0
    BY <1>4, <1>5, <1>6 DEF GrowsTo, Filled
  <2>2. HasGreatest(d, f[i], i, Filled(i, half), {}) /\ {} = 0..(i - 1)
    BY <1>6, <2>1, NothingHolds
  <2> QED
    BY <1>3, <1>4, <2>2
<1>7. CASE i # 0
  <2>1. PICK p \in 0..(n - 1) : p = i - 1 /\ p + 1 = i
    BY <1>3, <1>7
  <2>2. p \in 0..n /\ p \notin Bad
    <3> HIDE DEF Bad
    <3>1. p \in 0..n /\ ~(i <= p)
      BY <2>1
    <3> QED
      BY <1>2, <3>1
  <2>3. PICK S : HasGreatest(d, f[p], p, Filled(p, half), S) /\ (p <= half => S = 0..(p - 1))
    BY <1>4, <2>2
  <2>4. d[p] \in Nat /\ \A j \in 0..p : d[j] \in Nat
    <3>1. \A j \in 0..p : j \in 0..(n - 1)
      BY <2>1
    <3> QED
      BY <3>1
  <2>5. CASE i <= half
    <3>1. f[i] = MinHeapInsert(f[p], p, d[p])
      BY <1>5, <1>7, <2>1, <2>5, Zenon DEF GrowsTo
    <3>2. p <= half
      BY <2>1, <2>5
    <3>3. S = 0..(p - 1) /\ HasGreatest(d, f[p], p, p, S)
      BY <2>3, <3>2, Zenon DEF Filled
    <3>4. HasGreatest(d, f[i], p + 1, p + 1, S \cup {p})
      <4>1. PICK u : u = f[p]
        OBVIOUS
      <4>2. p \in Nat /\ d[p] \in Nat /\ S = 0..(p - 1) /\ HasGreatest(d, u, p, p, S)
        BY <2>4, <3>3, <4>1
      <4>3. HasGreatest(d, MinHeapInsert(u, p, d[p]), p + 1, p + 1, S \cup {p})
        BY <4>2, InsertKeepsGreatest
      <4> QED
        BY <3>1, <4>1, <4>3
    <3>5. Filled(i, half) = i
      BY <2>5 DEF Filled
    <3>6. HasGreatest(d, f[i], i, Filled(i, half), S \cup {p})
      BY <2>1, <3>4, <3>5
    <3>7. S \cup {p} = 0..(i - 1)
      BY <2>1, <3>3
    <3> QED
      BY <1>3, <1>4, <3>6, <3>7
  <2>6. CASE ~(i <= half)
    <3>1. f[i] = IF f[p][0] < d[p] THEN MinHeapReplace(f[p], half, d[p]) ELSE f[p]
      BY <1>5, <1>7, <2>1, <2>6, Zenon DEF GrowsTo
    <3>2. half # 0
      BY <1>3, <1>4, <1>7
    <3>3. Filled(p, half) = half /\ Filled(i, half) = half
      BY <2>1, <2>6 DEF Filled
    <3>4. PICK R : HasGreatest(d, f[i], p + 1, half, R)
      BY <2>1, <2>3, <2>4, <3>1, <3>2, <3>3, RestKeepsGreatest
    <3> QED
      BY <1>3, <1>4, <2>1, <2>6, <3>3, <3>4
  <2> QED
    BY <2>5, <2>6
<1> QED
  BY <1>6, <1>7

LEMMA IntervalCount ==
  ASSUME NEW n \in Nat
  PROVE  /\ IsFiniteSet(1..n) /\ Cardinality(1..n) = n
         /\ IsFiniteSet(0..(n - 1)) /\ Cardinality(0..(n - 1)) = n
<1>1. 1 \in Int /\ n \in Int /\ 0 \in Int /\ n - 1 \in Int
  OBVIOUS
<1>2. IsFiniteSet(1..n) /\ Cardinality(1..n) = IF 1 > n THEN 0 ELSE n - 1 + 1
  BY <1>1, FS_Interval
<1>3. IsFiniteSet(0..(n - 1)) /\ Cardinality(0..(n - 1)) = IF 0 > n - 1 THEN 0 ELSE (n - 1) - 0 + 1
  BY <1>1, FS_Interval
<1> QED
  BY <1>2, <1>3

LEMMA OddHalf ==
  ASSUME NEW n \in Nat, n % 2 = 1
  PROVE  n = 2 * ((n + 1) \div 2) - 1
OBVIOUS

\* The positions in a sequence of the cells S.
Positions(S) == {i \in Nat \ {0} : i - 1 \in S}

LEMMA PlacesCount ==
  ASSUME NEW d, NEW u, NEW k \in Nat, NEW S \in SUBSET Nat, NEW g, Places(g, d, u, 0..(k - 1), S)
  PROVE  IsFiniteSet(Positions(S)) /\ Cardinality(Positions(S)) = k
<1>T. PICK T : T = Positions(S) /\ T = {i \in Nat \ {0} : i - 1 \in S}
  BY DEF Positions
<1>P. PICK P : P = 0..(k - 1)
  OBVIOUS
<1>g. /\ g \in [P -> S]
      /\ \A i, j \in P : g[i] = g[j] => i = j
      /\ \A s \in S : \E j \in P : g[j] = s
  BY <1>P DEF Places
<1>1. PICK h : h = [j \in P |-> g[j] + 1]
  OBVIOUS
<1>2. \A j \in P : g[j] \in S /\ g[j] \in Nat /\ h[j] = g[j] + 1 /\ h[j] \in T
  <2> TAKE j \in P
  <2>1. g[j] \in S /\ g[j] \in Nat
    BY <1>g
  <2>2. g[j] + 1 \in Nat \ {0} /\ (g[j] + 1) - 1 = g[j]
    BY <2>1
  <2>3. g[j] + 1 \in T
    BY <1>T, <2>1, <2>2
  <2> QED
    BY <1>1, <2>1, <2>3
<1>3. h \in [P -> T]
  BY <1>1, <1>2
<1>4. \A i, j \in P : h[i] = h[j] => i = j
  <2> SUFFICES ASSUME NEW i \in P, NEW j \in P, h[i] = h[j] PROVE i = j
    OBVIOUS
  <2>1. g[i] = g[j]
    BY <1>2
  <2> QED
    BY <1>g, <2>1
<1>5. \A t \in T : \E j \in P : h[j] = t
  <2> TAKE t \in T
  <2>1. t \in Nat /\ t - 1 \in S
    BY <1>T
  <2>2. PICK j \in P : g[j] = t - 1
    BY <1>g, <2>1
  <2> QED
    BY <1>2, <2>1, <2>2
<1>6. h \in Bijection(P, T)
  BY <1>3, <1>4, <1>5 DEF Bijection, Injection, Surjection, IsInjective
<1>7. ExistsBijection(P, T)
  BY <1>6 DEF ExistsBijection
<1>8. IsFiniteSet(P) /\ Cardinality(P) = k
  BY <1>P, IntervalCount
<1>9. IsFiniteSet(T) /\ Cardinality(T) = k
  BY <1>7, <1>8, FS_Bijection
<1> QED
  BY <1>T, <1>9

\* Whatever the samples, if their number is odd the heap ends with the median
\* of all of them at its root (tkl_adc.c:51-87 and 307-317).
THEOREM MedianOfIsMedian ==
  ASSUME NEW d, NEW n \in Nat, n % 2 = 1, NEW s, Len(s) = n, DOMAIN s = 1..n,
         \A i \in 1..n : s[i] \in Nat /\ d[i - 1] = s[i]
  PROVE  IsMedian(MedianOf(d, n), s)
<1>1. PICK h \in Nat : h = (n + 1) \div 2 /\ n = 2 * h - 1 /\ h # 0
  <2>1. n = 2 * ((n + 1) \div 2) - 1
    BY OddHalf
  <2> QED
    BY <2>1
<1>2. \A j \in 0..(n - 1) : d[j] \in Nat
  <2> TAKE j \in 0..(n - 1)
  <2>1. j + 1 \in 1..n /\ (j + 1) - 1 = j
    OBVIOUS
  <2> QED
    BY <2>1
<1>3. PICK f : Grows(f, d, n) /\ MedianOf(d, n) = f[n][0]
  BY MedianGrows
<1>4. PICK u : u = f[n]
  OBVIOUS
<1>5. PICK S : HasGreatest(d, u, n, h, S)
  <2>1. n \in 0..n
    OBVIOUS
  <2>2. PICK S : HasGreatest(d, u, n, Filled(n, h), S)
    BY <1>1, <1>2, <1>3, <1>4, <2>1, GrowsKeepsGreatest
  <2>3. Filled(n, h) = h
    BY <1>1 DEF Filled
  <2> QED
    BY <2>2, <2>3
<1>6. /\ u \in [0..(h - 1) -> Nat] /\ Ordered(u, h)
      /\ S \subseteq 0..(n - 1) /\ Holds(d, u, 0..(h - 1), S)
      /\ \A j \in 0..(n - 1) : j \in S \/ d[j] <= u[0]
  BY <1>5 DEF HasGreatest
<1>7. PICK g : Places(g, d, u, 0..(h - 1), S)
  BY <1>6 DEF Holds
<1>8. 0 \in 0..(h - 1) /\ u[0] \in Nat
  BY <1>1, <1>6
<1>9. g[0] \in S /\ d[g[0]] = u[0]
  BY <1>7, <1>8 DEF Places
<1>10. \A j \in S : u[0] <= d[j]
  <2> TAKE j \in S
  <2>1. PICK c \in 0..(h - 1) : g[c] = j /\ u[c] = d[j]
    BY <1>7 DEF Places
  <2> QED
    BY <1>6, <2>1, RootIsLeast
<1>11. PICK T : T = Positions(S) /\ T = {i \in Nat \ {0} : i - 1 \in S}
  BY DEF Positions
<1>12. IsFiniteSet(T) /\ Cardinality(T) = h
  <2>1. S \in SUBSET Nat /\ h \in Nat /\ Places(g, d, u, 0..(h - 1), S)
    BY <1>6, <1>7
  <2>2. IsFiniteSet(Positions(S)) /\ Cardinality(Positions(S)) = h
    BY <2>1, PlacesCount
  <2> QED
    BY <1>11, <2>2
<1>13. T \subseteq 1..n
  <2> SUFFICES ASSUME NEW i \in T PROVE i \in 1..n
    OBVIOUS
  <2>1. i \in Nat \ {0} /\ i - 1 \in 0..(n - 1)
    BY <1>6, <1>11
  <2> QED
    BY <2>1
<1>14. PICK m : m = u[0]
  OBVIOUS
<1>15. \A i \in 1..n : IF i \in T THEN m <= s[i] ELSE s[i] <= m
  <2> TAKE i \in 1..n
  <2>1. i - 1 \in 0..(n - 1) /\ d[i - 1] = s[i] /\ (i \in T <=> i - 1 \in S)
    BY <1>11
  <2> QED
    BY <1>6, <1>10, <1>14, <2>1
<1>16. PICK t \in T : s[t] = m
  <2>0. g[0] \in 0..(n - 1)
    BY <1>6, <1>9
  <2>1. g[0] \in Nat /\ g[0] + 1 \in Nat \ {0} /\ (g[0] + 1) - 1 = g[0]
    BY <2>0
  <2>2. g[0] + 1 \in T
    BY <1>9, <1>11, <2>1
  <2>3. g[0] + 1 \in 1..n
    BY <1>13, <2>2
  <2>4. d[(g[0] + 1) - 1] = s[g[0] + 1]
    BY <2>3
  <2> QED
    BY <1>9, <1>14, <2>1, <2>2, <2>4
<1>17. \A i \in 1..n : s[i] \in Nat
  OBVIOUS
<1>18. 2 * Cardinality({i \in 1..n : s[i] < m}) < n
  <2>1. PICK L : L = {i \in 1..n : s[i] < m}
    OBVIOUS
  <2>2. L \in SUBSET ((1..n) \ T)
    BY <1>8, <1>14, <1>15, <1>17, <2>1
  <2>3. IsFiniteSet(1..n) /\ Cardinality(1..n) = n
    BY IntervalCount
  <2>4. (1..n) \cap T = T
    BY <1>13
  <2>5. IsFiniteSet((1..n) \ T) /\ Cardinality((1..n) \ T) = n - h
    <3>1. IsFiniteSet((1..n) \ T) /\ Cardinality((1..n) \ T) = Cardinality(1..n) - Cardinality((1..n) \cap T)
      BY <2>3, FS_Difference
    <3> QED
      BY <1>12, <2>3, <2>4, <3>1
  <2>6. IsFiniteSet(L) /\ Cardinality(L) <= n - h
    <3>1. IsFiniteSet(L) /\ Cardinality(L) <= Cardinality((1..n) \ T)
      BY <2>2, <2>5, FS_Subset
    <3> QED
      BY <2>5, <3>1
  <2>7. Cardinality(L) \in Nat
    BY <2>6, FS_CardinalityType
  <2> QED
    BY <1>1, <2>1, <2>6, <2>7
<1>19. 2 * Cardinality({i \in 1..n : s[i] > m}) < n
  <2>1. PICK G : G = {i \in 1..n : s[i] > m}
    OBVIOUS
  <2>2. G \in SUBSET (T \ {t})
    <3> SUFFICES ASSUME NEW i \in G PROVE i \in T /\ i # t
      OBVIOUS
    <3>1. i \in 1..n /\ s[i] > m /\ s[i] \in Nat /\ m \in Nat
      BY <1>8, <1>14, <1>17, <2>1
    <3>2. i \in T
      BY <1>15, <3>1
    <3> QED
      BY <1>16, <3>1, <3>2
  <2>3. IsFiniteSet(T \ {t}) /\ Cardinality(T \ {t}) = h - 1
    BY <1>12, FS_RemoveElement
  <2>4. IsFiniteSet(G) /\ Cardinality(G) <= h - 1
    BY <2>2, <2>3, FS_Subset
  <2>5. Cardinality(G) \in Nat
    BY <2>4, FS_CardinalityType
  <2> QED
    BY <1>1, <2>1, <2>4, <2>5
<1>20. MedianOf(d, n) = m
  BY <1>3, <1>4, <1>14
<1> QED
  BY <1>13, <1>16, <1>18, <1>19, <1>20 DEF IsMedian

LEMMA TimesGrows ==
  ASSUME NEW c \in Nat, NEW x \in Nat, NEW y \in Nat, x <= y
  PROVE  c * x <= c * y /\ c * x \in Nat /\ c * y \in Nat /\ (c + 1) * x = c * x + x
OBVIOUS

LEMMA MeanBetween ==
  ASSUME NEW sum \in Nat, NEW c \in Nat, c # 0, NEW lo \in Nat, NEW hi \in Nat,
         c * lo <= sum, sum <= c * hi
  PROVE  sum \div c \in Nat /\ lo <= sum \div c /\ sum \div c <= hi
<1>1. lo * c = c * lo /\ hi * c = c * hi
  OBVIOUS
<1>2. c > 0
  OBVIOUS
<1>3. sum \div c \in Nat
  BY <1>2
<1>4. lo <= sum \div c
  BY <1>1, <1>2
<1>5. sum \div c <= hi
  <2>1. c * (sum \div c) <= sum
    BY <1>2
  <2>2. PICK q \in Nat : q = sum \div c
    BY <1>3
  <2>3. SUFFICES ASSUME hi + 1 <= q PROVE FALSE
    BY <2>2
  <2>4. c * (hi + 1) <= c * q /\ c * (hi + 1) = c * hi + c /\ c * hi \in Nat /\ c * q \in Nat
    BY <2>3
  <2> QED
    BY <1>2, <2>1, <2>2, <2>4
<1> QED
  BY <1>3, <1>4, <1>5

LEMMA ConvertGrows ==
  ASSUME NEW x \in Nat, NEW y \in Nat, x <= y
  PROVE  Convert(x) <= Convert(y)
BY DEF Convert

\* What total, the loop of NearTotal, computes.
AddsUp(f, d, n, m) ==
  f = [i \in 0..n |->
        IF i = 0 THEN [sum |-> 0, count |-> 0]
        ELSE IF Near(d[i - 1], m)
        THEN [sum |-> f[i - 1].sum + d[i - 1], count |-> f[i - 1].count + 1]
        ELSE f[i - 1]]

AddsTo(b, y, d, m, i) ==
  y = IF i = 0 THEN [sum |-> 0, count |-> 0]
      ELSE IF Near(d[i - 1], m)
      THEN [sum |-> b[i - 1].sum + d[i - 1], count |-> b[i - 1].count + 1]
      ELSE b[i - 1]

LEMMA AddsUpIs ==
  ASSUME NEW f, NEW d, NEW m, NEW n \in Nat
  PROVE  AddsUp(f, d, n, m)
           <=> /\ f = [i \in 0..n |-> f[i]]
               /\ \A i \in 0..n : AddsTo(f, f[i], d, m, i)
<1>1. PICK w : w = [i \in 0..n |->
        IF i = 0 THEN [sum |-> 0, count |-> 0]
        ELSE IF Near(d[i - 1], m)
        THEN [sum |-> f[i - 1].sum + d[i - 1], count |-> f[i - 1].count + 1]
        ELSE f[i - 1]]
  OBVIOUS
<1>2. AddsUp(f, d, n, m) <=> f = w
  BY <1>1, Zenon DEF AddsUp
<1>3. w = [i \in 0..n |-> w[i]]
  BY <1>1, Zenon
<1>4. ASSUME NEW i \in 0..n, NEW y
      PROVE  AddsTo(f, y, d, m, i) <=> y = w[i]
  BY <1>1, Zenon DEF AddsTo
<1>5. ASSUME f = [i \in 0..n |-> f[i]], \A i \in 0..n : AddsTo(f, f[i], d, m, i)
      PROVE  f = w
  <2>1. \A i \in 0..n : f[i] = w[i]
    BY <1>4, <1>5, Zenon
  <2> QED
    BY <1>3, <1>5, <2>1
<1>6. ASSUME f = w
      PROVE  f = [i \in 0..n |-> f[i]] /\ \A i \in 0..n : AddsTo(f, f[i], d, m, i)
  <2>1. f = [i \in 0..n |-> f[i]]
    BY <1>3, <1>6, Zenon
  <2>2. \A i \in 0..n : f[i] = w[i]
    BY <1>6, Zenon
  <2> QED
    BY <1>4, <2>1, <2>2, Zenon
<1> QED
  BY <1>2, <1>5, <1>6, Zenon

LEMMA AddsUpExist ==
  ASSUME NEW d, NEW m, NEW n \in Nat
  PROVE  \E f : AddsUp(f, d, n, m)
<1> DEFINE Good(k) == \E b : /\ b = [i \in 0..n |-> b[i]]
                             /\ \A i \in 0..n : i <= k => AddsTo(b, b[i], d, m, i)
           Bad == {k \in 0..n : ~Good(k)}
<1>1. Bad = {}
  <2> SUFFICES ASSUME Bad # {} PROVE FALSE
    OBVIOUS
  <2>1. Bad \in SUBSET Nat
    OBVIOUS
  <2>2. PICK k \in Bad : \A j \in Bad : k <= j
    BY <2>1, Smallest
  <2>3. k \in 0..n /\ ~Good(k)
    OBVIOUS
  <2>4. PICK b : /\ b = [i \in 0..n |-> b[i]]
                 /\ \A i \in 0..n : i < k => AddsTo(b, b[i], d, m, i)
    <3>1. CASE k = 0
      <4>1. PICK b : b = [i \in 0..n |-> 0]
        OBVIOUS
      <4>2. b = [i \in 0..n |-> b[i]]
        BY <4>1
      <4>3. \A i \in 0..n : ~(i < k)
        BY <3>1
      <4> QED
        BY <4>2, <4>3
    <3>2. CASE k # 0
      <4>1. k - 1 \in 0..n /\ k - 1 \notin Bad
        <5> HIDE DEF Good, Bad
        <5>1. k - 1 \in 0..n /\ ~(k <= k - 1)
          BY <2>3, <3>2
        <5> QED
          BY <2>2, <5>1
      <4>2. Good(k - 1)
        BY <4>1
      <4>3. \A i \in 0..n : i < k => i <= k - 1
        BY <2>3
      <4> QED
        BY <4>2, <4>3
    <3> QED
      BY <3>1, <3>2
  <2>5. PICK y : AddsTo(b, y, d, m, k)
    BY Zenon DEF AddsTo
  <2>6. PICK e : e = [b EXCEPT ![k] = y]
    OBVIOUS
  <2>7. e = [i \in 0..n |-> e[i]] /\ e[k] = y /\ \A i \in 0..n : i # k => e[i] = b[i]
    BY <2>3, <2>4, <2>6
  <2>8. ASSUME NEW i \in 0..n, i <= k PROVE AddsTo(e, e[i], d, m, i)
    <3>1. i = 0 \/ e[i - 1] = b[i - 1]
      <4>1. i # 0 => i - 1 \in 0..n /\ i - 1 # k
        BY <2>3, <2>8
      <4> QED
        BY <2>7, <4>1
    <3>2. AddsTo(b, e[i], d, m, i)
      <4>1. CASE i = k
        BY <2>5, <2>7, <4>1
      <4>2. CASE i # k
        <5>1. i < k
          BY <2>3, <2>8, <4>2
        <5> QED
          BY <2>4, <2>7, <4>2, <5>1
      <4> QED
        BY <4>1, <4>2
    <3> QED
      BY <3>1, <3>2, Zenon DEF AddsTo
  <2>9. Good(k)
    BY <2>7, <2>8
  <2> QED
    BY <2>3, <2>9
<1>2. n \in 0..n
  OBVIOUS
<1>3. n \notin Bad
  BY <1>1, Zenon
<1>4. Good(n)
  BY <1>2, <1>3
<1>5. PICK b : /\ b = [i \in 0..n |-> b[i]]
               /\ \A i \in 0..n : i <= n => AddsTo(b, b[i], d, m, i)
  BY <1>4
<1>6. \A i \in 0..n : i <= n
  OBVIOUS
<1> QED
  BY <1>5, <1>6, AddsUpIs

LEMMA NearAddsUp ==
  ASSUME NEW d, NEW m, NEW n \in Nat
  PROVE  \E f : AddsUp(f, d, n, m) /\ NearTotal(d, n, m) = f[n]
<1>1. NearTotal(d, n, m) = InsertIs(CHOOSE f : AddsUp(f, d, n, m), n)
  <2>1. NearTotal(d, n, m) = InsertIs(CHOOSE f : f = [i \in 0..n |->
        IF i = 0 THEN [sum |-> 0, count |-> 0]
        ELSE IF Near(d[i - 1], m)
        THEN [sum |-> f[i - 1].sum + d[i - 1], count |-> f[i - 1].count + 1]
        ELSE f[i - 1]], n)
    BY Zenon DEF NearTotal, InsertIs
  <2> QED
    BY <2>1, Zenon DEF AddsUp
<1>2. PICK f : f = CHOOSE g : AddsUp(g, d, n, m)
  OBVIOUS
<1>3. AddsUp(f, d, n, m)
  BY <1>2, AddsUpExist, Zenon
<1> QED
  BY <1>1, <1>2, <1>3, Zenon DEF InsertIs

\* The samples added up are between lo and hi, both near m.
Within(y, m, lo, hi) ==
  /\ m - 5 <= lo /\ hi <= m + 5
  /\ y.count * lo <= y.sum /\ y.sum <= y.count * hi

\* What y has added up of the first i samples.
NearSum(y, d, m, i, V) ==
  /\ y.sum \in Nat /\ y.count \in Nat
  /\ y.count # 0 => \E lo, hi \in V : Within(y, m, lo, hi)
  /\ y.count = 0 => y.sum = 0 /\ \A j \in 0..(i - 1) : ~Near(d[j], m)

LEMMA AddKeepsNearSum ==
  ASSUME NEW V \in SUBSET Nat, NEW m \in Nat, NEW i \in Nat, NEW d, NEW y,
         NearSum(y, d, m, i, V), NEW a \in V, a = d[i], Near(a, m)
  PROVE  NearSum([sum |-> y.sum + a, count |-> y.count + 1], d, m, i + 1, V)
<1>1. PICK s \in Nat, c \in Nat : s = y.sum /\ c = y.count
  BY DEF NearSum
<1>2. PICK z : z = [sum |-> s + a, count |-> c + 1]
  OBVIOUS
<1>3. z.sum = s + a /\ z.count = c + 1 /\ a \in Nat
  BY <1>2
<1>4. m - 5 <= a /\ a <= m + 5
  BY <1>3 DEF Near
<1>5. \E lo, hi \in V : Within(z, m, lo, hi)
  <2>1. CASE c = 0
    <3>1. s = 0
      BY <1>1, <2>1 DEF NearSum
    <3>2. Within(z, m, a, a)
      BY <1>3, <1>4, <2>1, <3>1 DEF Within
    <3> QED
      BY <3>2
  <2>2. CASE c # 0
    <3>1. PICK lo \in V, hi \in V : Within(y, m, lo, hi)
      BY <1>1, <2>2 DEF NearSum
    <3>2. m - 5 <= lo /\ hi <= m + 5 /\ c * lo <= s /\ s <= c * hi /\ lo \in Nat /\ hi \in Nat
      BY <1>1, <3>1 DEF Within
    <3>3. PICK l \in V : l <= lo /\ l <= a /\ l \in Nat /\ m - 5 <= l
      <4>1. CASE lo <= a
        BY <3>2, <4>1
      <4>2. CASE ~(lo <= a)
        <5>1. a <= lo /\ a <= a
          BY <1>3, <3>2, <4>2
        <5> QED
          BY <1>3, <1>4, <5>1
      <4> QED
        BY <4>1, <4>2
    <3>4. PICK h \in V : hi <= h /\ a <= h /\ h \in Nat /\ h <= m + 5
      <4>1. CASE a <= hi
        BY <3>2, <4>1
      <4>2. CASE ~(a <= hi)
        <5>1. hi <= a /\ a <= a
          BY <1>3, <3>2, <4>2
        <5> QED
          BY <1>3, <1>4, <5>1
      <4> QED
        BY <4>1, <4>2
    <3>5. (c + 1) * l <= s + a
      <4>1. c * l <= c * lo /\ c * l \in Nat /\ c * lo \in Nat /\ (c + 1) * l = c * l + l
        BY <3>2, <3>3, TimesGrows
      <4> QED
        BY <1>3, <3>2, <3>3, <4>1
    <3>6. s + a <= (c + 1) * h
      <4>1. c * hi <= c * h /\ c * h \in Nat /\ c * hi \in Nat
        BY <3>2, <3>4, TimesGrows
      <4>2. (c + 1) * h = c * h + h
        BY <3>4, TimesGrows
      <4> QED
        BY <1>3, <3>2, <3>4, <4>1, <4>2
    <3>7. Within(z, m, l, h)
      BY <1>3, <3>3, <3>4, <3>5, <3>6 DEF Within
    <3> QED
      BY <3>7
  <2> QED
    BY <2>1, <2>2
<1>6. NearSum(z, d, m, i + 1, V)
  <2>1. z.sum \in Nat /\ z.count \in Nat /\ z.count # 0
    BY <1>3
  <2> QED
    BY <1>5, <2>1 DEF NearSum
<1> QED
  BY <1>1, <1>2, <1>6

LEMMA SkipKeepsNearSum ==
  ASSUME NEW V \in SUBSET Nat, NEW m \in Nat, NEW i \in Nat, NEW d, NEW y,
         NearSum(y, d, m, i, V), ~Near(d[i], m)
  PROVE  NearSum(y, d, m, i + 1, V)
<1>1. \A j \in 0..((i + 1) - 1) : j \in 0..(i - 1) \/ j = i
  OBVIOUS
<1>2. ASSUME y.count = 0 PROVE y.sum = 0 /\ \A j \in 0..((i + 1) - 1) : ~Near(d[j], m)
  <2>1. y.sum = 0 /\ \A j \in 0..(i - 1) : ~Near(d[j], m)
    BY <1>2 DEF NearSum
  <2> QED
    BY <1>1, <2>1
<1> QED
  BY <1>2 DEF NearSum

LEMMA AddsUpKeepsNearSum ==
  ASSUME NEW V \in SUBSET Nat, NEW m \in Nat, NEW n \in Nat, NEW d,
         \A j \in 0..(n - 1) : d[j] \in V, NEW f, AddsUp(f, d, n, m)
  PROVE  \A i \in 0..n : NearSum(f[i], d, m, i, V)
<1> DEFINE Bad == {i \in 0..n : ~NearSum(f[i], d, m, i, V)}
<1> SUFFICES ASSUME Bad # {} PROVE FALSE
  OBVIOUS
<1>1. Bad \in SUBSET Nat
  OBVIOUS
<1>2. PICK i \in Bad : \A k \in Bad : i <= k
  BY <1>1, Smallest
<1>3. i \in 0..n /\ ~NearSum(f[i], d, m, i, V)
  OBVIOUS
<1>4. AddsTo(f, f[i], d, m, i)
  BY <1>3, AddsUpIs
<1>5. CASE i = 0
  <2>1. PICK y : y = f[i]
    OBVIOUS
  <2>2. y = [sum |-> 0, count |-> 0]
    BY <1>4, <1>5, <2>1, Zenon DEF AddsTo
  <2>3. y.sum = 0 /\ y.count = 0 /\ 0..(0 - 1) = {}
    BY <2>2
  <2>4. NearSum(y, d, m, 0, V)
    BY <2>3 DEF NearSum
  <2> QED
    BY <1>3, <1>5, <2>1, <2>4
<1>6. CASE i # 0
  <2>1. PICK p \in 0..(n - 1) : p = i - 1 /\ p + 1 = i
    BY <1>3, <1>6
  <2>2. p \in 0..n /\ p \notin Bad
    <3> HIDE DEF Bad
    <3>1. p \in 0..n /\ ~(i <= p)
      BY <2>1
    <3> QED
      BY <1>2, <3>1
  <2>3. PICK y : y = f[p] /\ NearSum(y, d, m, p, V)
    BY <2>2
  <2>4. f[i] = IF Near(d[p], m) THEN [sum |-> y.sum + d[p], count |-> y.count + 1] ELSE y
    BY <1>4, <1>6, <2>1, <2>3, Zenon DEF AddsTo
  <2>5. p \in Nat /\ d[p] \in V
    OBVIOUS
  <2>6. CASE Near(d[p], m)
    <3>1. NearSum([sum |-> y.sum + d[p], count |-> y.count + 1], d, m, p + 1, V)
      BY <2>3, <2>5, <2>6, AddKeepsNearSum
    <3> QED
      BY <1>3, <2>1, <2>4, <2>6, <3>1
  <2>7. CASE ~Near(d[p], m)
    <3>1. NearSum(y, d, m, p + 1, V)
      BY <2>3, <2>5, <2>7, SkipKeepsNearSum
    <3> QED
      BY <1>3, <2>1, <2>4, <2>7, <3>1
  <2> QED
    BY <2>6, <2>7
<1> QED
  BY <1>5, <1>6

\* The average is taken of one sample at least, and between two that are near.
LEMMA MeanIsNear ==
  ASSUME NEW V \in SUBSET Nat, NEW m \in Nat, NEW n \in Nat, NEW d,
         \A j \in 0..(n - 1) : d[j] \in V, NEW k \in 0..(n - 1), d[k] = m
  PROVE  /\ NearTotal(d, n, m).count # 0
         /\ \E lo, hi \in V :
              /\ m - 5 <= lo /\ hi <= m + 5
              /\ NearTotal(d, n, m).sum \div NearTotal(d, n, m).count \in Nat
              /\ lo <= NearTotal(d, n, m).sum \div NearTotal(d, n, m).count
              /\ NearTotal(d, n, m).sum \div NearTotal(d, n, m).count <= hi
<1>1. PICK f : AddsUp(f, d, n, m) /\ NearTotal(d, n, m) = f[n]
  BY NearAddsUp
<1>2. PICK y : y = f[n]
  OBVIOUS
<1>3. NearSum(y, d, m, n, V)
  <2>1. n \in 0..n
    OBVIOUS
  <2> QED
    BY <1>1, <1>2, <2>1, AddsUpKeepsNearSum
<1>4. Near(d[k], m)
  BY DEF Near
<1>5. PICK s \in Nat, c \in Nat : s = y.sum /\ c = y.count /\ c # 0
  BY <1>3, <1>4 DEF NearSum
<1>6. PICK lo \in V, hi \in V : Within(y, m, lo, hi)
  BY <1>3, <1>5 DEF NearSum
<1>7. m - 5 <= lo /\ hi <= m + 5 /\ c * lo <= s /\ s <= c * hi /\ lo \in Nat /\ hi \in Nat
  BY <1>5, <1>6 DEF Within
<1>8. s \div c \in Nat /\ lo <= s \div c /\ s \div c <= hi
  BY <1>5, <1>7, MeanBetween
<1> QED
  BY <1>1, <1>2, <1>5, <1>7, <1>8

\* x lies between two of the values near the median of the samples.
BetweenNear(x) ==
  /\ x \in Nat
  /\ \E m, lo, hi \in Values : /\ IsMedian(m, raw) /\ m - 5 <= lo /\ hi <= m + 5
                              /\ lo <= x /\ x <= hi

\* No call is lost but in the loop whose index is too small.
LostInLongLoop ==
  ~overlap => \A t \in Threads : pc[t] = "lost" => Size > CharMax

\* Where a single sample is computed.
SingleUnderWay ==
  ~overlap =>
    /\ \A t \in Threads : pc[t] \in {"median", "average"} => Len(raw) = AdcSize /\ Buffered
    /\ \A t \in Threads : pc[t] = "average" => IsMedian(top[t], raw)
    /\ \A t \in Threads : pc[t] = "copy" /\ Size = 1 => BetweenNear(read_adc_buf[0])

SingleIInv == DOMAIN top = Threads /\ SingleUnderWay /\ LostInLongLoop /\ SingleIsNearMedian

LEMMA SingleInitHolds == PortInit => SingleIInv
  BY DEF PortInit, SingleIInv, SingleUnderWay, LostInLongLoop, SingleIsNearMedian

LEMMA SingleFrame ==
  ASSUME SingleIInv, DOMAIN top' = Threads,
         ~overlap' => \A u \in Threads : pc'[u] \notin {"median", "average", "copy", "lost"},
         ~overlap' => \/ got' = <<>>
                      \/ ~overlap /\ Size' = Size /\ UNCHANGED <<got, raw>>
  PROVE  SingleIInv'
<1>1. SingleUnderWay' /\ LostInLongLoop'
  BY DEF SingleUnderWay, LostInLongLoop
<1>2. SingleIsNearMedian'
  BY DEF SingleIInv, SingleIsNearMedian
<1> QED
  BY <1>1, <1>2 DEF SingleIInv

LEMMA SingleOthers ==
  ASSUME AdcIInv, SingleIInv,
         \/ \E c \in Configs \cup {Refused} : AdcInit(c)
         \/ \E t \in Threads : \E chs : Call(t, chs)
         \/ \E t \in Threads : Begin(t) \/ Clear(t) \/ Open(t) \/ Failed(t)
         \/ \E v \in Measurable : Isr(v)
  PROVE  SingleIInv'
<1>1. ASSUME NEW c \in Configs \cup {Refused}, AdcInit(c) PROVE SingleIInv'
  <2>1. /\ \A u \in Threads : pc'[u] \notin {"median", "average", "copy", "lost"}
        /\ got' = <<>> /\ DOMAIN top' = Threads
    BY <1>1 DEF AdcInit, SingleIInv
  <2> QED
    BY <2>1, SingleFrame
<1>2. ASSUME NEW t \in Threads, NEW chs, Call(t, chs) PROVE SingleIInv'
  <2>1. /\ pc[t] = "idle" /\ pc' = [pc EXCEPT ![t] = "begin"]
        /\ overlap' = (overlap \/ \E u \in Threads : pc[u] # "idle")
        /\ raw' = IF overlap' THEN <<>> ELSE raw
        /\ UNCHANGED <<config, top, got>>
    BY <1>2 DEF Call
  <2>2. ~overlap' => ~overlap /\ \A u \in Threads : pc'[u] \in {"idle", "begin"}
    BY <2>1 DEF AdcIInv, AdcTypes
  <2>3. ~overlap' => ~overlap /\ Size' = Size /\ UNCHANGED <<got, raw>>
    BY <2>1, <2>2 DEF Size
  <2>4. DOMAIN top' = Threads
    BY <2>1 DEF SingleIInv
  <2>5. ~overlap' => \A u \in Threads : pc'[u] \notin {"median", "average", "copy", "lost"}
    BY <2>2
  <2> QED
    BY <2>3, <2>4, <2>5, SingleFrame
<1>3. ASSUME NEW t \in Threads, NEW p \in {"clear", "open", "failed", "wait", "idle", "begin"},
             pc[t] # "idle", Moves(t, p), UNCHANGED <<config, top>>,
             got' = <<>> \/ UNCHANGED <<got, raw>>
      PROVE  SingleIInv'
  <2>1. p \in AdcPoints
    BY DEF AdcPoints
  <2>2. /\ pc'[t] = p
        /\ ~overlap' => ~overlap /\ \A u \in Threads : u # t => pc[u] = "idle" /\ pc'[u] = "idle"
    BY <1>3, <2>1, AloneMoves
  <2>3. ~overlap' => \A u \in Threads : pc'[u] \notin {"median", "average", "copy", "lost"}
    BY <2>2
  <2>4. DOMAIN top' = Threads /\ Size' = Size
    BY <1>3 DEF SingleIInv, Size
  <2> QED
    BY <1>3, <2>2, <2>3, <2>4, SingleFrame
<1>4. ASSUME NEW t \in Threads, Begin(t) PROVE SingleIInv'
  <2>1. pc[t] # "idle" /\ Moves(t, "clear") /\ UNCHANGED <<config, top, got, raw>>
    BY <1>4 DEF Begin, Goto, Moves
  <2> QED
    BY <1>3, <2>1
<1>5. ASSUME NEW t \in Threads, Clear(t) PROVE SingleIInv'
  <2>1. pc[t] # "idle" /\ Moves(t, "open") /\ UNCHANGED <<config, top, got, raw>>
    BY <1>5 DEF Clear, Goto, Moves
  <2> QED
    BY <1>3, <2>1
<1>6. ASSUME NEW t \in Threads, Open(t) PROVE SingleIInv'
  <2>1. PICK p \in {"wait", "failed"} : pc[t] # "idle" /\ Moves(t, p)
    BY <1>6 DEF Open, Goto, Moves
  <2>2. UNCHANGED <<config, top>> /\ (got' = <<>> \/ UNCHANGED <<got, raw>>)
    BY <1>6 DEF Open
  <2> QED
    BY <1>3, <2>1, <2>2
<1>7. ASSUME NEW t \in Threads, Failed(t) PROVE SingleIInv'
  <2>1. PICK p \in {"idle", "begin"} : pc' = [pc EXCEPT ![t] = p]
    BY <1>7, LeaveMoves DEF Failed
  <2>2. pc[t] # "idle" /\ Moves(t, p) /\ UNCHANGED <<config, top, got, raw>>
    BY <1>7, <2>1 DEF Failed, Moves
  <2> QED
    BY <1>3, <2>1, <2>2
<1>8. ASSUME NEW v \in Measurable, Isr(v) PROVE SingleIInv'
  <2>1. sampling # 0 /\ UNCHANGED <<config, pc, top, got, overlap>>
    BY <1>8 DEF Isr
  <2>2. PICK t \in Threads : pc[t] = "wait"
    BY <2>1 DEF AdcIInv, Device
  <2>3. ~overlap => got = <<>> /\ \A u \in Threads : u # t => pc[u] = "idle"
    BY <2>2 DEF AdcIInv, Samples, Alone
  <2>4. ~overlap' => got' = <<>> /\ \A u \in Threads : pc'[u] \notin {"median", "average", "copy", "lost"}
    BY <2>1, <2>2, <2>3
  <2>5. DOMAIN top' = Threads
    BY <2>1 DEF SingleIInv
  <2> QED
    BY <2>4, <2>5, SingleFrame
<1> QED
  BY <1>1, <1>2, <1>4, <1>5, <1>6, <1>7, <1>8

LEMMA SinglePoll ==
  ASSUME AdcIInv, SingleIInv, NEW t \in Threads, Poll(t)
  PROVE  SingleIInv'
<1> DEFINE p == IF saved[t] = 1 THEN "median" ELSE "copy"
<1>1. pc[t] = "wait" /\ Moves(t, p) /\ p \in AdcPoints
  BY DEF Poll, Goto, Moves, AdcPoints
<1>2. UNCHANGED <<config, desc, read_adc_buf, saved, got, raw, overlap, top>> /\ AdcCnt = AdcSize
  BY DEF Poll, AdcCnt, AdcSize
<1>3. Size' = Size /\ AdcSize' = AdcSize
  BY <1>2 DEF AdcSize, Size
<1>4. /\ pc'[t] = p
      /\ ~overlap' => ~overlap /\ \A u \in Threads : u # t => pc[u] = "idle" /\ pc'[u] = "idle"
  BY <1>1, AloneMoves
<1>5. ~overlap => AdcCnt = Len(raw) /\ Buffered /\ saved[t] = Size
  BY <1>1 DEF AdcIInv, Samples, Sizes
<1>6. Buffered' <=> Buffered
  BY <1>2 DEF Buffered
<1>7. SingleUnderWay'
  BY <1>2, <1>3, <1>4, <1>5, <1>6 DEF SingleUnderWay
<1>8. LostInLongLoop'
  BY <1>4 DEF LostInLongLoop
<1>9. SingleIsNearMedian'
  BY <1>2, <1>3 DEF SingleIInv, SingleIsNearMedian
<1> QED
  BY <1>2, <1>7, <1>8, <1>9 DEF SingleIInv

\* What the buffer has of the samples.
LEMMA BufferedSamples ==
  ASSUME AdcIInv, Len(raw) = AdcSize, Buffered
  PROVE  /\ AdcSize \in Nat /\ DOMAIN raw = 1..AdcSize
         /\ \A i \in 1..AdcSize : raw[i] \in Values /\ raw[i] \in Nat /\ read_adc_buf[i - 1] = raw[i]
         /\ \A j \in 0..(AdcSize - 1) : read_adc_buf[j] \in Values
<1>1. raw \in Seq(Values) /\ AdcSize \in Nat
  BY DEF AdcIInv, AdcTypes
<1>2. DOMAIN raw = 1..AdcSize /\ \A i \in 1..AdcSize : raw[i] \in Values
  BY <1>1
<1>3. \A i \in 1..AdcSize : read_adc_buf[i - 1] = raw[i]
  BY DEF Buffered
<1>4. Values \subseteq Nat
  BY TklAdcAssumption
<1>5. ASSUME NEW j \in 0..(AdcSize - 1) PROVE read_adc_buf[j] \in Values
  <2>1. j + 1 \in 1..AdcSize /\ (j + 1) - 1 = j
    BY <1>1
  <2>2. read_adc_buf[(j + 1) - 1] = raw[j + 1] /\ raw[j + 1] \in Values
    BY <1>2, <1>3, <2>1
  <2> QED
    BY <2>1, <2>2
<1> QED
  BY <1>1, <1>2, <1>3, <1>4, <1>5

LEMMA SingleMedian ==
  ASSUME AdcIInv, SingleIInv, NEW t \in Threads, Median(t)
  PROVE  SingleIInv'
<1>1. pc[t] = "median" /\ Moves(t, "average") /\ "average" \in AdcPoints
  BY DEF Median, Goto, Moves, AdcPoints
<1>2. /\ UNCHANGED <<config, desc, read_adc_buf, saved, got, raw, overlap>>
      /\ top' = [top EXCEPT ![t] = MedianOf(read_adc_buf, AdcSize)]
  BY DEF Median, AdcSize
<1>3. Size' = Size /\ AdcSize' = AdcSize
  BY <1>2 DEF AdcSize, Size
<1>4. /\ pc'[t] = "average"
      /\ ~overlap' => ~overlap /\ \A u \in Threads : u # t => pc[u] = "idle" /\ pc'[u] = "idle"
  BY <1>1, AloneMoves
<1>5. ~overlap => Len(raw) = AdcSize /\ Buffered /\ AdcSize = MedianSize
  BY <1>1 DEF AdcIInv, Sizes, SingleIInv, SingleUnderWay
<1>6. DOMAIN top' = Threads /\ top'[t] = MedianOf(read_adc_buf, AdcSize)
  BY <1>2 DEF SingleIInv
<1>7. ASSUME ~overlap PROVE IsMedian(top'[t], raw)
  <2>1. PICK n : n = AdcSize
    OBVIOUS
  <2>2. /\ n \in Nat /\ Len(raw) = n /\ DOMAIN raw = 1..n
        /\ \A i \in 1..n : raw[i] \in Nat /\ read_adc_buf[i - 1] = raw[i]
    BY <1>5, <1>7, <2>1, BufferedSamples
  <2>3. n % 2 = 1
    BY <1>5, <1>7, <2>1, TklAdcAssumption
  <2>4. IsMedian(MedianOf(read_adc_buf, n), raw)
    BY <2>2, <2>3, MedianOfIsMedian
  <2> QED
    BY <1>6, <2>1, <2>4
<1>8. Buffered' <=> Buffered
  BY <1>2 DEF Buffered
<1>9. SingleUnderWay'
  BY <1>2, <1>3, <1>4, <1>5, <1>7, <1>8 DEF SingleUnderWay
<1>10. LostInLongLoop'
  BY <1>4 DEF LostInLongLoop
<1>11. SingleIsNearMedian'
  BY <1>2, <1>3 DEF SingleIInv, SingleIsNearMedian
<1> QED
  BY <1>6, <1>9, <1>10, <1>11 DEF SingleIInv

LEMMA SingleAverage ==
  ASSUME AdcIInv, SingleIInv, NEW t \in Threads, Average(t)
  PROVE  SingleIInv'
<1>1. PICK s, c : s = NearTotal(read_adc_buf, AdcSize, top[t]).sum
               /\ c = NearTotal(read_adc_buf, AdcSize, top[t]).count
  OBVIOUS
<1>2. /\ pc[t] = "average" /\ Moves(t, IF c = 0 THEN "lost" ELSE "copy")
      /\ top' = [top EXCEPT ![t] = 0]
      /\ read_adc_buf' = IF c = 0 THEN read_adc_buf ELSE [read_adc_buf EXCEPT ![0] = s \div c]
      /\ UNCHANGED <<config, got, raw, overlap>>
  BY <1>1, Zenon DEF Average, Goto, Moves, AdcSize
<1>3. (IF c = 0 THEN "lost" ELSE "copy") \in AdcPoints
  BY DEF AdcPoints
<1>4. /\ pc'[t] = IF c = 0 THEN "lost" ELSE "copy"
      /\ ~overlap' => ~overlap /\ \A u \in Threads : u # t => pc[u] = "idle" /\ pc'[u] = "idle"
  BY <1>2, <1>3, AloneMoves
<1>5. Size' = Size /\ DOMAIN top' = Threads
  BY <1>2 DEF Size, SingleIInv
<1>6. ASSUME ~overlap PROVE c # 0 /\ BetweenNear(read_adc_buf[0])'
  <2>1. Len(raw) = AdcSize /\ Buffered /\ IsMedian(top[t], raw)
    BY <1>2, <1>6 DEF SingleIInv, SingleUnderWay
  <2>2. PICK n \in Nat : n = AdcSize
    BY <2>1, BufferedSamples
  <2>3. /\ DOMAIN raw = 1..n
        /\ \A i \in 1..n : raw[i] \in Values /\ raw[i] \in Nat /\ read_adc_buf[i - 1] = raw[i]
        /\ \A j \in 0..(n - 1) : read_adc_buf[j] \in Values
    BY <2>1, <2>2, BufferedSamples
  <2>4. PICK i \in 1..n : raw[i] = top[t]
    BY <2>1, <2>3 DEF IsMedian
  <2>5. PICK m \in Values : m = top[t] /\ m \in Nat
    BY <2>3, <2>4
  <2>6. PICK k \in 0..(n - 1) : read_adc_buf[k] = m
    <3>1. i - 1 \in 0..(n - 1) /\ read_adc_buf[i - 1] = m
      BY <2>3, <2>4, <2>5
    <3> QED
      BY <3>1
  <2>7. s = NearTotal(read_adc_buf, n, m).sum /\ c = NearTotal(read_adc_buf, n, m).count
    BY <1>1, <2>2, <2>5
  <2>8. Values \in SUBSET Nat
    BY TklAdcAssumption
  <2>9. /\ c # 0
        /\ \E lo, hi \in Values : /\ m - 5 <= lo /\ hi <= m + 5
                                  /\ s \div c \in Nat /\ lo <= s \div c /\ s \div c <= hi
    BY <2>3, <2>5, <2>6, <2>7, <2>8, MeanIsNear
  <2>10. read_adc_buf'[0] = s \div c
    <3>1. 0 \in DOMAIN read_adc_buf
      <4>1. MedianSize \in Nat /\ SizeMod \in Nat /\ MedianSize # 0 /\ MedianSize < SizeMod
        BY TklAdcAssumption
      <4>2. 0 \in 0..(SizeMod - 2)
        BY <4>1
      <4> QED
        BY <4>2 DEF AdcIInv, AdcTypes, Cells
    <3> QED
      BY <1>2, <2>9, <3>1
  <2>11. raw' = raw
    BY <1>2
  <2> QED
    BY <2>1, <2>5, <2>9, <2>10, <2>11 DEF BetweenNear
<1>7. SingleUnderWay'
  BY <1>2, <1>4, <1>5, <1>6 DEF SingleUnderWay
<1>8. LostInLongLoop'
  BY <1>4, <1>6 DEF LostInLongLoop
<1>9. SingleIsNearMedian'
  BY <1>2, <1>5 DEF SingleIInv, SingleIsNearMedian
<1> QED
  BY <1>5, <1>7, <1>8, <1>9 DEF SingleIInv

LEMMA SingleCopy ==
  ASSUME AdcIInv, SingleIInv, NEW t \in Threads, Copy(t)
  PROVE  SingleIInv'
<1>1. PICK p \in {"idle", "begin"} : pc' = [pc EXCEPT ![t] = p]
  BY LeaveMoves DEF Copy
<1>2. pc[t] = "copy" /\ Moves(t, p) /\ p \in AdcPoints
  BY <1>1 DEF Copy, Moves, AdcPoints
<1>3. /\ got' = [i \in 1..AdcSize |-> Convert(read_adc_buf[i - 1])]
      /\ UNCHANGED <<config, raw, overlap, top>>
  BY DEF Copy, AdcSize
<1>4. /\ pc'[t] = p
      /\ ~overlap' => ~overlap /\ \A u \in Threads : u # t => pc[u] = "idle" /\ pc'[u] = "idle"
  BY <1>2, AloneMoves
<1>5. \A u \in Threads : ~overlap' => pc'[u] \in {"idle", "begin"}
  BY <1>4
<1>6. SingleUnderWay' /\ LostInLongLoop'
  BY <1>5 DEF SingleUnderWay, LostInLongLoop
<1>7. Size' = Size
  BY <1>3 DEF Size
<1>8. ASSUME ~overlap', Size' = 1
      PROVE  \E m, lo, hi \in Values : /\ IsMedian(m, raw') /\ m - 5 <= lo /\ hi <= m + 5
                                      /\ Convert(lo) <= got'[1] /\ got'[1] <= Convert(hi)
  <2>1. ~overlap /\ AdcSize = 1 /\ BetweenNear(read_adc_buf[0])
    BY <1>2, <1>3, <1>7, <1>8 DEF AdcIInv, Sizes, SingleIInv, SingleUnderWay
  <2>2. PICK x \in Nat : x = read_adc_buf[0]
    BY <2>1 DEF BetweenNear
  <2>3. got'[1] = Convert(x)
    <3>1. 1 \in 1..AdcSize /\ 1 - 1 = 0
      BY <2>1
    <3>2. got'[1] = Convert(read_adc_buf[1 - 1])
      BY <1>3, <3>1
    <3> QED
      BY <2>2, <3>1, <3>2
  <2>4. PICK m \in Values, lo \in Values, hi \in Values :
          IsMedian(m, raw) /\ m - 5 <= lo /\ hi <= m + 5 /\ lo <= x /\ x <= hi
    BY <2>1, <2>2 DEF BetweenNear
  <2>5. lo \in Nat /\ hi \in Nat
    BY TklAdcAssumption
  <2>6. Convert(lo) <= Convert(x) /\ Convert(x) <= Convert(hi)
    BY <2>4, <2>5, ConvertGrows
  <2> QED
    BY <1>3, <2>3, <2>4, <2>6
<1>9. SingleIsNearMedian'
  BY <1>8 DEF SingleIsNearMedian
<1> QED
  BY <1>3, <1>6, <1>9 DEF SingleIInv

LEMMA SingleRunaway ==
  ASSUME AdcIInv, SingleIInv, NEW t \in Threads, Runaway(t)
  PROVE  SingleIInv'
<1>1. pc[t] = "copy" /\ Moves(t, "lost") /\ "lost" \in AdcPoints /\ AdcSize > CharMax
  BY DEF Runaway, Moves, AdcPoints, AdcSize
<1>2. UNCHANGED <<config, top, got, raw, overlap>>
  BY DEF Runaway
<1>3. Size' = Size
  BY <1>2 DEF Size
<1>4. /\ pc'[t] = "lost"
      /\ ~overlap' => ~overlap /\ \A u \in Threads : u # t => pc[u] = "idle" /\ pc'[u] = "idle"
  BY <1>1, AloneMoves
<1>5. ~overlap => AdcSize = Size
  BY <1>1 DEF AdcIInv, Sizes
<1>6. SingleUnderWay'
  BY <1>4 DEF SingleUnderWay
<1>7. LostInLongLoop'
  BY <1>1, <1>3, <1>4, <1>5 DEF LostInLongLoop
<1>8. SingleIsNearMedian'
  BY <1>2, <1>3 DEF SingleIInv, SingleIsNearMedian
<1> QED
  BY <1>2, <1>6, <1>7, <1>8 DEF SingleIInv

LEMMA SingleStep == AdcIInv /\ SingleIInv /\ [PortNext]_portVars => SingleIInv'
<1> SUFFICES ASSUME AdcIInv, SingleIInv, [PortNext]_portVars PROVE SingleIInv'
  OBVIOUS
<1>1. ASSUME UNCHANGED portVars PROVE SingleIInv'
  <2>1. /\ Size' = Size /\ AdcSize' = AdcSize /\ (Buffered' <=> Buffered)
        /\ UNCHANGED <<pc, top, raw, got, overlap, read_adc_buf>>
    BY <1>1 DEF portVars, Size, AdcSize, Buffered
  <2>2. SingleUnderWay'
    BY <2>1 DEF SingleIInv, SingleUnderWay, BetweenNear
  <2> QED
    BY <2>1, <2>2 DEF SingleIInv, LostInLongLoop, SingleIsNearMedian
<1>2. ASSUME NEW t \in Threads, Step(t) PROVE SingleIInv'
  BY <1>2, SingleOthers, SinglePoll, SingleMedian, SingleAverage, SingleCopy, SingleRunaway DEF Step
<1>3. ASSUME NEW t \in Threads, Lost(t) PROVE SingleIInv'
  BY <1>1, <1>3 DEF Lost
<1> QED
  BY <1>1, <1>2, <1>3, SingleOthers DEF PortNext

\* The heap's root is the median of the samples when it is used, a call is lost
\* only in the loop whose index is too small, and a single value is near the
\* median (tkl_adc.c:307-331).
THEOREM SingleInvariant == PortSpec => []SingleIInv
  BY SingleInitHolds, SingleStep, AdcInvariant, PTL DEF PortSpec

\* Unless calls overlapped, what a read stores is made of the samples that the
\* interrupt took for it: their values in order, or one near their median.
THEOREM ReadsStoreOwnSamples == PortSpec => []ReadsOwnSamples
<1>1. AdcIInv /\ SingleIInv => ReadsOwnSamples
  BY DEF AdcIInv, SingleIInv, ReadsOwnSamples
<1> QED
  BY <1>1, AdcInvariant, SingleInvariant, PTL
=============================================================================
