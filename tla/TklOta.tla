-------------------------------- MODULE TklOta ------------------------------
(***************************************************************************)
(* tkl_ota.c: an upgrade is announced (tkl_ota_start_notify), its file is  *)
(* fed in packs (tkl_ota_data_process) and checked and completed           *)
(* (tkl_ota_end_notify).  The first block of the image is kept in RAM and  *)
(* reaches the flash last, so that the boot loader finds its header only   *)
(* when the rest of the image is there.                                    *)
(*                                                                         *)
(* One thread makes the calls.  A call computes the flash commands it      *)
(* issues; they are executed one at a time, and the power may fail between *)
(* two of them.  A cell is what one program command writes (32 bytes).     *)
(***************************************************************************)
EXTENDS Integers, Sequences, FiniteSets

CONSTANTS Images,    \* the images there are
          ImageLen,  \* their lengths in cells (bin_len)
          Block,     \* RT_IMG_WR_UNIT
          Sector,    \* BUF_SIZE, which is also the flash's PARTITION_SIZE
          Area,      \* cells from UG_START_ADDR to the end of the OTA area
          MaxBin,    \* OTA_MAX_BIN_SIZE
          MaxPack    \* bound: the longest pack the caller feeds

ASSUME ImagesAssumption ==
  Images \cap {"erased", "mixed", "bad", "none", "failed", "no image"} = {}
ASSUME LensAssumption == ImageLen \in [Images -> Nat \ {0}]
ASSUME SizesAssumption ==
  /\ Block \in Nat \ {0} /\ Sector \in Nat \ {0} /\ Block <= Sector
  /\ Area \in Nat \ {0} /\ MaxBin \in Nat /\ MaxPack \in Nat \ {0}
  /\ MaxBin <= Area /\ Area % Sector = 0

VARIABLES flash,      \* cell -> content
          pend,       \* the flash commands the running call has yet to issue
          stat,       \* ug_proc->stat; "none" when ug_proc is NULL
          hdr,        \* ug_proc->file_header: the image it announces
          recv,       \* recv_data_cnt; flash_addr is start_addr + recv
          first,      \* first_block
          saved,      \* frist_block_databuf, the empty function when NULL
          file, sent, \* the caller: image sent, cells of its file consumed
          outcome,    \* of the last end: "none", "failed" or the image installed
          clean,      \* history: no corrupted data was consumed
          torn        \* history: power failed during the last write of an end

ram == <<stat, hdr, recv, first, saved>>
caller == <<file, sent, outcome, clean>>
vars == <<flash, pend, ram, caller, torn>>

NoImage == "no image"    \* file_header is all zero: bin_len 0, bin_sum 0
Erased == <<"erased", 0>>
Mixed == <<"mixed", 0>>  \* programmed twice, or erased halfway
NoBuf == [k \in {} |-> Erased]

Cells == 0..(Area - 1)
BinLen(i) == IF i \in Images THEN ImageLen[i] ELSE 0

Init ==
  /\ \E old \in {Erased, Mixed} : flash = [c \in Cells |-> old]
  /\ pend = <<>>
  /\ stat = "none" /\ hdr = NoImage /\ recv = 0 /\ first = TRUE /\ saved = NoBuf
  /\ file = NoImage /\ sent = 0 /\ outcome = "none" /\ clean = TRUE
  /\ torn = FALSE

-----------------------------------------------------------------------------
(* The flash (external): erasing sets a sector's cells; programming only   *)
(* clears bits.                                                            *)

Erase(s) == [kind |-> "erase", at |-> s * Sector, val |-> Erased]
Program(c, v) == [kind |-> "program", at |-> c, val |-> v]

SectorOf(c) == c \div Sector
Programmed(old, v) ==
  IF v = Erased THEN old ELSE IF old \in {Erased, v} THEN v ELSE Mixed

\* Slip: a last sector that is only partly covered is not erased.
ErasesWholeSectors(len) == [j \in 1..(len \div Sector) |-> Erase(j - 1)]

\* Slip: erases from the last sector down.
ErasesDownward(len) ==
  LET n == (len + Sector - 1) \div Sector IN [j \in 1..n |-> Erase(n - j)]

\* The commands of tkl_flash_erase of the first len cells, and of
\* tkl_flash_write of n cells from c on with content v.
Erases(len) == [j \in 1..((len + Sector - 1) \div Sector) |-> Erase(j - 1)]
Programs(c, n, v) == [j \in 1..n |-> Program(c + j - 1, v[c + j - 1])]

FlashStep ==
  /\ pend # <<>>
  /\ LET op == Head(pend)
     IN  flash' = IF op.kind = "erase"
                  THEN [c \in Cells |-> IF SectorOf(c) = SectorOf(op.at) THEN Erased ELSE flash[c]]
                  ELSE [flash EXCEPT ![op.at] = Programmed(@, op.val)]
  /\ pend' = Tail(pend)
  /\ torn' = (torn /\ ~(Head(pend).kind = "erase" /\ Head(pend).at = 0))
  /\ UNCHANGED <<ram, caller>>

-----------------------------------------------------------------------------
(* tkl_ota_start_notify: at any time, also while an upgrade is under way.  *)
(* The buffer of the first block is kept.                                  *)

Start(i) ==
  /\ pend = <<>>
  /\ stat' = "header" /\ hdr' = NoImage /\ recv' = 0 /\ first' = TRUE
  /\ file' = i /\ sent' = 0 /\ outcome' = "none" /\ clean' = TRUE
  /\ UNCHANGED <<flash, pend, saved, torn>>

-----------------------------------------------------------------------------
(* tkl_ota_data_process.                                                   *)

\* What is left of the file: the header, one cell, and the image.
Left == 1 + BinLen(file) - sent

Fits(len) == len < MaxBin

\* UGS_RECV_HEADER; a header damaged on the way or of an image too large is
\* refused, and the header kept in ug_proc is cleared.
HeaderPack(ok) ==
  /\ pend = <<>> /\ stat = "header"
  /\ \/ /\ ok /\ Fits(BinLen(file))
        /\ hdr' = file /\ stat' = "data" /\ recv' = 0 /\ sent' = 1
        /\ pend' = Erases(BinLen(file))
     \/ /\ ~ok \/ ~Fits(BinLen(file))
        /\ hdr' = NoImage
        /\ UNCHANGED <<stat, recv, sent, pend>>
  /\ UNCHANGED <<flash, first, saved, file, outcome, clean, torn>>

\* bin_len - RT_IMG_WR_UNIT in unsigned arithmetic is huge for an image shorter
\* than a block, whose reception therefore never ends.
BeforeLastBlock(r) == BinLen(hdr) < Block \/ r <= BinLen(hdr) - Block

\* Slip: short packs are refused until the whole image is received.
TooShortAlways(n) == n < Block

TooShort(n) == n < Block /\ BeforeLastBlock(recv)

\* What the image's cells are as a pack brings them.
Brought(ok) == [c \in Cells |-> IF ok THEN <<file, c>> ELSE <<"bad", c>>]

\* Slip: every block is taken from the start of the pack.
OffsetOfStart(n, writeLen) == 0

\* Where in the pack the block starts that is written when writeLen cells
\* of the pack are left.
Offset(n, writeLen) == n - writeLen

\* What a pack of n cells puts where: cell c of the image comes from the
\* pack's block that the loop has reached.
Placed(n, ok) ==
  [c \in recv..(recv + n - 1) |->
     LET k == (c - recv) % Block
     IN  Brought(ok)[recv + Offset(n, n - (c - recv - k)) + k]]

\* The commands for n cells of whole blocks: the first block is only a dummy.
Blocks(n, v) ==
  Programs(recv, n, [c \in DOMAIN v |-> IF first /\ c < recv + Block THEN Erased ELSE v[c]])

\* The tail is taken once it is the last block of the image, and complete.
TakesTail(r, rest) == ~BeforeLastBlock(r) /\ rest >= BinLen(hdr) - r

DataPack(n, ok) ==
  /\ pend = <<>> /\ stat = "data"
  /\ n <= Left /\ ~TooShort(n)
  /\ LET whole == (n \div Block) * Block
         v == Placed(n, ok)
         rest == n - whole
         taken == IF TakesTail(recv + whole, rest) THEN n ELSE whole
     IN  /\ pend' = Blocks(whole, v) \o Programs(recv + whole, taken - whole, v)
         /\ saved' = IF first /\ whole > 0 THEN [k \in 0..(Block - 1) |-> v[recv + k]] ELSE saved
         /\ first' = (first /\ whole = 0)
         /\ recv' = recv + taken /\ sent' = sent + taken
         /\ stat' = IF recv + taken >= BinLen(hdr) THEN "finish" ELSE stat
         /\ clean' = (clean /\ (ok \/ taken = 0))
  /\ UNCHANGED <<flash, hdr, file, outcome, torn>>

\* No memory for the dummy: the first block is kept, nothing is consumed.
DataNoMemory(n) ==
  /\ pend = <<>> /\ stat = "data" /\ first
  /\ Block <= n /\ n <= Left
  /\ saved' = [k \in 0..(Block - 1) |-> <<file, recv + k>>]
  /\ UNCHANGED <<flash, pend, stat, hdr, recv, first, caller, torn>>

-----------------------------------------------------------------------------
(* tkl_ota_end_notify.                                                     *)

\* The image as the checksum loop sees it: the saved block over the flash.
\* Sums of different contents differ.
Assembled(c) == IF c \in DOMAIN saved THEN saved[c] ELSE flash[c]
SumMatches ==
  /\ hdr # NoImage => saved # NoBuf
  /\ \A c \in 0..(BinLen(hdr) - 1) : Assembled(c) = <<hdr, c>>

\* Slip: the saved block is copied into the buffer after it was written.
LastWriteWithoutBlock == <<Erase(0)>> \o Programs(0, Sector, flash)

\* The first sector is read, erased and written back with the saved block.
\* With no header the address is 0, in the half of the flash that stays
\* protected: nothing is erased or written.
LastWrite ==
  IF hdr = NoImage THEN <<>>
  ELSE <<Erase(0)>> \o Programs(0, Sector, [c \in Cells |-> Assembled(c)])

\* Right or wrong, everything is freed.
End ==
  /\ pend = <<>> /\ stat # "none"
  /\ \/ SumMatches /\ pend' = LastWrite /\ outcome' = hdr
     \/ ~SumMatches /\ outcome' = "failed" /\ UNCHANGED pend
  /\ stat' = "none" /\ hdr' = NoImage /\ recv' = 0 /\ saved' = NoBuf
  /\ UNCHANGED <<flash, first, file, sent, clean, torn>>

-----------------------------------------------------------------------------
\* The power fails, or the device is reset: RAM is lost; a sector whose
\* erasing was cut short is unreadable.
Crash ==
  /\ stat' = "none" /\ hdr' = NoImage /\ recv' = 0 /\ first' = TRUE /\ saved' = NoBuf
  /\ file' = NoImage /\ sent' = 0 /\ outcome' = "none" /\ clean' = TRUE
  /\ pend' = <<>>
  /\ \/ UNCHANGED flash
     \/ /\ pend # <<>> /\ Head(pend).kind = "erase"
        /\ flash' = [c \in Cells |-> IF SectorOf(c) = SectorOf(Head(pend).at) THEN Mixed ELSE flash[c]]
  /\ torn' = (torn \/ (pend # <<>> /\ Head(pend).kind = "program" /\ outcome \in Images))

\* A pack with as much of the file as the caller's buffer takes.
FullPack == DataPack(IF Left < MaxPack THEN Left ELSE MaxPack, TRUE)

Next ==
  \/ FlashStep
  \/ \E i \in Images : Start(i)
  \/ \E ok \in BOOLEAN : HeaderPack(ok)
  \/ \E n \in 1..MaxPack, ok \in BOOLEAN : DataPack(n, ok)
  \/ \E n \in 1..MaxPack : DataNoMemory(n)
  \/ End
  \/ Crash

Spec == Init /\ [][Next]_vars

\* The caller goes on feeding, and the flash executes its commands.
FairSpec == Spec /\ WF_vars(FlashStep) /\ WF_vars(FullPack)
-----------------------------------------------------------------------------
\* The cells S of the flash hold image i.
Holds(i, S) == \A c \in S \cap 0..(BinLen(i) - 1) : flash[c] = <<i, c>>
HasHeader(i) == Holds(i, 0..(Block - 1))

\* The header of an image is on the flash only when everything behind its
\* first sector is, and the first sector itself is complete but while, or
\* after, an end was cut short in its last write.  So the boot loader never
\* sees the header of an image whose checksum was not verified, whatever was
\* sent and wherever the power failed.
HeaderMeansWhole ==
  \A i \in Images : HasHeader(i) =>
    /\ Holds(i, Sector..(Area - 1))
    /\ Holds(i, 0..(Sector - 1)) \/ torn \/ (pend # <<>> /\ outcome = i)

\* Commands stay inside the OTA area, and every program command finds its cell
\* erased: whatever an earlier, longer or interrupted upgrade left behind is
\* gone before new data arrive.
ProgramsErased ==
  /\ \A j \in DOMAIN pend : pend[j].at \in Cells
  /\ pend # <<>> /\ Head(pend).kind = "program" /\ Head(pend).val # Erased
       => flash[Head(pend).at] = Erased

\* An end that reports success of an upgrade whose header was accepted has
\* left the whole image on the flash.
OkMeansInstalled ==
  outcome \in Images /\ pend = <<>> => Holds(outcome, Cells)

\* Whatever lengths the packs had, an image received without damage passes
\* the checksum: no cell is lost, repeated or misplaced at a block boundary
\* or in the tail.
UndamagedVerifies == stat = "finish" /\ clean /\ pend = <<>> => SumMatches

\* An end reports success ("the gateway upgrade success") only of an image:
\* its doc promises OPRT_OK on success and another code on errors.
OkMeansImage == outcome # NoImage

\* The upgrade of an image of at least one block that is fed to the end leaves
\* UGS_RECV_IMG_DATA, whatever lengths the packs before had.  (The only pack of
\* a shorter image is refused forever: see BeforeLastBlock.)
ReceptionEnds == stat = "data" /\ BinLen(hdr) >= Block ~> stat # "data"
=============================================================================
