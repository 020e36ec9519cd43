----------------------------- MODULE TklOtaProofs ----------------------------
(***************************************************************************)
(* Proofs about TklOta, for every images of every lengths, every sizes of  *)
(* blocks, sectors and packs, and about TklFlash, whose protection its     *)
(* commands meet, for every set of threads.                                *)
(***************************************************************************)
EXTENDS TklOta, TklFlash, TLAPS

Contents == (Images \cup {"erased", "mixed", "bad"}) \X Nat
Commands == [kind : {"erase", "program"}, at : Nat, val : Contents]

TypeInv ==
  /\ flash \in [Cells -> Contents] /\ pend \in Seq(Commands)
  /\ stat \in {"none", "header", "data", "finish"}
  /\ hdr \in Images \cup {NoImage} /\ recv \in Nat /\ first \in BOOLEAN
  /\ saved = NoBuf \/ saved \in [0..(Block - 1) -> Contents]
  /\ file \in Images \cup {NoImage} /\ sent \in Nat
  /\ outcome \in Images \cup {"none", "failed", NoImage}
  /\ clean \in BOOLEAN /\ torn \in BOOLEAN

\* The sectors an image takes.
Sectors(i) == (BinLen(i) + Sector - 1) \div Sector

Receiving == stat \in {"data", "finish"}

\* An upgrade under way: what has been counted, and what has been kept.
Counted ==
  /\ Receiving =>
       /\ hdr \in Images /\ file = hdr /\ BinLen(hdr) < MaxBin
       /\ recv <= BinLen(hdr) /\ sent = recv + 1 /\ outcome = "none"
       /\ first => recv = 0
       /\ ~first => /\ Block <= recv /\ saved \in [0..(Block - 1) -> Contents]
                    /\ clean => \A k \in 0..(Block - 1) : saved[k] = <<hdr, k>>
       /\ stat = "finish" => recv = BinLen(hdr)
  /\ ~Receiving => hdr = NoImage
  /\ stat = "header" => pend = <<>> /\ recv = 0 /\ first /\ outcome = "none" /\ file \in Images
  /\ stat = "none" /\ outcome \notin Images => pend = <<>>
  /\ outcome \in Images => stat = "none" /\ BinLen(outcome) < MaxBin

\* The sectors of the image are erased in order.
Erasing ==
  LET s == Sectors(hdr) - Len(pend)
  IN  /\ recv = 0 /\ s \in Nat
      /\ \A j \in 1..Len(pend) : pend[j] = Erase(s + j - 1)
      /\ \A c \in Cells : c < s * Sector => flash[c] = Erased

\* What cell c of the image is on the flash once it is received.
Right(c, x) ==
  IF c < Block THEN x = Erased ELSE x = <<hdr, c>> \/ (~clean /\ x = <<"bad", c>>)

\* The cells of the image are programmed in order, up to those received.
Programming ==
  LET a == recv - Len(pend)
  IN  /\ a \in Nat
      /\ \A j \in 1..Len(pend) :
           pend[j].kind = "program" /\ pend[j].at = a + j - 1 /\ Right(a + j - 1, pend[j].val)
      /\ \A c \in 0..(a - 1) : Right(c, flash[c])
      /\ \A c \in a..(BinLen(hdr) - 1) : flash[c] = Erased

\* The command for cell c of the verified image i.
Restores(op, c, i) ==
  op.kind = "program" /\ op.at = c /\ (c < BinLen(i) => op.val = <<i, c>>)

\* The first sector of the verified image is erased and programmed.
LastWriting(i) ==
  /\ \A c \in Sector..(BinLen(i) - 1) : flash[c] = <<i, c>>
  /\ \/ /\ Len(pend) = Sector + 1 /\ pend[1] = Erase(0) /\ flash[0] = Erased
        /\ \A j \in 1..Sector : Restores(pend[j + 1], j - 1, i)
     \/ LET a == Sector - Len(pend)
        IN  /\ a \in Nat
            /\ \A j \in 1..Len(pend) : Restores(pend[j], a + j - 1, i)
            /\ \A c \in 0..(a - 1) : c < BinLen(i) => flash[c] = <<i, c>>
            /\ \A c \in a..(Sector - 1) : flash[c] = Erased

\* Between upgrades, an image whose first cell is on the flash is there.
Booted ==
  \A i \in Images : flash[0] = <<i, 0>> =>
    Holds(i, Sector..(Area - 1)) /\ (Holds(i, 0..(Sector - 1)) \/ torn)

Phases ==
  /\ Receiving => Programming \/ (Erasing /\ (Len(pend) = Sectors(hdr) => Booted))
  /\ outcome \in Images => LastWriting(outcome)
  /\ ~Receiving /\ outcome \notin Images => Booted

IInv == TypeInv /\ Counted /\ Phases

-----------------------------------------------------------------------------
(* Sectors and blocks.                                                     *)

LEMMA Sizes ==
  /\ Block \in Nat \ {0} /\ Sector \in Nat \ {0} /\ Area \in Nat \ {0}
  /\ Block <= Sector /\ MaxBin \in Nat /\ MaxBin <= Area /\ MaxPack \in Nat \ {0}
  BY SizesAssumption

LEMMA DivisionLemma ==
  ASSUME NEW x \in Nat, NEW m \in Nat \ {0}
  PROVE  /\ x \div m \in Nat /\ x % m \in Nat /\ x % m < m
         /\ x = m * (x \div m) + (x % m)
<1>1. x \div m \in Int /\ x % m \in 0..(m - 1) /\ x = m * (x \div m) + (x % m)
  OBVIOUS
<1>2. x \div m >= 0
  OBVIOUS
<1> QED
  BY <1>1, <1>2

LEMMA Monotone ==
  ASSUME NEW q \in Nat, NEW r \in Nat, NEW m \in Nat, q <= r
  PROVE  q * m <= r * m
<1>1. r * m = q * m + (r - q) * m
  OBVIOUS
<1>2. (r - q) * m >= 0
  OBVIOUS
<1>3. q * m \in Int /\ r * m \in Int /\ (r - q) * m \in Int
  OBVIOUS
<1> QED
  BY <1>1, <1>2, <1>3

\* A cell is in sector s when it is between the sector's first cell and the
\* next sector's.
LEMMA SectorLemma ==
  ASSUME NEW x \in Nat, NEW s \in Nat
  PROVE  /\ s * Sector \in Nat /\ (s + 1) * Sector = s * Sector + Sector
         /\ SectorOf(x) \in Nat
         /\ SectorOf(x) = s <=> s * Sector <= x /\ x < s * Sector + Sector
<1> DEFINE q == x \div Sector
<1>1. Sector \in Nat \ {0}
  BY Sizes
<1>2. q \in Nat /\ x % Sector \in Nat /\ x % Sector < Sector /\ x = Sector * q + (x % Sector)
  BY <1>1, DivisionLemma
<1>3. s * Sector \in Nat /\ (s + 1) * Sector = s * Sector + Sector
  BY <1>1
<1>4. SectorOf(x) = q
  BY DEF SectorOf
<1> HIDE DEF q
<1>5. q * Sector \in Nat /\ Sector * q = q * Sector /\ (q + 1) * Sector = q * Sector + Sector
  BY <1>1, <1>2
<1>6. q * Sector <= x /\ x < q * Sector + Sector
  BY <1>1, <1>2, <1>5
<1>7. ASSUME q < s PROVE ~(s * Sector <= x)
  <2>1. (q + 1) * Sector <= s * Sector
    <3>1. q + 1 \in Nat /\ Sector \in Nat /\ q + 1 <= s
      BY <1>1, <1>2, <1>7
    <3> QED
      BY <3>1, Monotone
  <2> QED
    BY <1>1, <1>3, <1>5, <1>6, <2>1
<1>8. ASSUME s < q PROVE ~(x < s * Sector + Sector)
  <2>1. (s + 1) * Sector <= q * Sector
    <3>1. s + 1 \in Nat /\ Sector \in Nat /\ s + 1 <= q
      BY <1>1, <1>2, <1>8
    <3> QED
      BY <1>2, <3>1, Monotone
  <2> QED
    BY <1>1, <1>3, <1>5, <1>6, <2>1
<1> QED
  BY <1>2, <1>3, <1>4, <1>6, <1>7, <1>8

\* The sectors that are erased for an image cover it, and begin inside it.
LEMMA SectorsLemma ==
  ASSUME NEW i \in Images
  PROVE  /\ BinLen(i) \in Nat /\ 0 < BinLen(i)
         /\ Sectors(i) \in Nat /\ 0 < Sectors(i) /\ BinLen(i) <= Sectors(i) * Sector
         /\ \A s \in Nat : s < Sectors(i) => s * Sector < BinLen(i)
<1> DEFINE K == (BinLen(i) + Sector - 1) \div Sector
<1>1. BinLen(i) \in Nat /\ 0 < BinLen(i)
  BY LensAssumption DEF BinLen
<1>2. Sector \in Nat \ {0} /\ BinLen(i) + Sector - 1 \in Nat
  BY <1>1, Sizes
<1>3. /\ K \in Nat /\ (BinLen(i) + Sector - 1) % Sector \in Nat /\ (BinLen(i) + Sector - 1) % Sector < Sector
      /\ BinLen(i) + Sector - 1 = Sector * K + ((BinLen(i) + Sector - 1) % Sector)
  BY <1>2, DivisionLemma
<1>4. Sectors(i) = K
  BY DEF Sectors
<1> HIDE DEF K
<1>5. K * Sector \in Nat /\ Sector * K = K * Sector
  BY <1>2, <1>3
<1>6. BinLen(i) <= K * Sector /\ K * Sector < BinLen(i) + Sector
  BY <1>1, <1>2, <1>3, <1>5
<1>7. 0 < K
  <2>1. K = 0 => K * Sector = 0
    BY <1>2
  <2> QED
    BY <1>1, <1>3, <1>6, <2>1
<1>8. ASSUME NEW s \in Nat, s < K PROVE s * Sector < BinLen(i)
  <2>1. (s + 1) * Sector <= K * Sector
    BY <1>2, <1>3, <1>8, Monotone
  <2>2. s * Sector \in Nat /\ (s + 1) * Sector = s * Sector + Sector
    BY <1>2
  <2> QED
    BY <1>1, <1>2, <1>5, <1>6, <2>1, <2>2
<1> QED
  BY <1>1, <1>3, <1>4, <1>6, <1>7, <1>8

LEMMA AreaLemma == Sector <= Area
<1>1. Area \in Nat \ {0} /\ Sector \in Nat \ {0} /\ Area % Sector = 0
  BY SizesAssumption
<1>2. Area < Sector => Area % Sector = Area
  BY <1>1
<1> QED
  BY <1>1, <1>2

\* The whole blocks of a pack.
LEMMA WholeLemma ==
  ASSUME NEW n \in Nat
  PROVE  LET whole == (n \div Block) * Block
         IN  whole \in Nat /\ whole <= n /\ (whole > 0 => Block <= whole) /\ n < whole + Block
<1> DEFINE q == n \div Block
<1>1. Block \in Nat \ {0}
  BY Sizes
<1>2. q \in Nat /\ n % Block \in Nat /\ n % Block < Block /\ n = Block * q + (n % Block)
  BY <1>1, DivisionLemma
<1> HIDE DEF q
<1>3. q * Block \in Nat /\ Block * q = q * Block
  BY <1>1, <1>2
<1>4. ASSUME q * Block > 0 PROVE Block <= q * Block
  <2>1. q # 0
    BY <1>1, <1>4
  <2>2. 1 * Block <= q * Block
    BY <1>1, <1>2, <2>1, Monotone
  <2> QED
    BY <1>1, <2>2
<1>5. q * Block <= n /\ n < q * Block + Block
  BY <1>1, <1>2, <1>3
<1> QED
  BY <1>3, <1>4, <1>5 DEF q

-----------------------------------------------------------------------------
(* The flash executes a command.                                           *)

\* The content of an image's cell is no other content.
LEMMA Different ==
  ASSUME NEW i \in Images
  PROVE  /\ \A c : <<i, c>> # Erased /\ <<i, c>> # Mixed /\ <<i, c>> # <<"bad", c>>
         /\ i # NoImage /\ i # "none" /\ i # "failed"
<1>1. i \notin {"erased", "mixed", "bad", "none", "failed", "no image"}
  BY ImagesAssumption
<1>2. i # "erased" /\ i # "mixed" /\ i # "bad"
  BY <1>1
<1>3. i # NoImage /\ i # "none" /\ i # "failed"
  BY <1>1 DEF NoImage
<1>4. \A c : <<i, c>> # Erased
  BY <1>2 DEF Erased
<1>5. \A c : <<i, c>> # Mixed
  BY <1>2 DEF Mixed
<1>6. \A c : <<i, c>> # <<"bad", c>>
  BY <1>2
<1> QED
  BY <1>3, <1>4, <1>5, <1>6

LEMMA HeadAndTail ==
  ASSUME pend \in Seq(Commands), pend # <<>>
  PROVE  /\ Len(pend) \in Nat \ {0} /\ Head(pend) = pend[1] /\ Head(pend) \in Commands
         /\ Tail(pend) \in Seq(Commands) /\ Len(Tail(pend)) = Len(pend) - 1
         /\ \A j \in 1..(Len(pend) - 1) : Tail(pend)[j] = pend[j + 1]
  OBVIOUS

\* What a command does to the cells.
LEMMA FlashStepFacts ==
  ASSUME TypeInv, FlashStep
  PROVE  /\ pend # <<>> /\ Len(pend) \in Nat \ {0} /\ pend[1] \in Commands
         /\ pend' \in Seq(Commands) /\ Len(pend') = Len(pend) - 1
         /\ \A j \in 1..Len(pend') : pend'[j] = pend[j + 1]
         /\ UNCHANGED <<stat, hdr, recv, first, saved, file, sent, outcome, clean>>
         /\ flash' \in [Cells -> Contents]
         /\ pend[1].kind = "erase" =>
              \A c \in Cells : flash'[c] = IF SectorOf(c) = SectorOf(pend[1].at) THEN Erased ELSE flash[c]
         /\ pend[1].kind # "erase" =>
              \A c \in Cells : flash'[c] = IF c = pend[1].at THEN Programmed(flash[c], pend[1].val) ELSE flash[c]
         /\ torn' = (torn /\ ~(pend[1].kind = "erase" /\ pend[1].at = 0))
<1>1. pend # <<>> /\ pend' = Tail(pend) /\ pend \in Seq(Commands)
  BY DEF FlashStep, TypeInv
<1>2. /\ Len(pend) \in Nat \ {0} /\ Head(pend) = pend[1] /\ pend[1] \in Commands
      /\ pend' \in Seq(Commands) /\ Len(pend') = Len(pend) - 1
      /\ \A j \in 1..Len(pend') : pend'[j] = pend[j + 1]
  BY <1>1, HeadAndTail
<1>3. flash \in [Cells -> Contents] /\ pend[1].val \in Contents /\ pend[1].at \in Nat
  BY <1>2 DEF TypeInv, Commands
<1>4. Erased \in Contents /\ Mixed \in Contents
  BY DEF Erased, Mixed, Contents
<1>5. CASE pend[1].kind = "erase"
  <2>1. flash' = [c \in Cells |-> IF SectorOf(c) = SectorOf(pend[1].at) THEN Erased ELSE flash[c]]
    BY <1>2, <1>5 DEF FlashStep
  <2>2. flash' \in [Cells -> Contents]
    BY <1>3, <1>4, <2>1
  <2> QED
    BY <1>1, <1>2, <1>5, <2>1, <2>2 DEF FlashStep, ram, caller
<1>6. CASE pend[1].kind # "erase"
  <2>1. flash' = [flash EXCEPT ![pend[1].at] = Programmed(flash[pend[1].at], pend[1].val)]
    BY <1>2, <1>6 DEF FlashStep
  <2>2. \A c \in Cells : Programmed(flash[c], pend[1].val) \in Contents
    BY <1>3, <1>4 DEF Programmed
  <2>3. flash' \in [Cells -> Contents]
    BY <1>3, <2>1, <2>2
  <2>4. \A c \in Cells : flash'[c] = IF c = pend[1].at THEN Programmed(flash[c], pend[1].val) ELSE flash[c]
    BY <1>3, <2>1
  <2> QED
    BY <1>1, <1>2, <1>6, <2>3, <2>4 DEF FlashStep, ram, caller
<1> QED
  BY <1>5, <1>6

\* A program command leaves its content in an erased cell.
LEMMA OnErased ==
  ASSUME NEW v
  PROVE  Programmed(Erased, v) = v
  BY DEF Programmed

LEMMA FirstCell == 0 \in Cells /\ \A c \in Nat : c < Area => c \in Cells
  BY Sizes DEF Cells

\* The next sector is erased; at the latest now no image starts the flash.
LEMMA ErasingStep ==
  ASSUME TypeInv, Counted, FlashStep, Receiving, Erasing
  PROVE  Erasing' /\ flash'[0] = Erased
<1>1. PICK s \in Nat : s = Sectors(hdr) - Len(pend)
  BY DEF Erasing
<1>2. /\ recv = 0
      /\ \A j \in 1..Len(pend) : pend[j] = Erase(s + j - 1)
      /\ \A c \in Cells : c < s * Sector => flash[c] = Erased
  BY <1>1 DEF Erasing
<1>3. /\ Len(pend) \in Nat \ {0} /\ Len(pend') = Len(pend) - 1
      /\ \A j \in 1..Len(pend') : pend'[j] = pend[j + 1]
      /\ hdr' = hdr /\ recv' = recv
      /\ pend[1].kind = "erase" =>
           \A c \in Cells : flash'[c] = IF SectorOf(c) = SectorOf(pend[1].at) THEN Erased ELSE flash[c]
  BY FlashStepFacts
<1>4. pend[1] = Erase(s)
  BY <1>2, <1>3
<1>5. pend[1].kind = "erase" /\ pend[1].at = s * Sector
  BY <1>4 DEF Erase
<1>6. s * Sector \in Nat /\ (s + 1) * Sector = s * Sector + Sector /\ Sector \in Nat \ {0}
  BY Sizes, SectorLemma
<1>7. SectorOf(s * Sector) = s
  BY <1>6, SectorLemma
<1>8. ASSUME NEW c \in Cells, c < (s + 1) * Sector PROVE flash'[c] = Erased
  <2>1. c \in Nat
    BY DEF Cells
  <2>2. CASE c < s * Sector
    BY <1>2, <1>3, <1>5, <2>2
  <2>3. CASE ~(c < s * Sector)
    <3>1. SectorOf(c) = s
      BY <1>6, <1>8, <2>1, <2>3, SectorLemma
    <3> QED
      BY <1>3, <1>5, <1>7, <3>1
  <2> QED
    BY <2>2, <2>3
<1>9. hdr \in Images
  BY DEF Counted
<1>10. Sectors(hdr) \in Nat /\ Sectors(hdr)' = Sectors(hdr)
  BY <1>3, <1>9, SectorsLemma DEF Sectors, BinLen
<1>11. Sectors(hdr)' - Len(pend') = s + 1
  BY <1>1, <1>3, <1>10
<1>12. \A j \in 1..Len(pend') : pend'[j] = Erase(s + 1 + j - 1)
  <2> SUFFICES ASSUME NEW j \in 1..Len(pend') PROVE pend'[j] = Erase(s + 1 + j - 1)
    OBVIOUS
  <2>1. j + 1 \in 1..Len(pend) /\ pend'[j] = pend[j + 1]
    BY <1>3
  <2>2. pend[j + 1] = Erase(s + (j + 1) - 1)
    BY <1>2, <2>1
  <2>3. s + (j + 1) - 1 = s + 1 + j - 1
    OBVIOUS
  <2> QED
    BY <2>1, <2>2, <2>3
<1>13. Erasing'
  <2>1. PICK t : t = s + 1
    OBVIOUS
  <2>2. /\ Sectors(hdr)' - Len(pend') = t /\ t \in Nat
        /\ \A j \in 1..Len(pend') : pend'[j] = Erase(t + j - 1)
        /\ \A c \in Cells : c < t * Sector => flash'[c] = Erased
    BY <1>8, <1>11, <1>12, <2>1
  <2> QED
    BY <1>2, <1>3, <2>2 DEF Erasing
<1>14. flash'[0] = Erased
  <2>1. 0 \in Cells /\ 0 < (s + 1) * Sector
    BY <1>6, FirstCell
  <2> QED
    BY <1>8, <2>1
<1> QED
  BY <1>13, <1>14

\* The next cell of the image is programmed.
LEMMA ProgrammingStep ==
  ASSUME TypeInv, Counted, FlashStep, Receiving, Programming
  PROVE  Programming'
<1>1. PICK a \in Nat : a = recv - Len(pend)
  BY DEF Programming
<1>2. /\ \A j \in 1..Len(pend) :
           pend[j].kind = "program" /\ pend[j].at = a + j - 1 /\ Right(a + j - 1, pend[j].val)
      /\ \A c \in 0..(a - 1) : Right(c, flash[c])
      /\ \A c \in a..(BinLen(hdr) - 1) : flash[c] = Erased
  BY <1>1 DEF Programming
<1>3. /\ Len(pend) \in Nat \ {0} /\ Len(pend') = Len(pend) - 1
      /\ \A j \in 1..Len(pend') : pend'[j] = pend[j + 1]
      /\ hdr' = hdr /\ recv' = recv /\ clean' = clean
      /\ pend[1].kind # "erase" =>
           \A c \in Cells : flash'[c] = IF c = pend[1].at THEN Programmed(flash[c], pend[1].val) ELSE flash[c]
  BY FlashStepFacts
<1>4. hdr \in Images /\ recv \in Nat /\ recv <= BinLen(hdr) /\ BinLen(hdr) < MaxBin /\ BinLen(hdr) \in Nat
  BY SectorsLemma DEF Counted, TypeInv
<1>5. BinLen(hdr)' = BinLen(hdr) /\ BinLen(hdr) < Area
  BY <1>3, <1>4, Sizes DEF BinLen
<1>6. a < recv /\ a + 1 = recv' - Len(pend')
  BY <1>1, <1>3, <1>4
<1>7. \A c \in 0..(BinLen(hdr) - 1) : c \in Cells
  <2>1. \A c \in 0..(BinLen(hdr) - 1) : c \in Nat /\ c < Area
    BY <1>4, <1>5, Sizes
  <2> QED
    BY <2>1, FirstCell
<1>8. pend[1].kind = "program" /\ pend[1].at = a /\ Right(a, pend[1].val)
  <2>1. 1 \in 1..Len(pend) /\ a + 1 - 1 = a
    BY <1>3
  <2> QED
    BY <1>2, <2>1
<1>9. \A c \in 0..(BinLen(hdr) - 1) : flash'[c] = IF c = a THEN Programmed(flash[c], pend[1].val) ELSE flash[c]
  BY <1>3, <1>7, <1>8
<1>10. a \in a..(BinLen(hdr) - 1) /\ a \in 0..(BinLen(hdr) - 1)
  BY <1>4, <1>6
<1>11. flash'[a] = pend[1].val
  BY <1>2, <1>9, <1>10, OnErased
<1>12. \A c, x : Right(c, x)' <=> Right(c, x)
  BY <1>3 DEF Right
<1>13. ASSUME NEW c \in 0..a PROVE Right(c, flash'[c])
  <2>1. CASE c = a
    BY <1>8, <1>11, <2>1
  <2>2. CASE c # a
    <3>1. c \in 0..(a - 1) /\ c \in 0..(BinLen(hdr) - 1)
      BY <1>4, <1>6, <2>2
    <3> QED
      BY <1>2, <1>9, <2>2, <3>1
  <2> QED
    BY <2>1, <2>2
<1>14. ASSUME NEW c \in (a + 1)..(BinLen(hdr) - 1) PROVE flash'[c] = Erased
  <2>1. c \in a..(BinLen(hdr) - 1) /\ c # a /\ c \in 0..(BinLen(hdr) - 1)
    BY <1>4
  <2> QED
    BY <1>2, <1>9, <2>1
<1>15. ASSUME NEW j \in 1..Len(pend')
       PROVE  pend'[j].kind = "program" /\ pend'[j].at = a + 1 + j - 1 /\ Right(a + 1 + j - 1, pend'[j].val)
  <2>1. j + 1 \in 1..Len(pend) /\ pend'[j] = pend[j + 1] /\ a + (j + 1) - 1 = a + 1 + j - 1
    BY <1>3
  <2>2. pend[j + 1].kind = "program" /\ pend[j + 1].at = a + (j + 1) - 1 /\ Right(a + (j + 1) - 1, pend[j + 1].val)
    BY <1>2, <2>1
  <2> QED
    BY <2>1, <2>2
<1>16. PICK b \in Nat : b = a + 1
  OBVIOUS
<1>17. /\ recv' - Len(pend') = b
       /\ \A j \in 1..Len(pend') :
            pend'[j].kind = "program" /\ pend'[j].at = b + j - 1 /\ Right(b + j - 1, pend'[j].val)
       /\ \A c \in 0..(b - 1) : Right(c, flash'[c])
       /\ \A c \in b..(BinLen(hdr)' - 1) : flash'[c] = Erased
  <2>1. b - 1 = a
    BY <1>16
  <2> QED
    BY <1>5, <1>6, <1>13, <1>14, <1>15, <1>16, <2>1
<1> QED
  BY <1>12, <1>17 DEF Programming

\* The first sector of a verified image is restored.
LEMMA LastStep ==
  ASSUME TypeInv, Counted, FlashStep, outcome \in Images, LastWriting(outcome)
  PROVE  LastWriting(outcome)'
<1>0. PICK i \in Images : i = outcome
  OBVIOUS
<1>1. /\ Len(pend) \in Nat \ {0} /\ Len(pend') = Len(pend) - 1
      /\ \A j \in 1..Len(pend') : pend'[j] = pend[j + 1]
      /\ outcome' = outcome
      /\ pend[1].kind = "erase" =>
           \A c \in Cells : flash'[c] = IF SectorOf(c) = SectorOf(pend[1].at) THEN Erased ELSE flash[c]
      /\ pend[1].kind # "erase" =>
           \A c \in Cells : flash'[c] = IF c = pend[1].at THEN Programmed(flash[c], pend[1].val) ELSE flash[c]
  BY FlashStepFacts
<1>2. Sector \in Nat \ {0} /\ Sector <= Area /\ Area \in Nat /\ \A c \in 0..(Sector - 1) : c \in Cells /\ c \in Nat
  <2>1. Sector \in Nat \ {0} /\ Sector <= Area /\ Area \in Nat
    BY Sizes, AreaLemma
  <2>2. \A c \in 0..(Sector - 1) : c \in Nat /\ c < Area
    BY <2>1
  <2> QED
    BY <2>1, <2>2, FirstCell
<1>3. BinLen(i) \in Nat /\ BinLen(i) < Area
  BY <1>0, Sizes, SectorsLemma DEF Counted
<1>4. \A c \in Sector..(BinLen(i) - 1) : flash[c] = <<i, c>> /\ c \in Cells /\ c \in Nat /\ Sector <= c
  <2>1. \A c \in Sector..(BinLen(i) - 1) : c \in Nat /\ c < Area /\ Sector <= c
    BY <1>2, <1>3
  <2>2. \A c \in Sector..(BinLen(i) - 1) : flash[c] = <<i, c>>
    BY <1>0 DEF LastWriting
  <2> QED
    BY <2>1, <2>2, FirstCell
<1>5. CASE /\ Len(pend) = Sector + 1 /\ pend[1] = Erase(0) /\ flash[0] = Erased
           /\ \A j \in 1..Sector : Restores(pend[j + 1], j - 1, i)
  <2>1. pend[1].kind = "erase" /\ pend[1].at = 0
    BY <1>2, <1>5 DEF Erase
  <2>2. ASSUME NEW c \in Nat PROVE SectorOf(c) = SectorOf(0) <=> c < Sector
    <3>1. SectorOf(0) = 0
      BY <1>2, SectorLemma
    <3>2. SectorOf(c) = 0 <=> 0 * Sector <= c /\ c < 0 * Sector + Sector
      BY SectorLemma
    <3> QED
      BY <1>2, <3>1, <3>2
  <2>3. \A c \in 0..(Sector - 1) : flash'[c] = Erased
    <3> SUFFICES ASSUME NEW c \in 0..(Sector - 1) PROVE flash'[c] = Erased
      OBVIOUS
    <3>1. c \in Cells /\ c \in Nat /\ c < Sector
      BY <1>2
    <3> QED
      BY <1>1, <2>1, <2>2, <3>1
  <2>4. \A c \in Sector..(BinLen(i) - 1) : flash'[c] = <<i, c>>
    <3> SUFFICES ASSUME NEW c \in Sector..(BinLen(i) - 1) PROVE flash'[c] = <<i, c>>
      OBVIOUS
    <3>1. c \in Cells /\ c \in Nat /\ ~(c < Sector) /\ flash[c] = <<i, c>>
      BY <1>2, <1>4
    <3> QED
      BY <1>1, <2>1, <2>2, <3>1
  <2>5. Len(pend') = Sector /\ \A j \in 1..Len(pend') : Restores(pend'[j], j - 1, i)
    BY <1>1, <1>2, <1>5
  <2>6. PICK a \in Nat : a = Sector - Len(pend') /\ a = 0
    BY <1>2, <2>5
  <2>7. \A j \in 1..Len(pend') : Restores(pend'[j], a + j - 1, i)
    <3>1. \A j \in 1..Len(pend') : a + j - 1 = j - 1
      BY <1>1, <2>6
    <3> QED
      BY <2>5, <3>1
  <2>8. /\ \A c \in 0..(a - 1) : c < BinLen(i) => flash'[c] = <<i, c>>
        /\ \A c \in a..(Sector - 1) : flash'[c] = Erased
    BY <2>3, <2>6
  <2>9. \A op, c : Restores(op, c, i)' <=> Restores(op, c, i)
    BY DEF Restores, BinLen
  <2>10. BinLen(i)' = BinLen(i)
    BY DEF BinLen
  <2> QED
    BY <1>0, <1>1, <2>4, <2>6, <2>7, <2>8, <2>9, <2>10 DEF LastWriting
<1>6. CASE LET a == Sector - Len(pend)
           IN  /\ a \in Nat
               /\ \A j \in 1..Len(pend) : Restores(pend[j], a + j - 1, i)
               /\ \A c \in 0..(a - 1) : c < BinLen(i) => flash[c] = <<i, c>>
               /\ \A c \in a..(Sector - 1) : flash[c] = Erased
  <2>1. PICK a \in Nat : a = Sector - Len(pend)
    BY <1>6
  <2>2. /\ \A j \in 1..Len(pend) : Restores(pend[j], a + j - 1, i)
        /\ \A c \in 0..(a - 1) : c < BinLen(i) => flash[c] = <<i, c>>
        /\ \A c \in a..(Sector - 1) : flash[c] = Erased
    BY <1>6, <2>1
  <2>3. a < Sector /\ a + 1 = Sector - Len(pend') /\ a \in 0..(Sector - 1) /\ a \in a..(Sector - 1)
    BY <1>1, <1>2, <2>1
  <2>4. pend[1].kind = "program" /\ pend[1].at = a /\ (a < BinLen(i) => pend[1].val = <<i, a>>)
    <3>1. 1 \in 1..Len(pend) /\ a + 1 - 1 = a
      BY <1>1
    <3>2. Restores(pend[1], a, i)
      BY <2>2, <3>1
    <3> QED
      BY <3>2 DEF Restores
  <2>5. \A c \in Cells : flash'[c] = IF c = a THEN Programmed(flash[c], pend[1].val) ELSE flash[c]
    BY <1>1, <2>4
  <2>6. a < BinLen(i) => flash'[a] = <<i, a>>
    <3>1. a \in Cells /\ flash[a] = Erased
      BY <1>2, <2>2, <2>3
    <3> QED
      BY <2>4, <2>5, <3>1, OnErased
  <2>7. ASSUME NEW c \in 0..a, c < BinLen(i) PROVE flash'[c] = <<i, c>>
    <3>1. CASE c = a
      BY <2>6, <2>7, <3>1
    <3>2. CASE c # a
      <4>1. c \in 0..(a - 1) /\ c \in 0..(Sector - 1)
        BY <1>2, <2>3, <3>2
      <4> QED
        BY <1>2, <2>2, <2>5, <2>7, <3>2, <4>1
    <3> QED
      BY <3>1, <3>2
  <2>8. ASSUME NEW c \in (a + 1)..(Sector - 1) PROVE flash'[c] = Erased
    <3>1. c \in a..(Sector - 1) /\ c \in 0..(Sector - 1) /\ c # a
      BY <1>2
    <3> QED
      BY <1>2, <2>2, <2>5, <3>1
  <2>9. \A c \in Sector..(BinLen(i) - 1) : flash'[c] = <<i, c>>
    <3> SUFFICES ASSUME NEW c \in Sector..(BinLen(i) - 1) PROVE flash'[c] = <<i, c>>
      OBVIOUS
    <3>1. c # a /\ c \in Cells /\ flash[c] = <<i, c>>
      BY <1>2, <1>4, <2>3
    <3> QED
      BY <2>5, <3>1
  <2>10. ASSUME NEW j \in 1..Len(pend') PROVE Restores(pend'[j], a + 1 + j - 1, i)
    <3>1. j + 1 \in 1..Len(pend) /\ pend'[j] = pend[j + 1] /\ a + (j + 1) - 1 = a + 1 + j - 1
      BY <1>1
    <3>2. Restores(pend[j + 1], a + (j + 1) - 1, i)
      BY <2>2, <3>1
    <3> QED
      BY <3>1, <3>2
  <2>11. PICK b \in Nat : b = a + 1
    OBVIOUS
  <2>12. /\ b = Sector - Len(pend')
         /\ \A j \in 1..Len(pend') : Restores(pend'[j], b + j - 1, i)
         /\ \A c \in 0..(b - 1) : c < BinLen(i) => flash'[c] = <<i, c>>
         /\ \A c \in b..(Sector - 1) : flash'[c] = Erased
    <3>1. b - 1 = a
      BY <2>11
    <3> QED
      BY <2>3, <2>7, <2>8, <2>10, <2>11, <3>1
  <2>13. \A op, c : Restores(op, c, i)' <=> Restores(op, c, i)
    BY DEF Restores, BinLen
  <2>14. BinLen(i)' = BinLen(i)
    BY DEF BinLen
  <2> QED
    BY <1>0, <1>1, <2>9, <2>11, <2>12, <2>13, <2>14 DEF LastWriting
<1> QED
  BY <1>0, <1>5, <1>6 DEF LastWriting

\* A command keeps the invariant.
LEMMA FlashStepKeeps ==
  ASSUME IInv, FlashStep
  PROVE  IInv'
<1>1. /\ pend # <<>> /\ Len(pend) \in Nat \ {0} /\ pend' \in Seq(Commands) /\ flash' \in [Cells -> Contents]
      /\ UNCHANGED <<stat, hdr, recv, first, saved, file, sent, outcome, clean>>
      /\ torn' = (torn /\ ~(pend[1].kind = "erase" /\ pend[1].at = 0))
  BY FlashStepFacts DEF IInv
<1>2. TypeInv /\ Counted /\ Phases
  BY DEF IInv
<1>3. TypeInv'
  <2>1. torn' \in BOOLEAN
    BY <1>1
  <2>2. /\ stat' \in {"none", "header", "data", "finish"} /\ hdr' \in Images \cup {NoImage}
        /\ recv' \in Nat /\ first' \in BOOLEAN
        /\ saved' = NoBuf \/ saved' \in [0..(Block - 1) -> Contents]
        /\ file' \in Images \cup {NoImage} /\ sent' \in Nat
        /\ outcome' \in Images \cup {"none", "failed", NoImage} /\ clean' \in BOOLEAN
    BY <1>1, <1>2 DEF TypeInv
  <2> QED
    BY <1>1, <2>1, <2>2 DEF TypeInv
<1>4. stat # "header" /\ (stat = "none" => outcome \in Images)
  BY <1>1, <1>2 DEF Counted
<1>5. BinLen(hdr)' = BinLen(hdr) /\ BinLen(outcome)' = BinLen(outcome)
  BY <1>1 DEF BinLen
<1>6. Counted'
  BY <1>1, <1>2, <1>4, <1>5 DEF Counted, Receiving
<1>7. Receiving' = Receiving
  BY <1>1 DEF Receiving
<1>8. Receiving \/ outcome \in Images
  BY <1>2, <1>4 DEF TypeInv, Receiving
<1>9. ASSUME Receiving PROVE Programming' \/ (Erasing' /\ (Len(pend) = Sectors(hdr) => Booted)')
  <2>1. CASE Programming
    BY <1>2, <1>9, <2>1, ProgrammingStep
  <2>2. CASE Erasing
    <3>1. Erasing' /\ flash'[0] = Erased
      BY <1>2, <1>9, <2>2, ErasingStep
    <3>2. Booted'
      BY <3>1, Different DEF Booted
    <3> QED
      BY <3>1, <3>2
  <2> QED
    BY <1>2, <1>9, <2>1, <2>2 DEF Phases
<1>10. ASSUME outcome \in Images PROVE LastWriting(outcome)'
  BY <1>2, <1>10, LastStep DEF Phases
<1>11. Phases'
  BY <1>1, <1>7, <1>8, <1>9, <1>10 DEF Phases
<1> QED
  BY <1>3, <1>6, <1>11 DEF IInv

\* With nothing left to do, the cells received are on the flash.
LEMMA Settled ==
  ASSUME IInv, Receiving, pend = <<>>
  PROVE  Programming
<1>1. TypeInv /\ Counted /\ Phases
  BY DEF IInv
<1>2. hdr \in Images /\ BinLen(hdr) < MaxBin /\ recv \in Nat /\ Len(pend) = 0
  BY <1>1 DEF Counted, TypeInv
<1>3. CASE Erasing
  <2>1. recv = 0 /\ Sectors(hdr) - Len(pend) = Sectors(hdr)
    BY <1>2, <1>3, SectorsLemma DEF Erasing
  <2>2. \A c \in Cells : c < Sectors(hdr) * Sector => flash[c] = Erased
    BY <1>3, <2>1 DEF Erasing
  <2>3. BinLen(hdr) \in Nat /\ BinLen(hdr) <= Sectors(hdr) * Sector /\ Sectors(hdr) \in Nat
    BY <1>2, SectorsLemma
  <2>4. Sectors(hdr) * Sector \in Nat
    BY <2>3, SectorLemma
  <2>5. \A c \in 0..(BinLen(hdr) - 1) : flash[c] = Erased
    <3> SUFFICES ASSUME NEW c \in 0..(BinLen(hdr) - 1) PROVE flash[c] = Erased
      OBVIOUS
    <3>1. c \in Nat /\ c < BinLen(hdr) /\ c < Area /\ c < Sectors(hdr) * Sector
      BY <1>2, <2>3, <2>4, Sizes
    <3> QED
      BY <2>2, <3>1, FirstCell
  <2>6. recv - Len(pend) = 0
    <3>1. recv = 0 /\ Len(pend) = 0
      BY <1>2, <2>1
    <3>2. recv - Len(pend) = 0 - 0
      BY <3>1, Zenon
    <3> QED
      BY <3>2, SMT
  <2> QED
    BY <1>2, <2>5, <2>6 DEF Programming
<1> QED
  BY <1>1, <1>3 DEF Phases

\* An image whose first cell is on the flash is there, but for what an end
\* has yet to write of the first sector.
LEMMA WhileBooted ==
  ASSUME IInv, NEW i \in Images, flash[0] = <<i, 0>>
  PROVE  /\ Holds(i, Sector..(Area - 1))
         /\ \/ Holds(i, 0..(Sector - 1)) \/ torn
            \/ pend # <<>> /\ outcome = i /\ Head(pend).kind = "program"
<1>1. TypeInv /\ Counted /\ Phases
  BY DEF IInv
<1>2. Sector \in Nat \ {0} /\ Block \in Nat \ {0} /\ Area \in Nat \ {0} /\ pend \in Seq(Commands) /\ recv \in Nat
  BY <1>1, Sizes DEF TypeInv
<1>3. flash[0] # Erased
  BY Different
<1>4. CASE Booted
  BY <1>4 DEF Booted
<1>5. CASE Receiving
  <2>1. hdr \in Images
    BY <1>1, <1>5 DEF Counted
  <2>2. BinLen(hdr) \in Nat /\ 0 < BinLen(hdr) /\ Sectors(hdr) \in Nat
    BY <2>1, SectorsLemma
  <2>3. CASE Programming
    <3>1. PICK a \in Nat : a = recv - Len(pend)
      BY <2>3 DEF Programming
    <3>2. /\ \A c \in 0..(a - 1) : Right(c, flash[c])
          /\ \A c \in a..(BinLen(hdr) - 1) : flash[c] = Erased
      BY <2>3, <3>1 DEF Programming
    <3>3. a = 0 => 0 \in a..(BinLen(hdr) - 1)
      BY <2>2
    <3>4. a # 0 => 0 \in 0..(a - 1)
      OBVIOUS
    <3>5. Right(0, flash[0]) => flash[0] = Erased
      BY <1>2 DEF Right
    <3> QED
      BY <1>3, <3>2, <3>3, <3>4, <3>5
  <2>4. CASE Erasing /\ (Len(pend) = Sectors(hdr) => Booted)
    <3>1. PICK s \in Nat : s = Sectors(hdr) - Len(pend)
      BY <2>4 DEF Erasing
    <3>2. CASE s = 0
      <4>1. Len(pend) = Sectors(hdr)
        BY <1>2, <2>2, <3>1, <3>2
      <4> QED
        BY <1>4, <2>4, <4>1
    <3>3. CASE s # 0
      <4>1. 1 * Sector <= s * Sector
        BY <1>2, <3>3, Monotone
      <4>2. s * Sector \in Nat
        BY SectorLemma
      <4>3. 0 < s * Sector
        BY <1>2, <4>1, <4>2
      <4>4. \A c \in Cells : c < s * Sector => flash[c] = Erased
        BY <2>4, <3>1 DEF Erasing
      <4> QED
        BY <1>3, <4>3, <4>4, FirstCell
    <3> QED
      BY <3>2, <3>3
  <2> QED
    BY <1>1, <1>5, <2>3, <2>4 DEF Phases
<1>6. CASE outcome \in Images
  <2>1. PICK k \in Images : k = outcome
    BY <1>6
  <2>2. LastWriting(k)
    BY <1>1, <2>1 DEF Phases
  <2>3. BinLen(k) \in Nat /\ 0 < BinLen(k)
    BY SectorsLemma
  <2>4. PICK a \in Nat : a = Sector - Len(pend)
    BY <1>3, <2>2 DEF LastWriting
  <2>5. /\ \A c \in Sector..(BinLen(k) - 1) : flash[c] = <<k, c>>
        /\ \A j \in 1..Len(pend) : Restores(pend[j], a + j - 1, k)
        /\ \A c \in 0..(a - 1) : c < BinLen(k) => flash[c] = <<k, c>>
        /\ \A c \in a..(Sector - 1) : flash[c] = Erased
    BY <1>3, <2>2, <2>4 DEF LastWriting
  <2>6. a # 0
    <3>1. a = 0 => 0 \in a..(Sector - 1)
      BY <1>2
    <3> QED
      BY <1>3, <2>5, <3>1
  <2>7. flash[0] = <<k, 0>>
    <3>1. 0 \in 0..(a - 1)
      BY <2>6
    <3> QED
      BY <2>3, <2>5, <3>1
  <2>8. i = k
    BY <2>7
  <2>9. Holds(i, Sector..(Area - 1))
    <3> SUFFICES ASSUME NEW c \in (Sector..(Area - 1)) \cap 0..(BinLen(i) - 1) PROVE flash[c] = <<i, c>>
      BY DEF Holds
    <3>1. c \in Sector..(BinLen(k) - 1)
      BY <1>2, <2>3, <2>8
    <3> QED
      BY <2>5, <2>8, <3>1
  <2>10. CASE pend = <<>>
    <3>1. Len(pend) = 0
      BY <2>10
    <3>2. a = Sector
      BY <1>2, <2>4, <3>1
    <3> SUFFICES ASSUME NEW c \in (0..(Sector - 1)) \cap 0..(BinLen(i) - 1) PROVE flash[c] = <<i, c>>
      BY <2>9 DEF Holds
    <3>3. c \in 0..(a - 1) /\ c < BinLen(k)
      BY <1>2, <2>3, <2>8, <3>2
    <3> QED
      BY <2>5, <2>8, <3>3
  <2>11. CASE pend # <<>>
    <3>1. Len(pend) \in Nat \ {0} /\ Head(pend) = pend[1]
      BY <1>2, <2>11, HeadAndTail
    <3>2. 1 \in 1..Len(pend)
      BY <3>1
    <3>3. Head(pend).kind = "program"
      BY <2>5, <3>1, <3>2 DEF Restores
    <3> QED
      BY <2>1, <2>8, <2>9, <2>11, <3>3
  <2> QED
    BY <2>10, <2>11
<1> QED
  BY <1>1, <1>4, <1>5, <1>6 DEF Phases

\* When nothing is left to do, the flash can be booted from.
LEMMA BootedAgain ==
  ASSUME IInv, pend = <<>>
  PROVE  Booted
  BY WhileBooted DEF Booted

\* An image whose header is on the flash begins with its first cell.
LEMMA HeaderIsFirstCell ==
  ASSUME NEW i \in Images, HasHeader(i)
  PROVE  flash[0] = <<i, 0>>
<1>1. 0 \in (0..(Block - 1)) \cap 0..(BinLen(i) - 1)
  BY Sizes, SectorsLemma
<1> QED
  BY <1>1 DEF HasHeader, Holds

LEMMA WholeWhenHeader ==
  ASSUME IInv
  PROVE  HeaderMeansWhole
<1> SUFFICES ASSUME NEW i \in Images, HasHeader(i)
             PROVE  /\ Holds(i, Sector..(Area - 1))
                    /\ Holds(i, 0..(Sector - 1)) \/ torn \/ (pend # <<>> /\ outcome = i)
  BY DEF HeaderMeansWhole
<1> QED
  BY HeaderIsFirstCell, WhileBooted

LEMMA InstalledWhenOk ==
  ASSUME IInv
  PROVE  OkMeansInstalled
<1> SUFFICES ASSUME outcome \in Images, pend = <<>> PROVE Holds(outcome, Cells)
  BY DEF OkMeansInstalled
<1>1. PICK k \in Images : k = outcome
  OBVIOUS
<1>2. LastWriting(k) /\ Len(pend) = 0 /\ Sector \in Nat \ {0}
  BY <1>1, Sizes DEF IInv, Phases
<1>3. Len(pend) # Sector + 1
  BY <1>2
<1>4. PICK a \in Nat : a = Sector - Len(pend)
  BY <1>2, <1>3 DEF LastWriting
<1>5. /\ \A c \in Sector..(BinLen(k) - 1) : flash[c] = <<k, c>>
      /\ \A c \in 0..(a - 1) : c < BinLen(k) => flash[c] = <<k, c>>
  BY <1>2, <1>3, <1>4 DEF LastWriting
<1>6. a = Sector /\ BinLen(k) \in Nat
  BY <1>2, <1>4, SectorsLemma
<1> SUFFICES ASSUME NEW c \in 0..(BinLen(k) - 1) PROVE flash[c] = <<k, c>>
  BY <1>1 DEF Holds
<1>7. c \in Sector..(BinLen(k) - 1) \/ (c \in 0..(a - 1) /\ c < BinLen(k))
  BY <1>2, <1>6
<1> QED
  BY <1>5, <1>7

LEMMA VerifiesUndamaged ==
  ASSUME IInv
  PROVE  UndamagedVerifies
<1> SUFFICES ASSUME stat = "finish", clean, pend = <<>> PROVE SumMatches
  BY DEF UndamagedVerifies
<1>1. Receiving
  BY DEF Receiving
<1>2. TypeInv /\ Counted /\ Programming
  BY <1>1, Settled DEF IInv
<1>3. hdr \in Images /\ recv = BinLen(hdr) /\ (first => recv = 0)
  BY <1>1, <1>2 DEF Counted
<1>4. BinLen(hdr) \in Nat /\ 0 < BinLen(hdr) /\ Block \in Nat \ {0} /\ Len(pend) = 0
  BY <1>3, SectorsLemma, Sizes
<1>5. ~first
  BY <1>3, <1>4
<1>6. saved \in [0..(Block - 1) -> Contents] /\ \A k \in 0..(Block - 1) : saved[k] = <<hdr, k>>
  BY <1>1, <1>2, <1>5 DEF Counted
<1>7. saved # NoBuf
  <2>1. 0 \in DOMAIN saved
    BY <1>4, <1>6
  <2>2. 0 \notin DOMAIN NoBuf
    BY DEF NoBuf
  <2> QED
    BY <2>1, <2>2
<1>8. PICK a \in Nat : a = recv - Len(pend)
  BY <1>2 DEF Programming
<1>9. a = BinLen(hdr) /\ \A c \in 0..(a - 1) : Right(c, flash[c])
  BY <1>2, <1>3, <1>4, <1>8 DEF Programming
<1>10. ASSUME NEW c \in 0..(BinLen(hdr) - 1) PROVE Assembled(c) = <<hdr, c>>
  <2>1. CASE c < Block
    <3>1. c \in 0..(Block - 1) /\ c \in DOMAIN saved
      BY <1>4, <1>6, <2>1
    <3> QED
      BY <1>6, <3>1 DEF Assembled
  <2>2. CASE ~(c < Block)
    <3>1. c \notin DOMAIN saved
      BY <1>4, <1>6, <2>2
    <3>2. Right(c, flash[c])
      BY <1>9
    <3> QED
      BY <2>2, <3>1, <3>2 DEF Assembled, Right
  <2> QED
    BY <2>1, <2>2
<1> QED
  BY <1>7, <1>10 DEF SumMatches

LEMMA ErasedWhenProgrammed ==
  ASSUME IInv
  PROVE  ProgramsErased
<1>1. TypeInv /\ Counted /\ Phases
  BY DEF IInv
<1>2. /\ pend \in Seq(Commands) /\ Len(pend) \in Nat /\ DOMAIN pend = 1..Len(pend) /\ recv \in Nat
      /\ Sector \in Nat \ {0} /\ Sector <= Area /\ Area \in Nat /\ MaxBin <= Area /\ MaxBin \in Nat
  BY <1>1, Sizes, AreaLemma DEF TypeInv
<1>3. pend # <<>> => 1 \in 1..Len(pend) /\ Head(pend) = pend[1]
  <2> SUFFICES ASSUME pend # <<>> PROVE 1 \in 1..Len(pend) /\ Head(pend) = pend[1]
    OBVIOUS
  <2>1. Len(pend) \in Nat \ {0} /\ Head(pend) = pend[1]
    BY <1>2, HeadAndTail
  <2> QED
    BY <2>1
<1>4. CASE Receiving
  <2>1. hdr \in Images /\ recv <= BinLen(hdr) /\ BinLen(hdr) < MaxBin
    BY <1>1, <1>4 DEF Counted
  <2>2. /\ BinLen(hdr) \in Nat /\ Sectors(hdr) \in Nat
        /\ \A s \in Nat : s < Sectors(hdr) => s * Sector < BinLen(hdr)
    BY <2>1, SectorsLemma
  <2>3. CASE Programming
    <3>1. PICK a \in Nat : a = recv - Len(pend)
      BY <2>3 DEF Programming
    <3>2. /\ \A j \in 1..Len(pend) : pend[j].kind = "program" /\ pend[j].at = a + j - 1
          /\ \A c \in a..(BinLen(hdr) - 1) : flash[c] = Erased
      BY <2>3, <3>1 DEF Programming
    <3>3. ASSUME NEW j \in DOMAIN pend PROVE pend[j].at \in Cells
      <4>1. j \in 1..Len(pend) /\ a + j - 1 \in Nat /\ a + j - 1 < Area
        BY <1>2, <2>1, <2>2, <3>1
      <4> QED
        BY <3>2, <4>1, FirstCell
    <3>4. ASSUME pend # <<>> PROVE flash[Head(pend).at] = Erased
      <4>1. 1 \in 1..Len(pend) /\ a \in a..(BinLen(hdr) - 1) /\ a + 1 - 1 = a
        BY <1>2, <1>3, <2>1, <2>2, <3>1, <3>4
      <4>2. pend[1].at = a /\ Head(pend) = pend[1]
        BY <1>3, <3>2, <3>4, <4>1
      <4> QED
        BY <3>2, <4>1, <4>2
    <3> QED
      BY <3>3, <3>4 DEF ProgramsErased
  <2>4. CASE Erasing
    <3>1. PICK s \in Nat : s = Sectors(hdr) - Len(pend)
      BY <2>4 DEF Erasing
    <3>2. \A j \in 1..Len(pend) : pend[j] = Erase(s + j - 1)
      BY <2>4, <3>1 DEF Erasing
    <3>3. ASSUME NEW j \in DOMAIN pend PROVE pend[j].at \in Cells /\ pend[j].kind = "erase"
      <4>1. PICK t \in Nat : t = s + j - 1
        BY <1>2
      <4>2. t < Sectors(hdr) /\ j \in 1..Len(pend)
        BY <1>2, <2>2, <3>1, <4>1
      <4>3. pend[j].kind = "erase" /\ pend[j].at = t * Sector
        <5>1. pend[j] = Erase(t)
          BY <3>2, <4>1, <4>2
        <5> QED
          BY <5>1 DEF Erase
      <4>4. t * Sector \in Nat /\ t * Sector < BinLen(hdr)
        BY <2>2, <4>2, SectorLemma
      <4>5. t * Sector < Area
        BY <1>2, <2>1, <2>2, <4>4
      <4> QED
        BY <4>3, <4>4, <4>5, FirstCell
    <3> QED
      BY <1>2, <1>3, <3>3 DEF ProgramsErased
  <2> QED
    BY <1>1, <1>4, <2>3, <2>4 DEF Phases
<1>5. CASE outcome \in Images
  <2>1. PICK k \in Images : k = outcome
    BY <1>5
  <2>2. LastWriting(k)
    BY <1>1, <2>1 DEF Phases
  <2>3. CASE Len(pend) = Sector + 1 /\ pend[1] = Erase(0) /\ \A j \in 1..Sector : Restores(pend[j + 1], j - 1, k)
    <3>1. pend[1].at = 0 /\ pend[1].kind = "erase"
      BY <1>2, <2>3 DEF Erase
    <3>2. ASSUME NEW j \in DOMAIN pend PROVE pend[j].at \in Cells
      <4>1. CASE j = 1
        BY <3>1, <4>1, FirstCell
      <4>2. CASE j # 1
        <5>1. PICK m \in 1..Sector : m + 1 = j
          <6>1. j - 1 \in 1..Sector /\ (j - 1) + 1 = j
            BY <1>2, <2>3, <4>2
          <6> QED
            BY <6>1
        <5>2. m - 1 \in Nat /\ m - 1 < Area
          BY <1>2
        <5>3. pend[j].at = m - 1
          BY <2>3, <5>1 DEF Restores
        <5> QED
          BY <5>2, <5>3, FirstCell
      <4> QED
        BY <4>1, <4>2
    <3> QED
      BY <1>3, <3>1, <3>2 DEF ProgramsErased
  <2>4. CASE LET a == Sector - Len(pend)
             IN  /\ a \in Nat
                 /\ \A j \in 1..Len(pend) : Restores(pend[j], a + j - 1, k)
                 /\ \A c \in a..(Sector - 1) : flash[c] = Erased
    <3>1. PICK a \in Nat : a = Sector - Len(pend)
      BY <2>4
    <3>2. /\ \A j \in 1..Len(pend) : pend[j].at = a + j - 1
          /\ \A c \in a..(Sector - 1) : flash[c] = Erased
      BY <2>4, <3>1 DEF Restores
    <3>3. ASSUME NEW j \in DOMAIN pend PROVE pend[j].at \in Cells
      <4>1. j \in 1..Len(pend) /\ a + j - 1 \in Nat /\ a + j - 1 < Area
        BY <1>2, <3>1
      <4> QED
        BY <3>2, <4>1, FirstCell
    <3>4. ASSUME pend # <<>> PROVE flash[Head(pend).at] = Erased
      <4>1. 1 \in 1..Len(pend) /\ a \in a..(Sector - 1) /\ a + 1 - 1 = a
        BY <1>2, <1>3, <3>1, <3>4
      <4>2. pend[1].at = a /\ Head(pend) = pend[1]
        BY <1>3, <3>2, <3>4, <4>1
      <4> QED
        BY <3>2, <4>1, <4>2
    <3> QED
      BY <3>3, <3>4 DEF ProgramsErased
  <2> QED
    BY <2>2, <2>3, <2>4 DEF LastWriting
<1>6. CASE ~Receiving /\ outcome \notin Images
  <2>1. pend = <<>>
    BY <1>1, <1>6 DEF Counted, Receiving, TypeInv
  <2> QED
    BY <1>2, <2>1 DEF ProgramsErased
<1> QED
  BY <1>4, <1>5, <1>6

-----------------------------------------------------------------------------
(* The operations.                                                         *)

\* What is on the flash between upgrades does not depend on the rest.
LEMMA SameBooted ==
  ASSUME Booted, flash' = flash, torn => torn'
  PROVE  Booted'
  BY DEF Booted, Holds, BinLen

LEMMA StartKeeps ==
  ASSUME IInv, NEW i \in Images, Start(i)
  PROVE  IInv'
<1>1. TypeInv /\ Counted /\ pend = <<>> /\ Booted
  BY BootedAgain DEF IInv, Start
<1>2. TypeInv'
  <2>1. 0 \in Nat /\ NoImage \in Images \cup {NoImage} /\ "none" \in Images \cup {"none", "failed", NoImage}
    OBVIOUS
  <2> QED
    BY <1>1, <2>1 DEF TypeInv, Start
<1>3. outcome' \notin Images /\ ~Receiving'
  BY ImagesAssumption DEF Start, Receiving
<1>4. Counted'
  BY <1>1, <1>3 DEF Counted, Start, Receiving
<1>5. Booted'
  BY <1>1, SameBooted DEF Start
<1> QED
  BY <1>2, <1>3, <1>4, <1>5 DEF IInv, Phases

LEMMA ErasesTypes ==
  ASSUME NEW i \in Images
  PROVE  /\ Erases(BinLen(i)) \in Seq(Commands) /\ Len(Erases(BinLen(i))) = Sectors(i)
         /\ \A j \in 1..Sectors(i) : Erases(BinLen(i))[j] = Erase(j - 1)
<1>1. Sectors(i) \in Nat
  BY SectorsLemma
<1>2. PICK K \in Nat : K = Sectors(i)
  BY <1>1
<1>3. Erases(BinLen(i)) = [j \in 1..K |-> Erase(j - 1)]
  BY <1>2 DEF Erases, Sectors
<1>4. \A j \in 1..K : Erase(j - 1) \in Commands
  <2> SUFFICES ASSUME NEW j \in 1..K PROVE Erase(j - 1) \in Commands
    OBVIOUS
  <2>1. PICK t \in Nat : t = j - 1
    BY <1>2
  <2>2. t * Sector \in Nat
    BY SectorLemma
  <2>3. Erased \in Contents
    BY DEF Erased, Contents
  <2>4. Erase(t) \in Commands
    BY <2>2, <2>3 DEF Erase, Commands
  <2> QED
    BY <2>1, <2>4
<1> QED
  BY <1>2, <1>3, <1>4

LEMMA HeaderPackKeeps ==
  ASSUME IInv, NEW ok \in BOOLEAN, HeaderPack(ok)
  PROVE  IInv'
<1>1. TypeInv /\ Counted /\ pend = <<>> /\ stat = "header" /\ Booted
  BY BootedAgain DEF IInv, HeaderPack
<1>2. /\ recv = 0 /\ first /\ outcome = "none" /\ hdr = NoImage /\ file \in Images
      /\ outcome' = outcome /\ first' = first /\ flash' = flash /\ torn' = torn
      /\ saved' = saved /\ file' = file /\ clean' = clean
  BY <1>1 DEF Counted, Receiving, HeaderPack
<1>3. outcome \notin Images
  BY <1>2, ImagesAssumption
<1>4. Booted'
  BY <1>1, <1>2, SameBooted
<1>5. CASE hdr' = NoImage /\ UNCHANGED <<stat, recv, sent, pend>>
  <2>1. TypeInv'
    BY <1>1, <1>2, <1>5 DEF TypeInv
  <2>2. Counted'
    BY <1>1, <1>2, <1>3, <1>5 DEF Counted, Receiving
  <2> QED
    BY <1>1, <1>2, <1>3, <1>4, <1>5, <2>1, <2>2 DEF IInv, Phases, Receiving
<1>6. CASE /\ ok /\ Fits(BinLen(file))
           /\ hdr' = file /\ stat' = "data" /\ recv' = 0 /\ sent' = 1
           /\ pend' = Erases(BinLen(file))
  <2>1. PICK i \in Images : i = file
    BY <1>2
  <2>2. /\ BinLen(i) \in Nat /\ 0 < BinLen(i) /\ BinLen(i) < MaxBin
        /\ BinLen(hdr)' = BinLen(i) /\ Sectors(hdr)' = Sectors(i)
        /\ Sectors(i) \in Nat
    BY <1>6, <2>1, SectorsLemma DEF Fits, BinLen, Sectors
  <2>3. /\ pend' \in Seq(Commands) /\ Len(pend') = Sectors(i)
        /\ \A j \in 1..Len(pend') : pend'[j] = Erase(j - 1)
    BY <1>6, <2>1, ErasesTypes
  <2>4. TypeInv'
    BY <1>1, <1>2, <1>6, <2>3 DEF TypeInv
  <2>5. Counted'
    BY <1>2, <1>3, <1>6, <2>1, <2>2 DEF Counted, Receiving
  <2>6. Erasing'
    <3>1. PICK s \in Nat : s = Sectors(i) - Len(pend') /\ s = 0
      BY <2>2, <2>3
    <3>2. ASSUME NEW j \in 1..Len(pend') PROVE pend'[j] = Erase(s + j - 1)
      <4>1. s + j - 1 = j - 1
        BY <3>1
      <4> QED
        BY <2>3, <4>1
    <3>3. ASSUME NEW c \in Cells, c < s * Sector PROVE FALSE
      BY <3>1, <3>3, Sizes DEF Cells
    <3> QED
      BY <1>6, <2>2, <3>1, <3>2, <3>3 DEF Erasing
  <2> QED
    BY <1>2, <1>3, <1>4, <2>4, <2>5, <2>6, <1>6 DEF IInv, Phases, Receiving
<1> QED
  BY <1>5, <1>6 DEF HeaderPack

\* What the flash holds while an upgrade is received, and does not use a call.
LEMMA SameProgramming ==
  ASSUME Programming, UNCHANGED <<flash, pend, hdr, recv, clean>>
  PROVE  Programming'
<1>1. BinLen(hdr)' = BinLen(hdr)
  BY DEF BinLen
<1>2. \A c, x : Right(c, x)' <=> Right(c, x)
  BY DEF Right
<1> QED
  BY <1>1, <1>2 DEF Programming

LEMMA DataNoMemoryKeeps ==
  ASSUME IInv, NEW n \in 1..MaxPack, DataNoMemory(n)
  PROVE  IInv'
<1>1. TypeInv /\ Counted /\ pend = <<>> /\ stat = "data" /\ Receiving /\ first
  BY DEF IInv, DataNoMemory, Receiving
<1>2. hdr \in Images /\ file = hdr /\ outcome = "none" /\ recv \in Nat
  BY <1>1 DEF Counted, TypeInv
<1>3. /\ UNCHANGED <<flash, pend, stat, hdr, recv, first, file, sent, outcome, clean, torn>>
      /\ saved' = [k \in 0..(Block - 1) |-> <<file, recv + k>>]
  BY DEF DataNoMemory, caller
<1>4. saved' \in [0..(Block - 1) -> Contents]
  <2>1. \A k \in 0..(Block - 1) : recv + k \in Nat
    BY <1>2, Sizes
  <2>2. \A k \in 0..(Block - 1) : <<file, recv + k>> \in Contents
    BY <1>2, <2>1 DEF Contents
  <2> QED
    BY <1>3, <2>2
<1>5. TypeInv'
  BY <1>1, <1>3, <1>4 DEF TypeInv
<1>6. Counted'
  <2>1. BinLen(hdr)' = BinLen(hdr)
    BY <1>3 DEF BinLen
  <2>2. outcome' \notin Images
    BY <1>2, <1>3, ImagesAssumption
  <2> QED
    BY <1>1, <1>2, <1>3, <2>1, <2>2 DEF Counted, Receiving
<1>7. Programming'
  <2>1. Programming
    BY <1>1, Settled
  <2> QED
    BY <1>3, <2>1, SameProgramming
<1>8. outcome' \notin Images /\ Receiving'
  BY <1>1, <1>2, <1>3, ImagesAssumption DEF Receiving
<1> QED
  BY <1>5, <1>6, <1>7, <1>8 DEF IInv, Phases

\* An erasure beyond the first sector finds no image at the flash's start.
LEMMA ErasureLater ==
  ASSUME IInv, pend # <<>>, Head(pend).kind = "erase", SectorOf(Head(pend).at) # SectorOf(0)
  PROVE  flash[0] = Erased
<1>1. TypeInv /\ Counted /\ Phases
  BY DEF IInv
<1>2. /\ pend \in Seq(Commands) /\ Len(pend) \in Nat \ {0} /\ Head(pend) = pend[1] /\ 1 \in 1..Len(pend)
      /\ Sector \in Nat \ {0}
  <2>1. pend \in Seq(Commands)
    BY <1>1 DEF TypeInv
  <2>2. Len(pend) \in Nat \ {0} /\ Head(pend) = pend[1]
    BY <2>1, HeadAndTail
  <2> QED
    BY <2>1, <2>2, Sizes
<1>3. CASE Receiving
  <2>1. hdr \in Images
    BY <1>1, <1>3 DEF Counted
  <2>2. CASE Programming
    BY <1>2, <2>2 DEF Programming
  <2>3. CASE Erasing
    <3>1. PICK s \in Nat : s = Sectors(hdr) - Len(pend)
      BY <2>3 DEF Erasing
    <3>2. /\ \A j \in 1..Len(pend) : pend[j] = Erase(s + j - 1)
          /\ \A c \in Cells : c < s * Sector => flash[c] = Erased
      BY <2>3, <3>1 DEF Erasing
    <3>3. s # 0
      <4> SUFFICES ASSUME s = 0 PROVE FALSE
        OBVIOUS
      <4>1. pend[1] = Erase(0)
        <5>1. s + 1 - 1 = 0
          OBVIOUS
        <5> QED
          BY <1>2, <3>2, <5>1
      <4>2. pend[1].at = 0
        BY <1>2, <4>1 DEF Erase
      <4> QED
        BY <1>2, <4>2
    <3>4. 1 * Sector <= s * Sector
      BY <1>2, <3>3, Monotone
    <3>5. s * Sector \in Nat
      BY SectorLemma
    <3>6. 0 < s * Sector
      BY <1>2, <3>4, <3>5
    <3> QED
      BY <3>2, <3>6, FirstCell
  <2> QED
    BY <1>1, <1>3, <2>2, <2>3 DEF Phases
<1>4. CASE outcome \in Images
  <2>1. PICK k \in Images : k = outcome
    BY <1>4
  <2>2. LastWriting(k)
    BY <1>1, <2>1 DEF Phases
  <2>3. CASE flash[0] = Erased
    BY <2>3
  <2>4. CASE LET a == Sector - Len(pend)
             IN  a \in Nat /\ \A j \in 1..Len(pend) : Restores(pend[j], a + j - 1, k)
    <3>1. PICK a \in Nat : a = Sector - Len(pend)
      BY <2>4
    <3>2. \A j \in 1..Len(pend) : Restores(pend[j], a + j - 1, k)
      BY <2>4, <3>1
    <3> QED
      BY <1>2, <3>2 DEF Restores
  <2> QED
    BY <2>2, <2>3, <2>4 DEF LastWriting
<1>5. CASE ~Receiving /\ outcome \notin Images
  BY <1>1, <1>5 DEF Counted, Receiving, TypeInv
<1> QED
  BY <1>3, <1>4, <1>5

LEMMA CrashKeeps ==
  ASSUME IInv, Crash
  PROVE  IInv'
<1>1. TypeInv /\ Counted
  BY DEF IInv
<1>2. Erased \in Contents /\ Mixed \in Contents
  BY DEF Erased, Mixed, Contents
<1>3. flash' \in [Cells -> Contents]
  <2>1. flash \in [Cells -> Contents]
    BY <1>1 DEF TypeInv
  <2>2. CASE UNCHANGED flash
    BY <2>1, <2>2
  <2>3. CASE flash' = [c \in Cells |-> IF SectorOf(c) = SectorOf(Head(pend).at) THEN Mixed ELSE flash[c]]
    BY <1>2, <2>1, <2>3
  <2> QED
    BY <2>2, <2>3 DEF Crash
<1>4. torn' \in BOOLEAN /\ pend' \in Seq(Commands)
  BY <1>1 DEF Crash, TypeInv
<1>5. TypeInv'
  BY <1>3, <1>4 DEF TypeInv, Crash
<1>6. outcome' \notin Images /\ ~Receiving'
  BY ImagesAssumption DEF Crash, Receiving
<1>7. Counted'
  BY <1>6 DEF Counted, Crash, Receiving
<1>8. ASSUME NEW i \in Images, flash'[0] = <<i, 0>>
      PROVE  flash' = flash /\ flash[0] = <<i, 0>>
  <2>1. CASE UNCHANGED flash
    BY <1>8, <2>1
  <2>2. CASE /\ pend # <<>> /\ Head(pend).kind = "erase"
             /\ flash' = [c \in Cells |-> IF SectorOf(c) = SectorOf(Head(pend).at) THEN Mixed ELSE flash[c]]
    <3>1. CASE SectorOf(Head(pend).at) = SectorOf(0)
      BY <1>8, <2>2, <3>1, FirstCell, Different
    <3>2. CASE SectorOf(Head(pend).at) # SectorOf(0)
      <4>1. flash[0] = Erased
        BY <2>2, <3>2, ErasureLater
      <4>2. flash'[0] = Erased
        BY <2>2, <3>2, <4>1, FirstCell
      <4> QED
        BY <1>8, <4>2, Different
    <3> QED
      BY <3>1, <3>2
  <2> QED
    BY <2>1, <2>2 DEF Crash
<1>9. Booted'
  <2> SUFFICES ASSUME NEW i \in Images, flash'[0] = <<i, 0>>
               PROVE  /\ Holds(i, Sector..(Area - 1))'
                      /\ Holds(i, 0..(Sector - 1))' \/ torn'
    BY DEF Booted
  <2>1. flash' = flash /\ flash[0] = <<i, 0>>
    BY <1>8
  <2>2. /\ Holds(i, Sector..(Area - 1))
        /\ \/ Holds(i, 0..(Sector - 1)) \/ torn
           \/ pend # <<>> /\ outcome = i /\ Head(pend).kind = "program"
    BY <2>1, WhileBooted
  <2>3. torn' = (torn \/ (pend # <<>> /\ Head(pend).kind = "program" /\ outcome \in Images))
    BY DEF Crash
  <2>4. Holds(i, Sector..(Area - 1))' /\ (Holds(i, 0..(Sector - 1))' <=> Holds(i, 0..(Sector - 1)))
    BY <2>1, <2>2 DEF Holds, BinLen
  <2> QED
    BY <2>2, <2>3, <2>4
<1> QED
  BY <1>5, <1>6, <1>7, <1>9 DEF IInv, Phases

\* The commands that write n cells.
LEMMA ProgramsTypes ==
  ASSUME NEW c \in Nat, NEW n \in Nat, NEW v, \A j \in 1..n : v[c + j - 1] \in Contents
  PROVE  /\ Programs(c, n, v) \in Seq(Commands) /\ Len(Programs(c, n, v)) = n
         /\ \A j \in 1..n : Programs(c, n, v)[j] = Program(c + j - 1, v[c + j - 1])
<1>1. \A j \in 1..n : Program(c + j - 1, v[c + j - 1]) \in Commands
  <2> SUFFICES ASSUME NEW j \in 1..n PROVE Program(c + j - 1, v[c + j - 1]) \in Commands
    OBVIOUS
  <2>1. c + j - 1 \in Nat
    OBVIOUS
  <2> QED
    BY <2>1 DEF Program, Commands
<1>2. Programs(c, n, v) = [j \in 1..n |-> Program(c + j - 1, v[c + j - 1])]
  BY DEF Programs
<1> QED
  BY <1>1, <1>2

\* The last write of an end: an erasure and a sector's cells.
LEMMA LastWriteTypes ==
  ASSUME IInv, pend = <<>>, Receiving, SumMatches
  PROVE  /\ LastWrite \in Seq(Commands) /\ Len(LastWrite) = Sector + 1 /\ LastWrite[1] = Erase(0)
         /\ \A j \in 1..Sector : Restores(LastWrite[j + 1], j - 1, hdr)
         /\ \A c \in Sector..(BinLen(hdr) - 1) : flash[c] = <<hdr, c>>
<1>1. TypeInv /\ hdr \in Images /\ BinLen(hdr) < MaxBin
  BY DEF IInv, Counted
<1>2. BinLen(hdr) \in Nat /\ Sector \in Nat \ {0} /\ Block \in Nat \ {0} /\ Block <= Sector
      /\ Area \in Nat /\ Sector <= Area /\ BinLen(hdr) < Area
  BY <1>1, SectorsLemma, Sizes, AreaLemma
<1>3. saved \in [0..(Block - 1) -> Contents] /\ \A c \in 0..(BinLen(hdr) - 1) : Assembled(c) = <<hdr, c>>
  BY <1>1, Different DEF SumMatches, TypeInv
<1>4. ASSUME NEW c \in Sector..(BinLen(hdr) - 1) PROVE flash[c] = <<hdr, c>>
  <2>1. c \in 0..(BinLen(hdr) - 1) /\ c \notin 0..(Block - 1)
    BY <1>2
  <2> QED
    BY <1>3, <2>1 DEF Assembled
<1> DEFINE V == [c \in Cells |-> Assembled(c)]
<1>5. ASSUME NEW c \in 0..(Sector - 1)
      PROVE  c \in Cells /\ V[c] = Assembled(c) /\ V[c] \in Contents
  <2>1. c \in Nat /\ c < Area
    BY <1>2
  <2>2. c \in Cells
    BY <2>1, FirstCell
  <2>3. flash[c] \in Contents
    BY <1>1, <2>2 DEF TypeInv
  <2>4. Assembled(c) \in Contents
    BY <1>3, <2>3 DEF Assembled
  <2> QED
    BY <2>2, <2>4
<1>6. LastWrite = <<Erase(0)>> \o Programs(0, Sector, V)
  BY <1>1, Different DEF LastWrite
<1> HIDE DEF V
<1>7. ASSUME NEW j \in 1..Sector PROVE 0 + j - 1 = j - 1 /\ j - 1 \in 0..(Sector - 1) /\ V[0 + j - 1] \in Contents
  <2>1. 0 + j - 1 = j - 1 /\ j - 1 \in 0..(Sector - 1)
    BY <1>2
  <2> QED
    BY <1>5, <2>1
<1>8. /\ Programs(0, Sector, V) \in Seq(Commands) /\ Len(Programs(0, Sector, V)) = Sector
      /\ \A j \in 1..Sector : Programs(0, Sector, V)[j] = Program(0 + j - 1, V[0 + j - 1])
  BY <1>2, <1>7, ProgramsTypes
<1>9. Erase(0) \in Commands
  <2>1. 0 * Sector \in Nat
    BY SectorLemma
  <2>2. Erased \in Contents
    BY DEF Erased, Contents
  <2> QED
    BY <2>1, <2>2 DEF Erase, Commands
<1>10. PICK P \in Seq(Commands) : P = Programs(0, Sector, V)
  BY <1>8
<1>11. /\ LastWrite \in Seq(Commands) /\ Len(LastWrite) = Sector + 1 /\ LastWrite[1] = Erase(0)
       /\ \A j \in 1..Sector : LastWrite[j + 1] = P[j]
  BY <1>2, <1>6, <1>8, <1>9, <1>10
<1>12. ASSUME NEW j \in 1..Sector PROVE Restores(LastWrite[j + 1], j - 1, hdr)
  <2>1. LastWrite[j + 1] = Program(j - 1, V[j - 1])
    BY <1>7, <1>8, <1>10, <1>11
  <2>2. V[j - 1] = Assembled(j - 1) /\ j - 1 \in Nat
    BY <1>5, <1>7
  <2>3. j - 1 < BinLen(hdr) => j - 1 \in 0..(BinLen(hdr) - 1)
    BY <1>2, <2>2
  <2>4. j - 1 < BinLen(hdr) => V[j - 1] = <<hdr, j - 1>>
    BY <1>3, <2>2, <2>3
  <2> QED
    BY <2>1, <2>4 DEF Restores, Program
<1> QED
  BY <1>4, <1>11, <1>12

\* While an upgrade is received, no image begins the flash.
LEMMA NotYet ==
  ASSUME IInv, pend = <<>>, Receiving
  PROVE  flash[0] = Erased
<1>1. TypeInv /\ Programming /\ hdr \in Images /\ Block \in Nat \ {0}
  BY Settled, Sizes DEF IInv, Counted
<1>2. BinLen(hdr) \in Nat /\ 0 < BinLen(hdr)
  BY <1>1, SectorsLemma
<1>3. PICK a \in Nat : a = recv - Len(pend)
  BY <1>1 DEF Programming
<1>4. /\ \A c \in 0..(a - 1) : Right(c, flash[c])
      /\ \A c \in a..(BinLen(hdr) - 1) : flash[c] = Erased
  BY <1>1, <1>3 DEF Programming
<1>5. 0 \in 0..(a - 1) \/ 0 \in a..(BinLen(hdr) - 1)
  BY <1>2
<1> QED
  BY <1>1, <1>4, <1>5 DEF Right

LEMMA EndKeeps ==
  ASSUME IInv, End
  PROVE  IInv'
<1>1. TypeInv /\ Counted /\ pend = <<>> /\ Booted /\ pend \in Seq(Commands)
  BY BootedAgain DEF IInv, End, TypeInv
<1>2. /\ stat' = "none" /\ hdr' = NoImage /\ recv' = 0 /\ saved' = NoBuf
      /\ UNCHANGED <<flash, first, file, sent, clean, torn>>
  BY DEF End
<1>3. Booted' /\ ~Receiving'
  BY <1>1, <1>2, SameBooted DEF Receiving
<1>4. NoImage \notin Images /\ "failed" \notin Images /\ NoImage # "failed"
  BY ImagesAssumption DEF NoImage
<1>5. ASSUME outcome' \in {"failed", NoImage}, pend' = <<>> PROVE IInv'
  <2>1. TypeInv'
    BY <1>1, <1>2, <1>5 DEF TypeInv
  <2>2. outcome' \notin Images
    BY <1>4, <1>5
  <2>3. Counted'
    BY <1>2, <1>3, <1>5, <2>2 DEF Counted
  <2> QED
    BY <1>3, <2>1, <2>2, <2>3 DEF IInv, Phases
<1>6. CASE ~SumMatches /\ outcome' = "failed" /\ UNCHANGED pend
  BY <1>1, <1>5, <1>6
<1>7. CASE SumMatches /\ pend' = LastWrite /\ outcome' = hdr
  <2>1. CASE ~Receiving
    <3>1. hdr = NoImage
      BY <1>1, <2>1 DEF Counted
    <3> QED
      BY <1>5, <1>7, <3>1 DEF LastWrite
  <2>2. CASE Receiving
    <3>1. PICK i \in Images : i = hdr /\ i = outcome' /\ BinLen(i) < MaxBin
      BY <1>1, <1>7, <2>2 DEF Counted
    <3>2. /\ pend' \in Seq(Commands) /\ Len(pend') = Sector + 1 /\ pend'[1] = Erase(0)
          /\ \A j \in 1..Sector : Restores(pend'[j + 1], j - 1, i)
          /\ \A c \in Sector..(BinLen(i) - 1) : flash[c] = <<i, c>>
      BY <1>1, <1>7, <2>2, <3>1, LastWriteTypes
    <3>3. flash'[0] = Erased
      BY <1>1, <1>2, <2>2, NotYet
    <3>4. BinLen(outcome)' = BinLen(i)
      BY <3>1 DEF BinLen
    <3>5. TypeInv'
      BY <1>1, <1>2, <3>1, <3>2 DEF TypeInv
    <3>6. Counted'
      BY <1>2, <1>3, <3>1, <3>4 DEF Counted
    <3>7. \A op, c : Restores(op, c, i)' <=> Restores(op, c, i)
      BY DEF Restores, BinLen
    <3>8. LastWriting(outcome)'
      BY <1>2, <3>1, <3>2, <3>3, <3>4, <3>7 DEF LastWriting
    <3> QED
      BY <1>3, <3>1, <3>5, <3>6, <3>8 DEF IInv, Phases
  <2> QED
    BY <2>1, <2>2
<1> QED
  BY <1>6, <1>7 DEF End

\* The cells of a pack are those of the image from recv on.
LEMMA PlacedLemma ==
  ASSUME IInv, Receiving, NEW n \in Nat, n <= Left, NEW ok \in BOOLEAN
  PROVE  /\ DOMAIN Placed(n, ok) = recv..(recv + n - 1)
         /\ \A c \in recv..(recv + n - 1) :
              /\ Placed(n, ok)[c] = IF ok THEN <<hdr, c>> ELSE <<"bad", c>>
              /\ Placed(n, ok)[c] \in Contents
<1>1. /\ hdr \in Images /\ file = hdr /\ BinLen(hdr) < MaxBin /\ recv \in Nat /\ sent = recv + 1
      /\ recv <= BinLen(hdr) /\ BinLen(hdr) \in Nat /\ Area \in Nat /\ MaxBin <= Area /\ MaxBin \in Nat
      /\ Block \in Nat \ {0}
  BY Sizes, SectorsLemma DEF IInv, TypeInv, Counted
<1>2. recv + n <= BinLen(hdr)
  BY <1>1 DEF Left
<1> SUFFICES ASSUME NEW c \in recv..(recv + n - 1)
             PROVE  /\ Placed(n, ok)[c] = IF ok THEN <<hdr, c>> ELSE <<"bad", c>>
                    /\ Placed(n, ok)[c] \in Contents
  BY DEF Placed
<1>3. c - recv \in Nat /\ c \in Nat /\ c < Area
  BY <1>1, <1>2
<1>4. (c - recv) % Block \in Nat
  BY <1>1, <1>3, DivisionLemma
<1>5. PICK k \in Nat : k = (c - recv) % Block
  BY <1>4
<1>6. Placed(n, ok)[c] = Brought(ok)[recv + Offset(n, n - (c - recv - k)) + k]
  BY <1>5 DEF Placed
<1>7. recv + Offset(n, n - (c - recv - k)) + k = c
  BY <1>1, <1>3, <1>5 DEF Offset
<1>8. Brought(ok)[c] = IF ok THEN <<hdr, c>> ELSE <<"bad", c>>
  BY <1>1, <1>3, FirstCell DEF Brought
<1>9. <<hdr, c>> \in Contents /\ <<"bad", c>> \in Contents
  BY <1>1, <1>3 DEF Contents
<1> QED
  BY <1>6, <1>7, <1>8, <1>9

\* What a pack is good for: whole blocks, and the image's tail.
LEMMA PackSizes ==
  ASSUME IInv, Receiving, NEW n \in Nat, n <= Left, NEW whole, NEW taken,
         whole = (n \div Block) * Block,
         taken = IF TakesTail(recv + whole, n - whole) THEN n ELSE whole
  PROVE  /\ whole \in Nat /\ taken \in Nat /\ whole <= taken /\ taken <= n
         /\ recv + taken <= BinLen(hdr) /\ (whole > 0 => Block <= whole)
         /\ first /\ whole = 0 => taken = 0
<1>1. /\ hdr \in Images /\ file = hdr /\ recv \in Nat /\ sent = recv + 1 /\ (first => recv = 0)
      /\ recv <= BinLen(hdr) /\ BinLen(hdr) \in Nat /\ Block \in Nat \ {0}
  BY Sizes, SectorsLemma DEF IInv, TypeInv, Counted
<1>2. whole \in Nat /\ whole <= n /\ (whole > 0 => Block <= whole) /\ n < whole + Block
  BY WholeLemma
<1>3. recv + n <= BinLen(hdr)
  BY <1>1 DEF Left
<1>4. taken \in {n, whole}
  OBVIOUS
<1>5. ASSUME first, whole = 0 PROVE taken = 0
  <2>1. ~TakesTail(recv + whole, n - whole)
    BY <1>1, <1>2, <1>5 DEF TakesTail, BeforeLastBlock
  <2> QED
    BY <1>5, <2>1
<1> QED
  BY <1>1, <1>2, <1>3, <1>4, <1>5

Fills(c, n, v) == \A j \in 1..n : v[c + j - 1] \in Contents
Writes(cmds, c, n, v) ==
  /\ cmds \in Seq(Commands) /\ Len(cmds) = n
  /\ \A j \in 1..n : cmds[j] = Program(c + j - 1, v[c + j - 1])

LEMMA ProgramsWrite ==
  ASSUME NEW c \in Nat, NEW n \in Nat, NEW v, Fills(c, n, v)
  PROVE  Writes(Programs(c, n, v), c, n, v)
<1>1. \A j \in 1..n : v[c + j - 1] \in Contents
  BY DEF Fills
<1>2. /\ Programs(c, n, v) \in Seq(Commands) /\ Len(Programs(c, n, v)) = n
      /\ \A j \in 1..n : Programs(c, n, v)[j] = Program(c + j - 1, v[c + j - 1])
  BY <1>1, ProgramsTypes
<1> QED
  BY <1>2 DEF Writes

\* Two runs of commands, one behind the other.
LEMMA Joined ==
  ASSUME NEW P \in Seq(Commands), NEW Q \in Seq(Commands)
  PROVE  /\ P \o Q \in Seq(Commands) /\ Len(P \o Q) = Len(P) + Len(Q)
         /\ \A j \in 1..(Len(P) + Len(Q)) : (P \o Q)[j] = IF j <= Len(P) THEN P[j] ELSE Q[j - Len(P)]
  OBVIOUS

\* The commands of whole cells of blocks, and of the tail up to taken cells.
PackCommands(whole, taken, v) == Blocks(whole, v) \o Programs(recv + whole, taken - whole, v)

\* The commands of a pack of which a number of cells is taken: they program the
\* cells from recv on, those of the first block with nothing.
PacksInto(cmds, taken, ok) ==
  /\ cmds \in Seq(Commands) /\ Len(cmds) = taken
  /\ \A j \in 1..taken :
       /\ cmds[j].kind = "program" /\ cmds[j].at = recv + j - 1
       /\ IF recv + j - 1 < Block THEN cmds[j].val = Erased
          ELSE cmds[j].val = <<hdr, recv + j - 1>> \/ (~ok /\ cmds[j].val = <<"bad", recv + j - 1>>)

\* The commands of a pack write the image's next cells.
LEMMA PackWrites ==
  ASSUME IInv, Receiving, NEW n \in Nat, n <= Left, NEW ok \in BOOLEAN,
         NEW whole \in Nat, NEW taken \in Nat, whole <= taken, taken <= n,
         whole > 0 => Block <= whole, first /\ whole = 0 => taken = 0
  PROVE  PacksInto(PackCommands(whole, taken, Placed(n, ok)), taken, ok)
<1>1. recv \in Nat /\ Block \in Nat \ {0} /\ (first => recv = 0) /\ (~first => Block <= recv)
  BY Sizes DEF IInv, TypeInv, Counted
<1>2. /\ whole \in Nat /\ taken \in Nat /\ whole <= taken /\ taken <= n
      /\ (whole > 0 => Block <= whole) /\ (first /\ whole = 0 => taken = 0)
  OBVIOUS
<1> DEFINE v == Placed(n, ok)
           w == [c \in DOMAIN v |-> IF first /\ c < recv + Block THEN Erased ELSE v[c]]
<1>3. /\ DOMAIN v = recv..(recv + n - 1)
      /\ \A c \in recv..(recv + n - 1) :
           v[c] = (IF ok THEN <<hdr, c>> ELSE <<"bad", c>>) /\ v[c] \in Contents
  BY PlacedLemma
<1> HIDE DEF v
<1>4. \A c \in recv..(recv + n - 1) :
        w[c] = (IF first /\ c < recv + Block THEN Erased ELSE v[c]) /\ w[c] \in Contents
  <2>1. Erased \in Contents
    BY DEF Erased, Contents
  <2> QED
    BY <1>3, <2>1
<1> HIDE DEF w
<1>5. ASSUME NEW j \in 1..taken PROVE recv + j - 1 \in recv..(recv + n - 1) /\ recv + j - 1 \in Nat
  BY <1>1, <1>2
<1>6. /\ Programs(recv, whole, w) \in Seq(Commands) /\ Len(Programs(recv, whole, w)) = whole
      /\ \A j \in 1..whole : Programs(recv, whole, w)[j] = Program(recv + j - 1, w[recv + j - 1])
  <2>1. \A j \in 1..whole : w[recv + j - 1] \in Contents
    <3>1. \A j \in 1..whole : j \in 1..taken
      BY <1>2
    <3> QED
      BY <1>4, <1>5, <3>1
  <2>2. Fills(recv, whole, w)
    BY <2>1 DEF Fills
  <2>3. Writes(Programs(recv, whole, w), recv, whole, w)
    BY <1>1, <2>2, ProgramsWrite
  <2> QED
    BY <2>3 DEF Writes
<1>7. PICK r \in Nat : r = recv + whole
  BY <1>1, <1>2
<1>8. PICK m \in Nat : m = taken - whole
  BY <1>2
<1>9. /\ Programs(r, m, v) \in Seq(Commands) /\ Len(Programs(r, m, v)) = m
      /\ \A j \in 1..m : Programs(r, m, v)[j] = Program(r + j - 1, v[r + j - 1])
  <2>1. \A j \in 1..m : v[r + j - 1] \in Contents
    <3> SUFFICES ASSUME NEW j \in 1..m PROVE v[r + j - 1] \in Contents
      OBVIOUS
    <3>1. r + j - 1 \in recv..(recv + n - 1)
      BY <1>1, <1>2, <1>7, <1>8
    <3> QED
      BY <1>3, <3>1
  <2>2. Fills(r, m, v)
    BY <2>1 DEF Fills
  <2>3. Writes(Programs(r, m, v), r, m, v)
    BY <2>2, ProgramsWrite
  <2> QED
    BY <2>3 DEF Writes
<1>10. PICK P \in Seq(Commands) : P = Programs(recv, whole, w)
  BY <1>6
<1>11. PICK Q \in Seq(Commands) : Q = Programs(r, m, v)
  BY <1>9
<1> DEFINE cmds == PackCommands(whole, taken, v)
<1>12. cmds = P \o Q
  BY <1>7, <1>8, <1>10, <1>11 DEF PackCommands, Blocks, v, w
<1> HIDE DEF cmds
<1>13. /\ cmds \in Seq(Commands) /\ Len(cmds) = taken
       /\ \A j \in 1..taken : cmds[j] = IF j <= whole THEN P[j] ELSE Q[j - whole]
  <2>1. Len(P) = whole /\ Len(Q) = m /\ whole + m = taken
    BY <1>2, <1>6, <1>8, <1>9, <1>10, <1>11
  <2> QED
    BY <1>12, <2>1, Joined
<1>14. ASSUME NEW j \in 1..taken
       PROVE  /\ cmds[j].kind = "program" /\ cmds[j].at = recv + j - 1
              /\ IF recv + j - 1 < Block THEN cmds[j].val = Erased
                 ELSE cmds[j].val = <<hdr, recv + j - 1>> \/ (~ok /\ cmds[j].val = <<"bad", recv + j - 1>>)
  <2>1. PICK c \in recv..(recv + n - 1) : c = recv + j - 1
    BY <1>5
  <2>2. c \in Nat
    BY <1>5, <2>1
  <2>3. CASE j <= whole
    <3>1. j \in 1..whole
      BY <1>2, <2>3
    <3>2. cmds[j] = Program(c, w[c])
      BY <1>6, <1>10, <1>13, <2>1, <2>3, <3>1
    <3>3. cmds[j].kind = "program" /\ cmds[j].at = c /\ cmds[j].val = w[c]
      BY <3>2 DEF Program
    <3>4. w[c] = (IF first /\ c < recv + Block THEN Erased ELSE v[c]) /\ v[c] = (IF ok THEN <<hdr, c>> ELSE <<"bad", c>>)
      BY <1>3, <1>4
    <3>5. c < Block <=> first /\ c < recv + Block
      BY <1>1, <2>1, <2>2
    <3> QED
      BY <2>1, <3>3, <3>4, <3>5
  <2>4. CASE ~(j <= whole)
    <3>1. j - whole \in 1..m /\ r + (j - whole) - 1 = c
      BY <1>1, <1>2, <1>7, <1>8, <2>1, <2>4
    <3>2. Q[j - whole] = Program(c, v[c])
      BY <1>9, <1>11, <3>1
    <3>3. cmds[j] = Program(c, v[c])
      BY <1>13, <2>4, <3>2
    <3>4. cmds[j].kind = "program" /\ cmds[j].at = c /\ cmds[j].val = v[c]
      BY <3>3 DEF Program
    <3>5. ~(c < Block)
      BY <1>1, <1>2, <2>1, <2>2, <2>4
    <3>6. v[c] = (IF ok THEN <<hdr, c>> ELSE <<"bad", c>>)
      BY <1>3
    <3> QED
      BY <2>1, <3>4, <3>5, <3>6
  <2> QED
    BY <2>3, <2>4
<1> QED
  BY <1>13, <1>14 DEF cmds, v, PacksInto

LEMMA DataPackKeeps ==
  ASSUME IInv, NEW n \in 1..MaxPack, NEW ok \in BOOLEAN, DataPack(n, ok)
  PROVE  IInv'
<1>1. /\ TypeInv /\ Counted /\ pend = <<>> /\ stat = "data" /\ Receiving /\ n \in Nat /\ n <= Left
      /\ UNCHANGED <<flash, hdr, file, outcome, torn>>
  BY Sizes DEF IInv, DataPack, Receiving
<1>2. /\ hdr \in Images /\ file = hdr /\ BinLen(hdr) < MaxBin /\ recv \in Nat /\ sent = recv + 1
      /\ recv <= BinLen(hdr) /\ outcome = "none" /\ (first => recv = 0) /\ first \in BOOLEAN /\ clean \in BOOLEAN
      /\ BinLen(hdr) \in Nat /\ 0 < BinLen(hdr) /\ Block \in Nat \ {0} /\ Len(pend) = 0
  BY <1>1, Sizes, SectorsLemma DEF TypeInv, Counted
<1>3. PICK whole : whole = (n \div Block) * Block
  OBVIOUS
<1>4. PICK taken : taken = IF TakesTail(recv + whole, n - whole) THEN n ELSE whole
  OBVIOUS
<1>5. /\ whole \in Nat /\ taken \in Nat /\ whole <= taken /\ taken <= n
      /\ recv + taken <= BinLen(hdr) /\ (whole > 0 => Block <= whole)
      /\ first /\ whole = 0 => taken = 0
  BY <1>1, <1>3, <1>4, PackSizes
<1>6. /\ pend' = PackCommands(whole, taken, Placed(n, ok))
      /\ saved' = IF first /\ whole > 0 THEN [k \in 0..(Block - 1) |-> Placed(n, ok)[recv + k]] ELSE saved
      /\ first' = (first /\ whole = 0)
      /\ recv' = recv + taken /\ sent' = sent + taken
      /\ stat' = IF recv + taken >= BinLen(hdr) THEN "finish" ELSE stat
      /\ clean' = (clean /\ (ok \/ taken = 0))
  BY <1>3, <1>4 DEF DataPack, PackCommands
<1>7. /\ pend' \in Seq(Commands) /\ Len(pend') = taken
      /\ \A j \in 1..taken :
           /\ pend'[j].kind = "program" /\ pend'[j].at = recv + j - 1
           /\ IF recv + j - 1 < Block THEN pend'[j].val = Erased
              ELSE pend'[j].val = <<hdr, recv + j - 1>> \/ (~ok /\ pend'[j].val = <<"bad", recv + j - 1>>)
  <2> DEFINE cmds == PackCommands(whole, taken, Placed(n, ok))
  <2>1. /\ cmds \in Seq(Commands) /\ Len(cmds) = taken
        /\ \A j \in 1..taken :
             /\ cmds[j].kind = "program" /\ cmds[j].at = recv + j - 1
             /\ IF recv + j - 1 < Block THEN cmds[j].val = Erased
                ELSE cmds[j].val = <<hdr, recv + j - 1>> \/ (~ok /\ cmds[j].val = <<"bad", recv + j - 1>>)
    <3>1. n \in Nat
      OBVIOUS
    <3>2. PacksInto(cmds, taken, ok)
      BY <1>1, <1>5, <3>1, PackWrites
    <3> HIDE DEF cmds
    <3> QED
      BY <3>2 DEF PacksInto
  <2>2. pend' = cmds
    BY <1>6
  <2> HIDE DEF cmds
  <2> QED
    BY <2>1, <2>2
<1>8. /\ stat' \in {"data", "finish"} /\ Receiving' /\ recv' \in Nat /\ sent' = recv' + 1 /\ recv' <= BinLen(hdr)
      /\ first' \in BOOLEAN /\ clean' \in BOOLEAN /\ (first' => recv' = 0) /\ (clean' => clean)
      /\ stat' = "finish" => recv' = BinLen(hdr)
  BY <1>1, <1>2, <1>5, <1>6 DEF Receiving
<1>9. /\ saved' = NoBuf \/ saved' \in [0..(Block - 1) -> Contents]
      /\ ~first' => /\ Block <= recv' /\ saved' \in [0..(Block - 1) -> Contents]
                    /\ clean' => \A k \in 0..(Block - 1) : saved'[k] = <<hdr, k>>
  <2>1. CASE first /\ whole > 0
    <3>1. recv = 0 /\ saved' = [k \in 0..(Block - 1) |-> Placed(n, ok)[recv + k]] /\ Block <= n
      BY <1>2, <1>5, <1>6, <2>1
    <3>2. ASSUME NEW k \in 0..(Block - 1)
          PROVE  recv + k = k /\ k \in recv..(recv + n - 1)
      BY <1>2, <3>1
    <3>3. \A c \in recv..(recv + n - 1) :
             /\ Placed(n, ok)[c] = IF ok THEN <<hdr, c>> ELSE <<"bad", c>>
             /\ Placed(n, ok)[c] \in Contents
      BY <1>1, PlacedLemma
    <3>4. ASSUME NEW k \in 0..(Block - 1)
          PROVE  Placed(n, ok)[recv + k] \in Contents /\ (ok => Placed(n, ok)[recv + k] = <<hdr, k>>)
      BY <3>2, <3>3
    <3>5. saved' \in [0..(Block - 1) -> Contents] /\ (ok => \A k \in 0..(Block - 1) : saved'[k] = <<hdr, k>>)
      BY <3>1, <3>4
    <3>6. Block <= recv' /\ (clean' => ok)
      BY <1>2, <1>5, <1>6, <2>1, <3>1
    <3> QED
      BY <3>5, <3>6
  <2>2. CASE ~(first /\ whole > 0)
    <3>1. saved' = saved
      BY <1>6, <2>2
    <3>2. ~first' => ~first
      BY <1>2, <1>5, <1>6, <2>2
    <3>3. ~first => Block <= recv /\ saved \in [0..(Block - 1) -> Contents]
                    /\ (clean => \A k \in 0..(Block - 1) : saved[k] = <<hdr, k>>)
      BY <1>1 DEF Counted
    <3>4. Block <= recv => Block <= recv'
      BY <1>2, <1>5, <1>6
    <3>5. saved = NoBuf \/ saved \in [0..(Block - 1) -> Contents]
      BY <1>1 DEF TypeInv
    <3> QED
      BY <1>8, <3>1, <3>2, <3>3, <3>4, <3>5
  <2> QED
    BY <2>1, <2>2
<1>10. TypeInv'
  <2>1. flash' \in [Cells -> Contents] /\ hdr' \in Images \cup {NoImage} /\ file' \in Images \cup {NoImage}
        /\ outcome' \in Images \cup {"none", "failed", NoImage} /\ torn' \in BOOLEAN
    BY <1>1 DEF TypeInv
  <2>2. sent' \in Nat /\ stat' \in {"none", "header", "data", "finish"}
    <3>1. PICK r \in Nat : r = recv'
      BY <1>8
    <3>2. sent' = r + 1
      BY <1>8, <3>1, Zenon
    <3>3. stat' \in {"none", "header", "data", "finish"}
      BY <1>8
    <3> QED
      BY <3>2, <3>3
  <2> QED
    BY <1>7, <1>8, <1>9, <2>1, <2>2 DEF TypeInv
<1>11. BinLen(hdr)' = BinLen(hdr) /\ outcome' \notin Images /\ outcome' = "none"
  BY <1>1, <1>2, ImagesAssumption DEF BinLen
<1>12. Counted'
  BY <1>1, <1>2, <1>8, <1>9, <1>11 DEF Counted
<1>13. Programming'
  <2>1. Programming
    BY <1>1, Settled DEF IInv
  <2>2. PICK a \in Nat : a = recv - Len(pend)
    BY <2>1 DEF Programming
  <2>3. a = recv
    BY <1>2, <2>2
  <2>4. /\ \A c \in 0..(a - 1) : Right(c, flash[c])
        /\ \A c \in a..(BinLen(hdr) - 1) : flash[c] = Erased
    BY <2>1, <2>2 DEF Programming
  <2>5. recv' - Len(pend') = a
    BY <1>2, <1>5, <1>6, <1>7, <2>3
  <2> DEFINE Later(c, x) == IF c < Block THEN x = Erased ELSE x = <<hdr', c>> \/ (~clean' /\ x = <<"bad", c>>)
  <2>6. \A c, x : Right(c, x) => Later(c, x)
    BY <1>1, <1>8 DEF Right
  <2> HIDE DEF Later
  <2>7. ASSUME NEW j \in 1..Len(pend')
        PROVE  pend'[j].kind = "program" /\ pend'[j].at = a + j - 1 /\ Later(a + j - 1, pend'[j].val)
    <3>1. j \in 1..taken /\ ~(taken = 0)
      BY <1>5, <1>7
    <3>2. ~ok => ~clean'
      BY <1>6, <3>1
    <3>3. PICK c : c = a + j - 1
      OBVIOUS
    <3>4. PICK x : x = pend'[j].val
      OBVIOUS
    <3>5. /\ pend'[j].kind = "program" /\ pend'[j].at = c
          /\ IF c < Block THEN x = Erased ELSE x = <<hdr, c>> \/ (~ok /\ x = <<"bad", c>>)
      BY <1>7, <2>3, <3>1, <3>3, <3>4
    <3>6. Later(c, x)
      BY <1>1, <3>2, <3>5 DEF Later
    <3> QED
      BY <3>3, <3>4, <3>5, <3>6
  <2>8. \A c \in 0..(a - 1) : Later(c, flash'[c])
    BY <1>1, <2>4, <2>6
  <2>9. \A c \in a..(BinLen(hdr)' - 1) : flash'[c] = Erased
    BY <1>1, <1>11, <2>4
  <2> QED
    BY <2>5, <2>7, <2>8, <2>9 DEF Programming, Right, Later
<1> QED
  BY <1>8, <1>10, <1>11, <1>12, <1>13 DEF IInv, Phases

LEMMA StutterKeeps ==
  ASSUME IInv, UNCHANGED vars
  PROVE  IInv'
<1>1. UNCHANGED <<flash, pend, stat, hdr, recv, first, saved, file, sent, outcome, clean, torn>>
  BY DEF vars, ram, caller
<1>2. /\ \A i : BinLen(i)' = BinLen(i) /\ Sectors(i)' = Sectors(i)
      /\ \A c, x : Right(c, x)' <=> Right(c, x)
      /\ \A op, c, i : Restores(op, c, i)' <=> Restores(op, c, i)
  BY <1>1 DEF BinLen, Sectors, Right, Restores
<1>3. TypeInv' /\ Counted'
  BY <1>1 DEF IInv, TypeInv, Counted, Receiving, BinLen
<1>4. Receiving' <=> Receiving
  BY <1>1 DEF Receiving
<1>5. Programming => Programming'
  BY <1>1, SameProgramming
<1>6. Erasing => Erasing'
  BY <1>1 DEF Erasing, Sectors, BinLen
<1>7. Booted => Booted'
  BY <1>1, SameBooted
<1>8. LastWriting(outcome) => LastWriting(outcome)'
  BY <1>1 DEF LastWriting, Restores, BinLen
<1>9. Len(pend)' = Len(pend) /\ Sectors(hdr)' = Sectors(hdr)
  BY <1>1 DEF Sectors, BinLen
<1> QED
  BY <1>1, <1>3, <1>4, <1>5, <1>6, <1>7, <1>8, <1>9 DEF IInv, Phases

LEMMA InitHolds ==
  ASSUME Init
  PROVE  IInv
<1>1. flash \in [Cells -> Contents] /\ (flash[0] = Erased \/ flash[0] = Mixed)
  <2>1. PICK old \in {Erased, Mixed} : flash = [c \in Cells |-> old]
    BY DEF Init
  <2>2. old \in Contents
    BY DEF Erased, Mixed, Contents
  <2> QED
    BY <2>1, <2>2, FirstCell
<1>2. TypeInv
  <2>1. pend \in Seq(Commands)
    BY DEF Init
  <2>2. recv \in Nat /\ sent \in Nat /\ hdr \in Images \cup {NoImage} /\ file \in Images \cup {NoImage}
    BY DEF Init
  <2>3. outcome \in Images \cup {"none", "failed", NoImage} /\ stat \in {"none", "header", "data", "finish"}
    BY DEF Init
  <2>4. first \in BOOLEAN /\ clean \in BOOLEAN /\ torn \in BOOLEAN /\ saved = NoBuf
    BY DEF Init
  <2> QED
    BY <1>1, <2>1, <2>2, <2>3, <2>4 DEF TypeInv
<1>3. outcome \notin Images /\ ~Receiving
  BY ImagesAssumption DEF Init, Receiving
<1>4. Counted
  BY <1>3 DEF Counted, Init
<1>5. Booted
  BY <1>1, Different DEF Booted
<1> QED
  BY <1>2, <1>3, <1>4, <1>5 DEF IInv, Phases

-----------------------------------------------------------------------------
(* The theorems.                                                           *)

\* Whatever an upgrade is cut off by, what is left on the flash and in RAM is
\* a stage of an erasure, of a reception, or of the last write of an end.
THEOREM OtaInvariant == Spec => []IInv
<1>1. Init => IInv
  BY InitHolds
<1>2. IInv /\ [Next]_vars => IInv'
  <2> SUFFICES ASSUME IInv, [Next]_vars PROVE IInv'
    OBVIOUS
  <2>1. CASE FlashStep
    BY <2>1, FlashStepKeeps
  <2>2. CASE \E i \in Images : Start(i)
    BY <2>2, StartKeeps
  <2>3. CASE \E ok \in BOOLEAN : HeaderPack(ok)
    BY <2>3, HeaderPackKeeps
  <2>4. CASE \E n \in 1..MaxPack, ok \in BOOLEAN : DataPack(n, ok)
    BY <2>4, DataPackKeeps
  <2>5. CASE \E n \in 1..MaxPack : DataNoMemory(n)
    BY <2>5, DataNoMemoryKeeps
  <2>6. CASE End
    BY <2>6, EndKeeps
  <2>7. CASE Crash
    BY <2>7, CrashKeeps
  <2>8. CASE UNCHANGED vars
    BY <2>8, StutterKeeps
  <2> QED
    BY <2>1, <2>2, <2>3, <2>4, <2>5, <2>6, <2>7, <2>8 DEF Next
<1> QED
  BY <1>1, <1>2, PTL DEF Spec

\* Wherever the power failed and whatever was sent, the boot loader finds the
\* header of an image only when everything behind its first sector is there,
\* and the first sector too, but for an end cut short in its last write.
THEOREM HeaderIsLast == Spec => []HeaderMeansWhole
<1>1. IInv => HeaderMeansWhole
  BY WholeWhenHeader
<1> QED
  BY <1>1, OtaInvariant, PTL

\* The commands of tkl_ota.c stay inside the OTA area, and no cell is
\* programmed that is not erased, whatever upgrades came before.
THEOREM NoCellIsProgrammedTwice == Spec => []ProgramsErased
<1>1. IInv => ProgramsErased
  BY ErasedWhenProgrammed
<1> QED
  BY <1>1, OtaInvariant, PTL

\* tkl_ota_end_notify reports the success of an upgrade whose header was
\* accepted only when the whole image is on the flash.
THEOREM SuccessMeansInstalled == Spec => []OkMeansInstalled
<1>1. IInv => OkMeansInstalled
  BY InstalledWhenOk
<1> QED
  BY <1>1, OtaInvariant, PTL

\* However tkl_ota_data_process is fed, an image that is received undamaged
\* passes the checksum.
THEOREM UndamagedImagesVerify == Spec => []UndamagedVerifies
<1>1. IInv => UndamagedVerifies
  BY VerifiesUndamaged
<1> QED
  BY <1>1, OtaInvariant, PTL

------------------------------------------------------------------------------
(* The commands of an upgrade beside other writers: TklFlash.              *)

\* Where a thread tests, unprotects and then relies on the protection.
Sure(t) ==
  \/ pc[t] = "command"
  \/ pc[t] = "unprotect" /\ ~flag[t]

\* The inductive invariant: a thread that is sure of the protection finds the
\* chip writable, or the upgrade has protected it since the call began.
FlashIInv ==
  /\ TypeOK
  /\ \A t \in Threads : Sure(t) /\ prot = "all" => raced[t] /\ t # Ota
  /\ IgnoredOnlyInRace
  /\ UpgradeNeverIgnored
  /\ ~raced[Ota]

USE FlashThreadsAssumption, MaxSizeAssumption DEF Threads, Outside

LEMMA FlashCounts ==
  /\ 1..MaxSize \subseteq 0..MaxSize
  /\ \A n \in 0..MaxSize : n > 0 => n - 1 \in 0..MaxSize
  OBVIOUS

LEMMA FlashInitIInv == FlashInit => FlashIInv
<1> SUFFICES ASSUME FlashInit PROVE FlashIInv
  OBVIOUS
<1>1. \A t \in Threads : pc[t] = "idle" /\ ~ignored[t] /\ ~raced[t] /\ lock # t
  BY DEF FlashInit
<1>2. TypeOK
  <2>1. pc \in [Threads -> Inside \cup Outside]
    BY DEF FlashInit, Inside
  <2>2. left \in [Threads -> 0..MaxSize]
    BY DEF FlashInit
  <2>3. \A t \in Threads : (lock = t) <=> (pc[t] \in Inside)
    BY <1>1 DEF Inside
  <2>4. flag \in [Threads -> BOOLEAN] /\ ignored \in [Threads -> BOOLEAN] /\ raced \in [Threads -> BOOLEAN]
    BY DEF FlashInit
  <2>5. kind \in [Threads -> {"write", "erase"}] /\ prot \in {"all", "half"}
    BY DEF FlashInit
  <2> QED
    BY <2>1, <2>2, <2>3, <2>4, <2>5 DEF TypeOK
<1> QED
  BY <1>1, <1>2 DEF FlashIInv, IgnoredOnlyInRace, UpgradeNeverIgnored, Sure

LEMMA FlashTypeStep == TypeOK /\ [FlashNext]_flashVars => TypeOK'
<1> SUFFICES ASSUME TypeOK, [FlashNext]_flashVars PROVE TypeOK'
  OBVIOUS
<1> USE DEF TypeOK, Inside, Goto
<1>1. CASE ProtectOff
  BY <1>1 DEF ProtectOff
<1>2. CASE ProtectOn
  BY <1>2 DEF ProtectOn
<1>3. ASSUME NEW t \in Threads, NEW k \in {"write", "erase"}, NEW n \in 1..MaxSize, Call(t, k, n)
      PROVE  TypeOK'
  <2>1. pc[t] \in Outside /\ pc' = [pc EXCEPT ![t] = "lock"]
    BY <1>3 DEF Call
  <2>2. left' \in [Threads -> 0..MaxSize]
    BY <1>3, FlashCounts DEF Call
  <2>3. UNCHANGED <<prot, lock, flag>> /\ kind' \in [Threads -> {"write", "erase"}]
    BY <1>3 DEF Call
  <2>4. ignored' \in [Threads -> BOOLEAN] /\ raced' \in [Threads -> BOOLEAN]
    BY <1>3 DEF Call
  <2> QED
    BY <2>1, <2>2, <2>3, <2>4
<1>4. ASSUME NEW t \in Threads, Lock(t) PROVE TypeOK'
  BY <1>4 DEF Lock
<1>5. ASSUME NEW t \in Threads, ReadProtection(t, "test", "unprotect") PROVE TypeOK'
  BY <1>5 DEF ReadProtection
<1>6. ASSUME NEW t \in Threads, Unprotect(t) PROVE TypeOK'
  BY <1>6 DEF Unprotect
<1>7. ASSUME NEW t \in Threads, Command(t) PROVE TypeOK'
  <2>0. left[t] \in 0..MaxSize /\ left[t] > 0
    BY <1>7 DEF Command
  <2>1. left' \in [Threads -> 0..MaxSize]
    <3>1. left[t] - 1 \in 0..MaxSize
      BY <2>0, FlashCounts
    <3>2. left' = [left EXCEPT ![t] = left[t] - 1]
      BY <1>7 DEF Command
    <3> QED
      BY <3>1, <3>2
  <2>2. PICK to \in {"command", "test again", "unlock"} :
          pc[t] = "command" /\ pc' = [pc EXCEPT ![t] = to]
    BY <1>7 DEF Command
  <2>3. UNCHANGED <<prot, lock, kind, flag, raced>> /\ ignored' \in [Threads -> BOOLEAN]
    BY <1>7 DEF Command
  <2> QED
    BY <2>1, <2>2, <2>3
<1>8. ASSUME NEW t \in Threads, ReadProtection(t, "test again", "reprotect") PROVE TypeOK'
  BY <1>8 DEF ReadProtection
<1>9. ASSUME NEW t \in Threads, Reprotect(t) PROVE TypeOK'
  BY <1>9 DEF Reprotect
<1>10. ASSUME NEW t \in Threads, Unlock(t) PROVE TypeOK'
  BY <1>10 DEF Unlock
<1>11. ASSUME NEW t \in Threads, Return(t) PROVE TypeOK'
  BY <1>11 DEF Return
<1>12. CASE UNCHANGED flashVars
  BY <1>12 DEF flashVars
<1> QED
  BY <1>1, <1>2, <1>3, <1>4, <1>5, <1>6, <1>7, <1>8, <1>9, <1>10, <1>11, <1>12 DEF FlashNext, Step

LEMMA FlashStepIInv == FlashIInv /\ [FlashNext]_flashVars => FlashIInv'
<1> SUFFICES ASSUME FlashIInv, [FlashNext]_flashVars PROVE FlashIInv'
  OBVIOUS
<1>0. TypeOK /\ TypeOK'
  BY FlashTypeStep DEF FlashIInv
<1> USE <1>0 DEF Goto, FlashIInv, TypeOK, Inside, Sure, IgnoredOnlyInRace, UpgradeNeverIgnored
<1>1. CASE ProtectOff
  BY <1>1 DEF ProtectOff
<1>2. CASE ProtectOn
  BY <1>2 DEF ProtectOn
<1>3. ASSUME NEW t \in Threads, NEW k \in {"write", "erase"}, NEW n \in 1..MaxSize, Call(t, k, n)
      PROVE  FlashIInv'
  BY <1>3 DEF Call
<1>4. ASSUME NEW t \in Threads, Lock(t) PROVE FlashIInv'
  BY <1>4 DEF Lock
<1>5. ASSUME NEW t \in Threads, ReadProtection(t, "test", "unprotect") PROVE FlashIInv'
  BY <1>5 DEF ReadProtection
<1>6. ASSUME NEW t \in Threads, Unprotect(t) PROVE FlashIInv'
  BY ZenonT(30), <1>6 DEF Unprotect
<1>7. ASSUME NEW t \in Threads, Command(t) PROVE FlashIInv'
  <2>1. PICK to \in {"command", "test again", "unlock"} :
          pc[t] = "command" /\ pc' = [pc EXCEPT ![t] = to]
    BY <1>7 DEF Command
  <2>2. ignored' = [ignored EXCEPT ![t] = ignored[t] \/ prot = "all"]
    BY <1>7 DEF Command
  <2>3. UNCHANGED <<prot, flag, raced>>
    BY <1>7 DEF Command
  <2>4. prot = "all" => raced[t] /\ t # Ota
    BY <2>1
  <2>5. IgnoredOnlyInRace' /\ UpgradeNeverIgnored'
    BY <2>2, <2>3, <2>4
  <2>6. \A u \in Threads : Sure(u)' /\ prot' = "all" => raced'[u] /\ u # Ota
    BY <2>1, <2>3
  <2>7. ~raced'[Ota]
    BY <2>3
  <2> QED
    BY <1>0, <2>5, <2>6, <2>7
<1>8. ASSUME NEW t \in Threads, ReadProtection(t, "test again", "reprotect") PROVE FlashIInv'
  BY <1>8 DEF ReadProtection
<1>9. ASSUME NEW t \in Threads, Reprotect(t) PROVE FlashIInv'
  BY <1>9 DEF Reprotect
<1>10. ASSUME NEW t \in Threads, Unlock(t) PROVE FlashIInv'
  BY <1>10 DEF Unlock
<1>11. ASSUME NEW t \in Threads, Return(t) PROVE FlashIInv'
  BY <1>11 DEF Return
<1>12. CASE UNCHANGED flashVars
  BY <1>12 DEF flashVars
<1> HIDE DEF FlashIInv, Sure, TypeOK, Goto
<1> QED
  BY <1>1, <1>2, <1>3, <1>4, <1>5, <1>6, <1>7, <1>8, <1>9, <1>10, <1>11, <1>12 DEF FlashNext, Step

\* The inductive invariant holds throughout.
THEOREM FlashInvariant == FlashSpec => []FlashIInv
  BY FlashInitIInv, FlashStepIInv, PTL DEF FlashSpec

\* Whatever other threads there are and whatever they write or erase, the
\* chip never ignores a command of the upgrade (tkl_flash_write and
\* tkl_flash_erase test the protection under the mutex).
THEOREM UpgradeIsNeverIgnored == FlashSpec => []UpgradeNeverIgnored
<1>1. FlashIInv => UpgradeNeverIgnored
  BY DEF FlashIInv
<1> QED
  BY <1>1, FlashInvariant, PTL

\* A command of another thread is lost only to a tkl_flash_set_protect(TRUE)
\* of the upgrade in the middle of its call.
THEOREM CommandsAreLostOnlyInRaces == FlashSpec => []IgnoredOnlyInRace
<1>1. FlashIInv => IgnoredOnlyInRace
  BY DEF FlashIInv
<1> QED
  BY <1>1, FlashInvariant, PTL
==============================================================================
