-------------------------- MODULE ReplyAccessProofs --------------------------
(***************************************************************************)
(* No view of an accepted record slices outside its payload, whatever the  *)
(* fields of the record say and however long the reply is: from the check  *)
(* of Reply::decode, and from the length check each view makes itself.     *)
(***************************************************************************)
EXTENDS ReplyAccess, TLAPS

-----------------------------------------------------------------------------
(* Arithmetic of rows. *)

LEMMA ProductInNat ==
  ASSUME NEW a \in Nat, NEW b \in Nat PROVE a * b \in Nat
  OBVIOUS

LEMMA CeilDivInNat ==
  ASSUME NEW a \in Nat, NEW b \in Nat \ {0} PROVE CeilDiv(a, b) \in Nat
<1>1. a + b - 1 \in Nat
  OBVIOUS
<1>2. QED
  BY <1>1 DEF CeilDiv

(* A row that is no longer than its stride lies in what all strides take. *)
LEMMA RowFits ==
  ASSUME NEW h \in Nat, NEW stride \in Nat, NEW row \in Nat, NEW len \in Nat,
         NEW y \in 1..h, row <= stride, h * stride <= len
  PROVE  (y - 1) * stride + row <= len
<1>1. PICK d \in Nat : h = y + d
  <2>1. h - y \in Nat /\ h = y + (h - y)
    OBVIOUS
  <2>2. QED
    BY <2>1
<1>2. h * stride = (y - 1) * stride + stride + d * stride
  BY <1>1
<1>3. d * stride \in Nat /\ (y - 1) * stride \in Nat
  BY <1>1, ProductInNat
<1>4. QED
  BY <1>2, <1>3

-----------------------------------------------------------------------------
(* Whole multiples, which is what the casts of bytemuck ask for. *)

LEMMA DivMod ==
  ASSUME NEW a \in Nat, NEW b \in Nat \ {0}
  PROVE  /\ a \div b \in Nat /\ a % b \in Nat /\ a % b < b
         /\ a = (a \div b) * b + (a % b)
  OBVIOUS

LEMMA OneMoreFits ==
  ASSUME NEW x \in Nat, NEW y \in Nat, x < y, NEW b \in Nat
  PROVE  x * b + b <= y * b
<1>1. PICK d \in Nat : y = x + 1 + d
  <2>1. y - x - 1 \in Nat /\ y = x + 1 + (y - x - 1)
    OBVIOUS
  <2>2. QED
    BY <2>1
<1>2. y * b = x * b + b + d * b
  BY <1>1
<1>3. d * b \in Nat /\ x * b \in Nat
  BY <1>1, ProductInNat
<1>4. QED
  BY <1>2, <1>3

LEMMA MultipleMod ==
  ASSUME NEW q \in Nat, NEW b \in Nat \ {0}
  PROVE  (q * b) % b = 0
<1> DEFINE a == q * b
           d == a \div b
           r == a % b
<1>1. a \in Nat
  BY ProductInNat
<1> HIDE DEF a
<1>2. d \in Nat /\ r \in Nat /\ r < b /\ a = d * b + r
  BY <1>1, DivMod
<1> HIDE DEF d, r
<1>3. q * b \in Nat /\ d * b \in Nat
  BY <1>2, ProductInNat
<1>4. ~(d < q)
  <2> SUFFICES ASSUME d < q PROVE FALSE
    OBVIOUS
  <2>1. d * b + b <= q * b
    BY <1>2, OneMoreFits
  <2>2. QED
    BY <1>2, <1>3, <2>1 DEF a
<1>5. ~(q < d)
  <2> SUFFICES ASSUME q < d PROVE FALSE
    OBVIOUS
  <2>1. q * b + b <= d * b
    BY <1>2, OneMoreFits
  <2>2. QED
    BY <1>2, <1>3, <2>1 DEF a
<1>6. d = q
  BY <1>2, <1>4, <1>5
<1>7. r = 0
  BY <1>2, <1>3, <1>6 DEF a
<1>8. QED
  BY <1>7 DEF r, a

(* The place of a row of w elements when no row is padded. *)
RowStart(off, y, w, size) == off + y * (w * size)

(* Rows that follow each other without padding start where the first row   *)
(* would let an element start, if a row is a whole number of elements.     *)
LEMMA RowsAligned ==
  ASSUME NEW off \in Nat, NEW align \in Nat \ {0}, off % align = 0,
         NEW size \in Nat, size % align = 0, NEW w \in Nat, NEW y \in Nat
  PROVE  RowStart(off, y, w, size) % align = 0
<1> DEFINE q == off \div align
           k == size \div align
<1>1. q \in Nat /\ off = q * align /\ k \in Nat /\ size = k * align
  BY DivMod
<1> HIDE DEF q, k
<1>2. y * w \in Nat /\ (y * w) * k \in Nat
  BY <1>1, ProductInNat
<1>3. q + (y * w) * k \in Nat
  BY <1>1, <1>2
<1>4. off + y * (w * size) = (q + (y * w) * k) * align
  <2>1. y * (w * (k * align)) = ((y * w) * k) * align
    BY <1>1
  <2>2. (q + (y * w) * k) * align = q * align + ((y * w) * k) * align
    BY <1>1, <1>2
  <2>3. QED
    BY <1>1, <2>1, <2>2
<1>5. ((q + (y * w) * k) * align) % align = 0
  BY <1>3, MultipleMod
<1>6. QED
  BY <1>4, <1>5, Zenon DEF RowStart

-----------------------------------------------------------------------------
(* Images. *)

(* What from_parts gives a wireframe for a stride may have wrapped, and is *)
(* then short of its row; it is never longer.                              *)
Unstretched(im) ==
  im.of = "wireframe" /\ im.fmt.cat = "color" => im.bpr <= RowLen(im)

(* The numbers of an image, and where Reply::decode found its payload. *)
Sound(im) ==
  /\ im.off \in Nat /\ im.len \in Nat /\ InBuffer(im)
  /\ im.width \in Nat /\ im.height \in Nat /\ im.bpr \in Nat
  /\ im.fmt.bpp \in Nat \ {0} /\ im.fmt.aspect \in Nat \ {0}
  /\ im.fmt.blockBytes \in Nat \ {0}
  /\ im.fmt.block[1] \in Nat \ {0} /\ im.fmt.block[2] \in Nat \ {0}
  /\ Unstretched(im)

Fitting(im, spans) == \A k \in DOMAIN spans : InPayload(im, spans[k])

LEMMA ErrKinds ==
  ASSUME NEW k PROVE Err(k).kind = k
  BY DEF Err

LEMMA FittingSlices ==
  ASSUME NEW im, InBuffer(im), NEW spans, Fitting(im, spans)
  PROVE  Slices(im, spans) = Ok(spans)
  BY DEF Slices, Fitting

LEMMA FittingCasts ==
  ASSUME NEW im, InBuffer(im), NEW spans, Fitting(im, spans), NEW P
  PROVE  Casts(im, P, spans) \in {Ok(spans), Err("Misaligned")}
  BY FittingSlices DEF Casts

LEMMA OneFits ==
  ASSUME NEW im, NEW n \in Nat, im.len \in Nat, n <= im.len
  PROVE  Fitting(im, <<Span(0, n)>>)
<1>1. Span(0, n).at = 0 /\ Span(0, n).n = n
  BY DEF Span
<1>2. InPayload(im, Span(0, n))
  BY <1>1 DEF InPayload
<1>3. QED
  BY <1>2 DEF Fitting

(* A row to a stride. *)
Lines(h, stride, row) == [y \in 1..h |-> Span((y - 1) * stride, row)]

LEMMA RowsFit ==
  ASSUME NEW im, im.len \in Nat, NEW h \in Nat, NEW stride \in Nat, NEW row \in Nat,
         row <= stride, h * stride <= im.len
  PROVE  Fitting(im, Lines(h, stride, row))
<1> SUFFICES ASSUME NEW y \in 1..h PROVE InPayload(im, Lines(h, stride, row)[y])
  BY DEF Fitting, Lines
<1>1. /\ Lines(h, stride, row)[y].at = (y - 1) * stride
      /\ Lines(h, stride, row)[y].n = row
  BY DEF Span, Lines
<1>2. (y - 1) * stride + row <= im.len
  BY RowFits
<1>3. QED
  BY <1>1, <1>2 DEF InPayload

LEMMA SizesInNat ==
  ASSUME NEW im, Sound(im)
  PROVE  /\ AspectBpp(im) \in Nat /\ RowLen(im) \in Nat /\ Need(im) \in Nat
         /\ BlockCols(im) \in Nat /\ BlockRows(im) \in Nat
         /\ TightRow(im) \in Nat /\ FetchedRow(im) \in Nat
         /\ ExpectedLen(im) \in Nat
<1>1. AspectBpp(im) \in Nat
  BY DEF AspectBpp, Sound
<1>2. RowLen(im) \in Nat /\ Need(im) \in Nat
  BY <1>1, ProductInNat DEF RowLen, Need, Sound
<1>3. BlockCols(im) \in Nat /\ BlockRows(im) \in Nat
  BY CeilDivInNat DEF BlockCols, BlockRows, Sound
<1>4. TightRow(im) \in Nat
  BY <1>3, ProductInNat DEF TightRow, Sound
<1>5. im.bpr \div im.fmt.blockBytes \in Nat
  BY DEF Sound
<1>6. FetchedRow(im) \in Nat
  BY <1>5, ProductInNat DEF FetchedRow, Sound
<1>7. BlockCols(im) * BlockRows(im) \in Nat
  BY <1>3, ProductInNat
<1>8. ExpectedLen(im) \in Nat
  BY <1>7, ProductInNat DEF ExpectedLen, Sound
<1>9. QED
  BY <1>1, <1>2, <1>3, <1>4, <1>6, <1>8

(* Where checked_len passes, the stride read is the image's own.           *)
LEMMA StrideIsRead ==
  ASSUME NEW im, Sound(im), RowLen(im) <= im.bpr
  PROVE  Stride(im) = im.bpr
<1>1. RowLen(im) \in Nat /\ im.bpr \in Nat
  BY SizesInNat DEF Sound
<1>2. Unstretched(im)
  BY DEF Sound
<1>3. QED
  BY <1>1, <1>2 DEF Unstretched, Stride

(* What checked_len passes is enough for every row. *)
LEMMA CheckedLen ==
  ASSUME NEW im, Sound(im)
  PROVE  /\ LenError(im) # "Panic"
         /\ LenError(im) = "none" =>
              /\ RowLen(im) <= im.bpr /\ Need(im) <= im.len
              /\ Fitting(im, <<Span(0, Need(im))>>)
              /\ Fitting(im, RowSpans(im))
<1>1. LenError(im) # "Panic"
  BY DEF LenError, Sound
<1>2. CASE LenError(im) = "none"
  <2>1. RowLen(im) <= im.bpr /\ Need(im) <= im.len
    <3>1. ~(im.bpr < RowLen(im)) /\ ~(im.len < Need(im))
      BY <1>2 DEF LenError
    <3>2. QED
      BY <3>1, SizesInNat DEF Sound
  <2>2. Fitting(im, <<Span(0, Need(im))>>)
    BY <2>1, SizesInNat, OneFits DEF Sound
  <2>3. im.height * im.bpr <= im.len
    BY <2>1 DEF Need
  <2>4. Fitting(im, RowSpans(im))
    <3>1. RowSpans(im) = Lines(im.height, im.bpr, RowLen(im))
      BY DEF RowSpans, Lines
    <3>2. QED
      BY <2>1, <2>3, <3>1, SizesInNat, RowsFit DEF Sound
  <2>5. QED
    BY <1>1, <2>1, <2>2, <2>4
<1>3. QED
  BY <1>1, <1>2

-----------------------------------------------------------------------------
(* What the views answer: an error that is no panic, or spans. *)

Refused(answer) == \E k : k \notin {"Panic", "Ok"} /\ answer = Err(k)

Calm(answer) == answer.kind # "Panic"

OneSlice(im) == <<Span(0, Need(im))>>

LEMMA RefusedIsCalm ==
  ASSUME NEW answer, Refused(answer) PROVE Calm(answer) /\ answer.kind # "Ok"
  BY ErrKinds DEF Calm, Refused

LEMMA OkIsCalm ==
  ASSUME NEW spans
  PROVE  Calm(Ok(spans)) /\ Ok(spans).kind = "Ok" /\ Ok(spans).spans = spans
<1>1. Ok(spans).kind = "Ok"
  BY DEF Ok
<1>2. Ok(spans).spans = spans
  BY DEF Ok
<1>3. QED
  BY <1>1, <1>2 DEF Calm

LEMMA AspectErrors ==
  ASSUME NEW im, NEW P
  PROVE  /\ AspectError(im) \notin {"Panic", "Ok"}
         /\ ElementError(im, P) \notin {"Panic", "Ok"}
  BY DEF AspectError, ElementError

LEMMA LenErrors ==
  ASSUME NEW im, Sound(im) PROVE LenError(im) \notin {"Panic", "Ok"}
  BY CheckedLen DEF LenError

LEMMA PixelsAnswer ==
  ASSUME NEW im, Sound(im), NEW P
  PROVE  \/ Refused(Pixels(im, P))
         \/ im.bpr = RowLen(im) /\ Pixels(im, P) = Ok(OneSlice(im))
<1>1. ElementError(im, P) \notin {"Panic", "Ok"} /\ LenError(im) \notin {"Panic", "Ok"}
  BY AspectErrors, LenErrors
<1>2. LenError(im) = "none" =>
        Casts(im, P, OneSlice(im)) \in {Ok(OneSlice(im)), Err("Misaligned")}
  BY CheckedLen, FittingCasts DEF Sound, OneSlice
<1>3. QED
  BY <1>1, <1>2 DEF Pixels, Refused, OneSlice

LEMMA RowsAnswer ==
  ASSUME NEW im, Sound(im), NEW P
  PROVE  \/ Refused(Rows(im, P))
         \/ RowLen(im) <= im.bpr /\ Rows(im, P) = Ok(RowSpans(im))
<1>1. ElementError(im, P) \notin {"Panic", "Ok"} /\ LenError(im) \notin {"Panic", "Ok"}
  BY AspectErrors, LenErrors
<1>2. LenError(im) = "none" =>
        /\ RowLen(im) <= im.bpr
        /\ Casts(im, P, RowSpans(im)) \in {Ok(RowSpans(im)), Err("Misaligned")}
  BY CheckedLen, FittingCasts DEF Sound
<1>3. QED
  BY <1>1, <1>2 DEF Rows, Refused

LEMMA PackedAnswer ==
  ASSUME NEW im, Sound(im)
  PROVE  \/ Refused(PackedBytes(im))
         \/ im.bpr = RowLen(im) /\ PackedBytes(im) = Ok(OneSlice(im))
         \/ RowLen(im) <= im.bpr /\ PackedBytes(im) = Ok(RowSpans(im))
<1>1. AspectError(im) \notin {"Panic", "Ok"} /\ LenError(im) \notin {"Panic", "Ok"}
  BY AspectErrors, LenErrors
<1>2. LenError(im) = "none" =>
        /\ Slices(im, OneSlice(im)) = Ok(OneSlice(im))
        /\ Slices(im, RowSpans(im)) = Ok(RowSpans(im))
        /\ RowLen(im) <= im.bpr
  BY CheckedLen, FittingSlices DEF Sound, OneSlice
<1>3. QED
  BY <1>1, <1>2 DEF PackedBytes, Refused, OneSlice

BlockLines(im) == Lines(BlockRows(im), FetchedRow(im), TightRow(im))
OneBlockSlice(im) == <<Span(0, ExpectedLen(im))>>

(* Blocks by their own rows: the stride is rounded down to whole blocks,   *)
(* and what all rows take is no less than what the geometry needs.         *)
LEMMA BlocksAnswer ==
  ASSUME NEW im, Sound(im)
  PROVE  \/ Refused(PackedBlocks(im))
         \/ /\ FetchedRow(im) = TightRow(im)
            /\ PackedBlocks(im) = Ok(OneBlockSlice(im))
         \/ PackedBlocks(im) = Ok(BlockLines(im))
<1> DEFINE enough == ~(FetchedRow(im) < TightRow(im))
                       /\ ~(im.len < BlockRows(im) * FetchedRow(im))
           least == IF ExpectedLen(im) < im.len THEN ExpectedLen(im) ELSE im.len
<1>1. /\ im.len \in Nat /\ BlockRows(im) * FetchedRow(im) \in Nat
      /\ enough => /\ TightRow(im) <= FetchedRow(im)
                   /\ BlockRows(im) * FetchedRow(im) <= im.len
  BY SizesInNat, ProductInNat DEF Sound
<1>2. enough => Slices(im, BlockLines(im)) = Ok(BlockLines(im))
  BY <1>1, SizesInNat, RowsFit, FittingSlices DEF Sound, BlockLines
<1>3. ASSUME enough, FetchedRow(im) = TightRow(im)
      PROVE  /\ least = ExpectedLen(im)
             /\ Slices(im, <<Span(0, least)>>) = Ok(OneBlockSlice(im))
  <2>1. ExpectedLen(im) = BlockRows(im) * TightRow(im)
    <3>1. im.fmt.blockBytes \in Nat
      BY DEF Sound
    <3>2. QED
      BY <3>1, SizesInNat DEF ExpectedLen, TightRow
  <2>2. ExpectedLen(im) <= im.len
    BY <1>1, <1>3, <2>1
  <2>3. least = ExpectedLen(im)
    BY <1>1, <2>2, SizesInNat
  <2>4. Fitting(im, OneBlockSlice(im))
    BY <1>1, <2>2, SizesInNat, OneFits DEF OneBlockSlice
  <2>5. QED
    BY <2>3, <2>4, FittingSlices DEF Sound, OneBlockSlice
<1>4. InBuffer(im)
  BY DEF Sound
<1>5. BlockLines(im) = [y \in 1..BlockRows(im) |->
                          Span((y - 1) * FetchedRow(im), TightRow(im))]
  BY DEF BlockLines, Lines
<1>6. CASE ~enough \/ im.fmt.cat # "compressed"
  BY <1>4, <1>6 DEF PackedBlocks, Refused
<1>7. CASE enough /\ im.fmt.cat = "compressed" /\ FetchedRow(im) = TightRow(im)
  <2>1. PackedBlocks(im) = Slices(im, <<Span(0, least)>>)
    BY <1>4, <1>7 DEF PackedBlocks
  <2>2. QED
    BY <1>3, <1>7, <2>1
<1>8. CASE enough /\ im.fmt.cat = "compressed" /\ FetchedRow(im) # TightRow(im)
  <2>1. PackedBlocks(im) = Slices(im, BlockLines(im))
    BY <1>4, <1>5, <1>8 DEF PackedBlocks
  <2>2. QED
    BY <1>2, <1>8, <2>1
<1>9. QED
  BY <1>6, <1>7, <1>8

-----------------------------------------------------------------------------
(* Where the spans put the pixels, and the blocks. *)

PixelsPlaced(im, spans) ==
  /\ \/ Len(spans) = 1 /\ spans[1].n = im.height * RowLen(im)
     \/ /\ Len(spans) = im.height
        /\ \A y \in DOMAIN spans : spans[y].n = RowLen(im)
  /\ Apart(spans)
  /\ \A x \in 0..(im.width - 1), y \in 0..(im.height - 1) :
       PixelAt(spans, im, x, y) = y * Stride(im) + x * AspectBpp(im)

BlocksPlaced(im, spans) ==
  /\ \/ Len(spans) = 1 /\ spans[1].n = ExpectedLen(im)
     \/ /\ Len(spans) = BlockRows(im)
        /\ \A y \in DOMAIN spans : spans[y].n = TightRow(im)
  /\ im.bpr % im.fmt.blockBytes = 0 =>
       \A x \in 0..(BlockCols(im) - 1), y \in 0..(BlockRows(im) - 1) :
         BlockAt(spans, im, x, y) = y * im.bpr + x * im.fmt.blockBytes

LEMMA SliceSpans ==
  ASSUME NEW n
  PROVE  Len(<<Span(0, n)>>) = 1 /\ <<Span(0, n)>>[1].at = 0
         /\ <<Span(0, n)>>[1].n = n
  BY DEF Span

LEMMA LineSpans ==
  ASSUME NEW h \in Nat, NEW stride \in Nat, NEW row \in Nat
  PROVE  /\ Len(Lines(h, stride, row)) = h /\ DOMAIN Lines(h, stride, row) = 1..h
         /\ \A y \in 1..h : /\ Lines(h, stride, row)[y].at = (y - 1) * stride
                            /\ Lines(h, stride, row)[y].n = row
<1>1. \E S : Lines(h, stride, row) \in Seq(S)
  <2> DEFINE S == {Span((y - 1) * stride, row) : y \in 1..h}
  <2>1. \A y \in 1..h : Span((y - 1) * stride, row) \in S
    OBVIOUS
  <2> HIDE DEF S
  <2>2. Lines(h, stride, row) \in [1..h -> S]
    BY <2>1 DEF Lines
  <2>3. QED
    BY <2>2
<1>2. Len(Lines(h, stride, row)) = h /\ DOMAIN Lines(h, stride, row) = 1..h
  BY <1>1 DEF Lines
<1>3. \A y \in 1..h : Lines(h, stride, row)[y] = Span((y - 1) * stride, row)
  BY DEF Lines
<1>4. \A at, n : Span(at, n).at = at /\ Span(at, n).n = n
  BY DEF Span
<1>5. QED
  BY <1>2, <1>3, <1>4

(* The places of a row-major array, by its width or by its stride. *)
LEMMA RowMajor ==
  ASSUME NEW x \in Nat, NEW y \in Nat, NEW w \in Nat, NEW b \in Nat
  PROVE  (y * w + x) * b = y * (w * b) + x * b
  OBVIOUS

LEMMA OneSlicePlaces ==
  ASSUME NEW im, Sound(im), im.bpr = RowLen(im)
  PROVE  PixelsPlaced(im, OneSlice(im))
<1>1. /\ Len(OneSlice(im)) = 1 /\ OneSlice(im)[1].at = 0
      /\ OneSlice(im)[1].n = im.height * RowLen(im)
  BY SliceSpans DEF OneSlice, Need
<1>2. ASSUME NEW x \in 0..(im.width - 1), NEW y \in 0..(im.height - 1)
      PROVE  PixelAt(OneSlice(im), im, x, y) = y * im.bpr + x * AspectBpp(im)
  <2>1. x \in Nat /\ y \in Nat /\ im.width \in Nat /\ AspectBpp(im) \in Nat
    BY SizesInNat DEF Sound
  <2>2. (y * im.width + x) * AspectBpp(im) = y * RowLen(im) + x * AspectBpp(im)
    BY <2>1, RowMajor DEF RowLen
  <2>3. PixelAt(OneSlice(im), im, x, y) = 0 + (y * im.width + x) * AspectBpp(im)
    BY <1>1 DEF PixelAt
  <2>4. (y * im.width + x) * AspectBpp(im) \in Nat
    BY <2>1, ProductInNat
  <2>5. QED
    BY <2>2, <2>3, <2>4
<1>3. Stride(im) = im.bpr
  BY SizesInNat, StrideIsRead
<1>4. Apart(OneSlice(im))
  BY <1>1 DEF Apart
<1>5. QED
  BY <1>1, <1>2, <1>3, <1>4 DEF PixelsPlaced

(* A line ends before the next one starts. *)
LEMMA LinesApart ==
  ASSUME NEW n \in Nat, NEW stride \in Nat, n <= stride, NEW y \in Nat \ {0}
  PROVE  (y - 1) * stride + n <= y * stride
<1>1. y * stride = (y - 1) * stride + stride
  OBVIOUS
<1>2. (y - 1) * stride \in Nat
  BY ProductInNat
<1>3. QED
  BY <1>1, <1>2

LEMMA RowSpansPlace ==
  ASSUME NEW im, Sound(im), RowLen(im) <= im.bpr
  PROVE  PixelsPlaced(im, RowSpans(im))
<1>1. RowSpans(im) = Lines(im.height, im.bpr, RowLen(im))
  BY DEF RowSpans, Lines
<1>2. /\ Len(RowSpans(im)) = im.height /\ DOMAIN RowSpans(im) = 1..im.height
      /\ \A y \in 1..im.height : /\ RowSpans(im)[y].at = (y - 1) * im.bpr
                                 /\ RowSpans(im)[y].n = RowLen(im)
  <2>1. im.height \in Nat /\ im.bpr \in Nat /\ RowLen(im) \in Nat
    BY SizesInNat DEF Sound
  <2> DEFINE lines == Lines(im.height, im.bpr, RowLen(im))
  <2>2. /\ Len(lines) = im.height /\ DOMAIN lines = 1..im.height
        /\ \A y \in 1..im.height : /\ lines[y].at = (y - 1) * im.bpr
                                   /\ lines[y].n = RowLen(im)
    BY <2>1, LineSpans, Zenon
  <2> HIDE DEF lines
  <2>3. QED
    BY <1>1, <2>2, Zenon DEF lines
<1>3. ASSUME NEW x \in 0..(im.width - 1), NEW y \in 0..(im.height - 1)
      PROVE  PixelAt(RowSpans(im), im, x, y) = y * im.bpr + x * AspectBpp(im)
  <2>1. /\ x \in Nat /\ y \in Nat /\ im.width \in Nat /\ im.bpr \in Nat
        /\ AspectBpp(im) \in Nat /\ y + 1 \in 1..im.height
    BY SizesInNat DEF Sound
  <2>2. RowSpans(im)[y + 1].at = y * im.bpr
    BY <1>2, <2>1
  <2>3. CASE im.height = 1
    <3>1. y = 0 /\ RowSpans(im)[1].at = 0
      BY <2>1, <2>2, <2>3
    <3>2. PixelAt(RowSpans(im), im, x, y)
            = RowSpans(im)[1].at + (y * im.width + x) * AspectBpp(im)
      BY <1>2, <2>3 DEF PixelAt
    <3>3. y * im.width + x = x /\ y * im.bpr = 0
      BY <2>1, <3>1
    <3>4. QED
      BY <3>1, <3>2, <3>3
  <2>4. CASE im.height # 1
    BY <1>2, <2>2, <2>4 DEF PixelAt
  <2>5. QED
    BY <2>3, <2>4
<1>4. Stride(im) = im.bpr
  BY StrideIsRead
<1>5. Apart(RowSpans(im))
  <2> SUFFICES ASSUME NEW y \in 1..(im.height - 1)
               PROVE  RowSpans(im)[y].at + RowSpans(im)[y].n
                        <= RowSpans(im)[y + 1].at
    BY <1>2 DEF Apart
  <2>1. /\ im.height \in Nat /\ im.bpr \in Nat /\ RowLen(im) \in Nat
        /\ y \in Nat \ {0} /\ y \in 1..im.height /\ y + 1 \in 1..im.height
    BY SizesInNat DEF Sound
  <2>2. (y - 1) * im.bpr + RowLen(im) <= y * im.bpr
    BY <2>1, LinesApart
  <2>3. RowSpans(im)[y + 1].at = y * im.bpr
    BY <1>2, <2>1
  <2>4. RowSpans(im)[y].at = (y - 1) * im.bpr /\ RowSpans(im)[y].n = RowLen(im)
    BY <1>2, <2>1
  <2>5. QED
    BY <2>2, <2>3, <2>4
<1>6. QED
  BY <1>2, <1>3, <1>4, <1>5 DEF PixelsPlaced

LEMMA WholeBlocks ==
  ASSUME NEW n \in Nat, NEW b \in Nat \ {0}, n % b = 0
  PROVE  (n \div b) * b = n
  OBVIOUS

LEMMA OneBlockSlicePlaces ==
  ASSUME NEW im, Sound(im), FetchedRow(im) = TightRow(im)
  PROVE  BlocksPlaced(im, OneBlockSlice(im))
<1>1. /\ Len(OneBlockSlice(im)) = 1 /\ OneBlockSlice(im)[1].at = 0
      /\ OneBlockSlice(im)[1].n = ExpectedLen(im)
  BY SliceSpans DEF OneBlockSlice
<1>2. ASSUME im.bpr % im.fmt.blockBytes = 0,
             NEW x \in 0..(BlockCols(im) - 1), NEW y \in 0..(BlockRows(im) - 1)
      PROVE  BlockAt(OneBlockSlice(im), im, x, y)
               = y * im.bpr + x * im.fmt.blockBytes
  <2>1. x \in Nat /\ y \in Nat /\ BlockCols(im) \in Nat /\ im.fmt.blockBytes \in Nat
    BY SizesInNat DEF Sound
  <2>2. im.bpr = TightRow(im)
    BY <1>2, WholeBlocks DEF FetchedRow, Sound
  <2>3. (y * BlockCols(im) + x) * im.fmt.blockBytes
          = y * im.bpr + x * im.fmt.blockBytes
    BY <2>1, <2>2, RowMajor DEF TightRow
  <2>4. (y * BlockCols(im) + x) * im.fmt.blockBytes \in Nat
    BY <2>1, ProductInNat
  <2>5. BlockAt(OneBlockSlice(im), im, x, y)
          = 0 + (y * BlockCols(im) + x) * im.fmt.blockBytes
    BY <1>1 DEF BlockAt
  <2>6. QED
    BY <2>3, <2>4, <2>5
<1>3. QED
  BY <1>1, <1>2 DEF BlocksPlaced

LEMMA BlockLinesPlace ==
  ASSUME NEW im, Sound(im) PROVE BlocksPlaced(im, BlockLines(im))
<1>1. /\ Len(BlockLines(im)) = BlockRows(im)
      /\ DOMAIN BlockLines(im) = 1..BlockRows(im)
      /\ \A y \in 1..BlockRows(im) :
           /\ BlockLines(im)[y].at = (y - 1) * FetchedRow(im)
           /\ BlockLines(im)[y].n = TightRow(im)
  <2>1. BlockRows(im) \in Nat /\ FetchedRow(im) \in Nat /\ TightRow(im) \in Nat
    BY SizesInNat
  <2>2. QED
    BY <2>1, LineSpans, Zenon DEF BlockLines
<1>2. ASSUME im.bpr % im.fmt.blockBytes = 0,
             NEW x \in 0..(BlockCols(im) - 1), NEW y \in 0..(BlockRows(im) - 1)
      PROVE  BlockAt(BlockLines(im), im, x, y) = y * im.bpr + x * im.fmt.blockBytes
  <2>1. /\ x \in Nat /\ y \in Nat /\ BlockCols(im) \in Nat
        /\ im.fmt.blockBytes \in Nat /\ im.bpr \in Nat /\ BlockRows(im) \in Nat
        /\ y + 1 \in 1..BlockRows(im)
    BY SizesInNat DEF Sound
  <2>2. FetchedRow(im) = im.bpr
    BY <1>2, WholeBlocks DEF FetchedRow, Sound
  <2>3. BlockLines(im)[y + 1].at = y * im.bpr
    BY <1>1, <2>1, <2>2
  <2>4. CASE BlockRows(im) = 1
    <3>1. y = 0 /\ BlockLines(im)[1].at = 0
      BY <2>1, <2>3, <2>4
    <3>2. BlockAt(BlockLines(im), im, x, y)
            = BlockLines(im)[1].at + (y * BlockCols(im) + x) * im.fmt.blockBytes
      BY <1>1, <2>4 DEF BlockAt
    <3>3. y * BlockCols(im) + x = x /\ y * im.bpr = 0
      BY <2>1, <3>1
    <3>4. QED
      BY <3>1, <3>2, <3>3
  <2>5. CASE BlockRows(im) # 1
    BY <1>1, <2>3, <2>5 DEF BlockAt
  <2>6. QED
    BY <2>4, <2>5
<1>3. QED
  BY <1>1, <1>2 DEF BlocksPlaced

(* A view's answer to one look. *)
Placed(view, kind, spans, im) ==
  /\ kind = "Ok" /\ view \in {"pixels", "rows", "packed"} => PixelsPlaced(im, spans)
  /\ kind = "Ok" /\ view = "blocks" => BlocksPlaced(im, spans)

Meets(view, answer, im) ==
  Calm(answer) /\ Placed(view, answer.kind, answer.spans, im)

LEMMA RefusedMeets ==
  ASSUME NEW view, NEW answer, Refused(answer), NEW im
  PROVE  Meets(view, answer, im)
  BY RefusedIsCalm DEF Meets, Placed

LEMMA PixelsMeet ==
  ASSUME NEW view \in {"pixels", "rows", "packed"}, NEW answer, NEW spans, NEW im,
         answer = Ok(spans), PixelsPlaced(im, spans)
  PROVE  Meets(view, answer, im)
  BY OkIsCalm DEF Meets, Placed

LEMMA BlocksMeet ==
  ASSUME NEW answer, NEW spans, NEW im, answer = Ok(spans), BlocksPlaced(im, spans)
  PROVE  Meets("blocks", answer, im)
  BY OkIsCalm DEF Meets, Placed

LEMMA EveryViewMeets ==
  ASSUME NEW im, Sound(im)
  PROVE  /\ \A P : Meets("pixels", Pixels(im, P), im)
         /\ \A P : Meets("rows", Rows(im, P), im)
         /\ Meets("packed", PackedBytes(im), im)
         /\ Meets("blocks", PackedBlocks(im), im)
<1>1. ASSUME NEW P PROVE Meets("pixels", Pixels(im, P), im)
  BY PixelsAnswer, RefusedMeets, PixelsMeet, OneSlicePlaces
<1>2. ASSUME NEW P PROVE Meets("rows", Rows(im, P), im)
  BY RowsAnswer, RefusedMeets, PixelsMeet, RowSpansPlace
<1>3. Meets("packed", PackedBytes(im), im)
  BY PackedAnswer, RefusedMeets, PixelsMeet, OneSlicePlaces, RowSpansPlace
<1>4. Meets("blocks", PackedBlocks(im), im)
  BY BlocksAnswer, RefusedMeets, BlocksMeet, OneBlockSlicePlaces, BlockLinesPlace
<1>5. QED
  BY <1>1, <1>2, <1>3, <1>4

-----------------------------------------------------------------------------
(* The invariant: what decode has accepted lies in the blob, and so does   *)
(* the payload of every handle made of it; a look is at a handle.          *)

IInv ==
  /\ dataLen \in Nat
  /\ phase \in {"raw", "accepted"} => ranges \in Seq(Ranges)
  /\ phase = "accepted" =>
       \A k \in DOMAIN ranges : ranges[k].off + ranges[k].size <= dataLen
  /\ phase = "held" => Sound(image)
  /\ phase # "held" => result.kind = "none"
  /\ Calm(result)
  /\ Placed(result.view, result.kind, result.spans, image)

LEMMA InitInv == Init => IInv
<1> SUFFICES ASSUME Init PROVE IInv
  OBVIOUS
<1>1. dataLen \in Nat
  BY AccessAssumption DEF Init
<1>2. ranges \in Seq(Ranges)
  BY AccessAssumption DEF Init
<1>3. result.kind = "none"
  BY DEF Init, Unread
<1>4. QED
  BY <1>1, <1>2, <1>3 DEF Init, IInv, Calm, Placed

LEMMA FieldsInNat ==
  /\ Offsets \subseteq Nat /\ Sizes \subseteq Nat
  /\ Widths \subseteq Nat /\ Heights \subseteq Nat /\ Strides \subseteq Nat
<1>1. \A S \in {Offsets, Sizes, Widths, Heights, Strides} : S \subseteq 0..(U32 - 1)
  BY AccessAssumption
<1>2. 0..(U32 - 1) \subseteq Nat
  BY AccessAssumption
<1>3. QED
  BY <1>1, <1>2

LEMMA HoldKeeps ==
  ASSUME IInv, phase = "accepted", NEW of, NEW k \in DOMAIN ranges,
         NEW w \in Widths, NEW h \in Heights, NEW bpr \in Nat, NEW f \in Formats,
         of = "wireframe" /\ f.cat = "color" => bpr <= w * f.bpp,
         Hold(of, ranges[k], w, h, bpr, f)
  PROVE  IInv'
<1> DEFINE r == ranges[k]
<1>1. r \in Ranges /\ r.off + r.size <= dataLen
  BY DEF IInv
<1>2. r.off \in Nat /\ r.size \in Nat
  BY <1>1, FieldsInNat DEF Ranges
<1>3. f \in FormatKinds
  BY AccessAssumption
<1>4. /\ f.bpp \in Nat \ {0} /\ f.aspect \in Nat \ {0} /\ f.blockBytes \in Nat \ {0}
      /\ f.block[1] \in Nat \ {0} /\ f.block[2] \in Nat \ {0}
  BY <1>3 DEF FormatKinds
<1> DEFINE im == [of |-> of, off |-> r.off, len |-> r.size,
                  width |-> w, height |-> h, bpr |-> bpr, fmt |-> f]
<1>5. /\ im.off = r.off /\ im.len = r.size /\ im.width = w /\ im.height = h
      /\ im.bpr = bpr /\ im.fmt = f /\ im.of = of
  BY Zenon
<1>6. image' = im /\ dataLen' = dataLen /\ result' = result /\ phase' = "held"
  BY DEF Hold
<1> HIDE DEF im, r
<1>7. Sound(im)
  <2>1. InBuffer(im)
    BY <1>1, <1>5 DEF InBuffer
  <2>2. im.width \in Nat /\ im.height \in Nat /\ im.bpr \in Nat
    BY <1>5, FieldsInNat
  <2>3. im.fmt = f
    BY <1>5
  <2>4. im.off \in Nat /\ im.len \in Nat
    BY <1>2, <1>5
  <2>5. Unstretched(im)
    BY <1>5 DEF Unstretched, RowLen, AspectBpp
  <2>6. QED
    BY <1>4, <2>1, <2>2, <2>3, <2>4, <2>5 DEF Sound
<1>8. Sound(image')
  BY <1>6, <1>7
<1>9. Sound(image)'
  BY <1>6, <1>8 DEF Sound, InBuffer, Unstretched, RowLen, AspectBpp
<1>10. QED
  BY <1>6, <1>9 DEF IInv, Calm, Placed

LEMMA DecodeStep ==
  ASSUME IInv, Decode PROVE IInv'
<1>1. /\ phase = "raw" /\ dataLen' = dataLen /\ ranges' = ranges
      /\ result' = result
      /\ \/ phase' = "rejected"
         \/ /\ phase' = "accepted"
            /\ \A k \in DOMAIN ranges : ranges[k].off + ranges[k].size <= dataLen
  BY DEF Decode
<1>2. QED
  BY <1>1 DEF IInv, Calm, Placed

LEMMA TextureStep ==
  ASSUME IInv, NEW k, NEW w \in Widths, NEW h \in Heights, NEW bpr \in Strides,
         NEW f \in Formats, HoldTexture(k, w, h, bpr, f)
  PROVE  IInv'
<1>1. bpr \in Nat
  BY FieldsInNat
<1>2. QED
  BY <1>1, HoldKeeps DEF HoldTexture

LEMMA ModShrinks ==
  ASSUME NEW a \in Nat, NEW b \in Nat \ {0} PROVE a % b <= a
<1>1. (a \div b) * b \in Nat
  BY DivMod, ProductInNat
<1>2. QED
  BY <1>1, DivMod

LEMMA WireframeStep ==
  ASSUME IInv, NEW k, NEW w \in Widths, NEW h \in Heights, NEW f \in Formats,
         HoldWireframe(k, w, h, f)
  PROVE  IInv'
<1>1. CASE Hold("wireframe", ranges[k], w, h, (w * NominalBpp(f)) % U32, f)
  <2>1. NominalBpp(f) \in Nat
    BY AccessAssumption DEF NominalBpp, FormatKinds
  <2>2. w * NominalBpp(f) \in Nat
    BY <2>1, FieldsInNat, ProductInNat
  <2>3. (w * NominalBpp(f)) % U32 \in Nat
    BY <2>2, AccessAssumption
  <2>4. f.cat = "color" => (w * NominalBpp(f)) % U32 <= w * f.bpp
    <3>1. (w * NominalBpp(f)) % U32 <= w * NominalBpp(f)
      BY <2>2, ModShrinks, AccessAssumption
    <3>2. QED
      BY <3>1 DEF NominalBpp
  <2>5. QED
    BY <1>1, <2>3, <2>4, HoldKeeps DEF HoldWireframe
<1>2. CASE phase' = "overflowed" /\ UNCHANGED <<slop, dataLen, ranges, image, result>>
  BY <1>2 DEF IInv, Calm, Placed, HoldWireframe
<1>3. QED
  BY <1>1, <1>2 DEF HoldWireframe

LEMMA LookStep ==
  ASSUME IInv, NEW view, NEW answer, Meets(view, answer, image), Look(view, answer)
  PROVE  IInv'
<1>1. /\ phase = "held" /\ phase' = phase /\ dataLen' = dataLen
      /\ ranges' = ranges /\ image' = image
      /\ result' = [view |-> view, kind |-> answer.kind, spans |-> answer.spans]
  BY DEF Look
<1>2. result'.view = view /\ result'.kind = answer.kind /\ result'.spans = answer.spans
  BY <1>1, Zenon
<1>3. Calm(result') /\ Placed(result'.view, result'.kind, result'.spans, image')
  BY <1>1, <1>2 DEF Meets, Calm
<1>4. Sound(image)'
  BY <1>1 DEF IInv, Sound, InBuffer, Unstretched, RowLen,
       AspectBpp
<1>5. QED
  BY <1>1, <1>3, <1>4 DEF IInv, Calm, Placed, PixelsPlaced, BlocksPlaced

LEMMA NextInv == IInv /\ [Next]_vars => IInv'
<1> SUFFICES ASSUME IInv, [Next]_vars PROVE IInv'
  OBVIOUS
<1>1. CASE UNCHANGED vars
  <2>1. IInv' = IInv
    BY <1>1 DEF IInv, vars, Sound, InBuffer, Calm, Placed, PixelsPlaced,
       BlocksPlaced, PixelAt, BlockAt, Stride
  <2>2. QED
    BY <2>1
<1>2. CASE Decode
  BY <1>2, DecodeStep
<1>3. ASSUME NEW k \in 1..MaxRecords, NEW w \in Widths, NEW h \in Heights,
             NEW f \in Formats,
             \/ \E bpr \in Strides : HoldTexture(k, w, h, bpr, f)
             \/ HoldWireframe(k, w, h, f)
      PROVE  IInv'
  BY <1>3, TextureStep, WireframeStep
<1>4. ASSUME NEW P \in Elements,
             Look("pixels", Pixels(image, P)) \/ Look("rows", Rows(image, P))
      PROVE  IInv'
  <2>1. Sound(image)
    BY <1>4 DEF Look, IInv
  <2>2. QED
    BY <1>4, <2>1, EveryViewMeets, LookStep
<1>5. CASE Look("packed", PackedBytes(image)) \/ Look("blocks", PackedBlocks(image))
  <2>1. Sound(image)
    BY <1>5 DEF Look, IInv
  <2>2. QED
    BY <1>5, <2>1, EveryViewMeets, LookStep
<1>6. QED
  BY <1>1, <1>2, <1>3, <1>4, <1>5 DEF Next

LEMMA IInvAlways == Spec => []IInv
  BY InitInv, NextInv, PTL DEF Spec

(* No view panics on a record that decode accepted: for every reply, every *)
(* format table, every geometry and every type a caller reads it as.       *)
THEOREM NoViewPanics == Spec => []ViewsNeverPanic
<1>1. IInv => ViewsNeverPanic
  BY DEF IInv, Calm, ViewsNeverPanic
<1>2. QED
  BY <1>1, IInvAlways, PTL

(* A view that answers gives the declared pixels and no other byte.        *)
THEOREM PixelsArePlaced == Spec => []PixelsInPlace
<1>1. IInv => PixelsInPlace
  BY DEF IInv, Placed, PixelsPlaced, PixelsInPlace
<1>2. QED
  BY <1>1, IInvAlways, PTL

(* Packed blocks are those of the geometry, each from its own place.       *)
THEOREM BlocksArePlaced == Spec => []BlocksInPlace
<1>1. IInv => BlocksInPlace
  BY DEF IInv, Placed, BlocksPlaced, BlocksInPlace
<1>2. QED
  BY <1>1, IInvAlways, PTL

-----------------------------------------------------------------------------
(* The views of one image against each other. *)

LEMMA OkIsNoErr ==
  ASSUME NEW k, Err(k).kind = "Ok" PROVE k = "Ok"
  BY ErrKinds

(* A view that answers has found neither of the errors it looks for first. *)
LEMMA RowsOk ==
  ASSUME NEW im, Sound(im), NEW P, Rows(im, P).kind = "Ok"
  PROVE  ElementError(im, P) = "none" /\ LenError(im) = "none"
<1>1. ElementError(im, P) # "Ok" /\ LenError(im) # "Ok"
  BY AspectErrors, LenErrors
<1>2. QED
  BY <1>1, OkIsNoErr DEF Rows

LEMMA PackedOk ==
  ASSUME NEW im, Sound(im), PackedBytes(im).kind = "Ok"
  PROVE  AspectError(im) = "none" /\ LenError(im) = "none"
<1>1. AspectError(im) # "Ok" /\ LenError(im) # "Ok"
  BY AspectErrors, LenErrors
<1>2. QED
  BY <1>1, OkIsNoErr DEF PackedBytes

LEMMA PixelsOk ==
  ASSUME NEW im, Sound(im), NEW P, Pixels(im, P).kind = "Ok"
  PROVE  /\ ElementError(im, P) = "none" /\ LenError(im) = "none"
         /\ im.bpr = RowLen(im)
         /\ ~Misfits(im, P, Span(0, Need(im)))
<1>1. ElementError(im, P) # "Ok" /\ LenError(im) # "Ok"
  BY AspectErrors, LenErrors
<1>2. Err("Padded").kind # "Ok" /\ Err("Misaligned").kind # "Ok"
  BY ErrKinds
<1>3. /\ ElementError(im, P) = "none" /\ LenError(im) = "none"
      /\ im.bpr = RowLen(im)
      /\ Casts(im, P, OneSlice(im)).kind = "Ok"
  BY <1>1, <1>2, OkIsNoErr DEF Pixels, OneSlice
<1>4. Slices(im, OneSlice(im)).kind = "Ok"
  <2>1. Slices(im, OneSlice(im)) = Ok(OneSlice(im))
    BY <1>3, CheckedLen, FittingSlices DEF Sound, OneSlice
  <2>2. QED
    BY <2>1, OkIsCalm
<1>5. ~\E k \in DOMAIN OneSlice(im) : Misfits(im, P, OneSlice(im)[k])
  BY <1>2, <1>3, <1>4 DEF Casts
<1>6. 1 \in DOMAIN OneSlice(im) /\ OneSlice(im)[1] = Span(0, Need(im))
  BY DEF OneSlice
<1>7. QED
  BY <1>3, <1>5, <1>6

(* Rows without padding, of whole elements that start aligned, all do.     *)
LEMMA PixelsThenRows ==
  ASSUME NEW im, Sound(im), NEW P,
         P.size \in Nat \ {0}, P.align \in Nat \ {0}, P.size % P.align = 0,
         Pixels(im, P).kind = "Ok"
  PROVE  Rows(im, P).kind = "Ok"
<1>1. /\ ElementError(im, P) = "none" /\ LenError(im) = "none"
      /\ im.bpr = RowLen(im)
      /\ ~Misfits(im, P, Span(0, Need(im)))
  BY PixelsOk
<1>2. RowLen(im) = im.width * P.size
  BY <1>1 DEF ElementError, RowLen
<1>3. im.off \in Nat /\ im.width \in Nat /\ im.height \in Nat
  BY DEF Sound
<1>4. im.off % P.align = 0
  <2>1. Span(0, Need(im)).at = 0
    BY DEF Span
  <2>2. (im.off + 0) % P.align = 0
    BY <1>1, <2>1 DEF Misfits
  <2>3. QED
    BY <1>3, <2>2
<1>5. ASSUME NEW y \in 1..im.height
      PROVE  ~Misfits(im, P, Span((y - 1) * im.bpr, RowLen(im)))
  <2>1. y - 1 \in Nat
    BY <1>3
  <2>2. (im.off + (y - 1) * (im.width * P.size)) % P.align = 0
    <3> DEFINE before == y - 1
               off == im.off
               w == im.width
               size == P.size
               align == P.align
    <3>1. /\ off \in Nat /\ w \in Nat /\ before \in Nat /\ size \in Nat
          /\ align \in Nat \ {0} /\ size % align = 0 /\ off % align = 0
      BY <1>3, <1>4, <2>1
    <3> HIDE DEF before, off, w, size, align
    <3>2. RowStart(off, before, w, size) % align = 0
      BY <3>1, RowsAligned
    <3>3. QED
      BY <3>2 DEF before, off, w, size, align, RowStart
  <2>3. (im.width * P.size) % P.size = 0
    BY <1>3, MultipleMod
  <2> DEFINE s == Span((y - 1) * im.bpr, RowLen(im))
  <2>4. s.at = (y - 1) * im.bpr /\ s.n = RowLen(im)
    BY DEF Span
  <2> HIDE DEF s
  <2>5. im.off + s.at = im.off + (y - 1) * (im.width * P.size)
    BY <1>1, <1>2, <2>4
  <2>6. s.n = im.width * P.size
    BY <1>2, <2>4
  <2>7. ~Misfits(im, P, s)
    BY <2>2, <2>3, <2>5, <2>6, Zenon DEF Misfits
  <2>8. QED
    BY <2>7 DEF s
<1>6. ~\E y \in DOMAIN RowSpans(im) : Misfits(im, P, RowSpans(im)[y])
  BY <1>5 DEF RowSpans
<1>7. Slices(im, RowSpans(im)) = Ok(RowSpans(im))
  BY <1>1, CheckedLen, FittingSlices DEF Sound
<1>8. Rows(im, P) = Ok(RowSpans(im))
  BY <1>1, <1>6, <1>7 DEF Rows, Casts
<1>9. QED
  BY <1>8, OkIsCalm

LEMMA RowsThenPacked ==
  ASSUME NEW im, Sound(im), NEW P, Rows(im, P).kind = "Ok"
  PROVE  PackedBytes(im).kind = "Ok"
<1>1. ElementError(im, P) = "none" /\ LenError(im) = "none"
  BY RowsOk
<1>2. AspectError(im) = "none"
  BY <1>1 DEF ElementError
<1>3. /\ Slices(im, OneSlice(im)) = Ok(OneSlice(im))
      /\ Slices(im, RowSpans(im)) = Ok(RowSpans(im))
  BY <1>1, CheckedLen, FittingSlices DEF Sound, OneSlice
<1>4. PackedBytes(im) \in {Ok(OneSlice(im)), Ok(RowSpans(im))}
  BY <1>1, <1>2, <1>3 DEF PackedBytes, OneSlice
<1>5. QED
  BY <1>4, OkIsCalm

LEMMA PackedThenRows ==
  ASSUME NEW im, Sound(im), NEW P, P.size = AspectBpp(im),
         PackedBytes(im).kind = "Ok"
  PROVE  Rows(im, P).kind \in {"Ok", "Misaligned"}
<1>1. AspectError(im) = "none" /\ LenError(im) = "none"
  BY PackedOk
<1>2. ElementError(im, P) = "none"
  BY <1>1 DEF ElementError
<1>3. Rows(im, P) = Casts(im, P, RowSpans(im))
  BY <1>1, <1>2 DEF Rows
<1>4. Casts(im, P, RowSpans(im)) \in {Ok(RowSpans(im)), Err("Misaligned")}
  BY <1>1, CheckedLen, FittingCasts DEF Sound
<1>5. QED
  BY <1>3, <1>4, OkIsCalm, ErrKinds

(* What one view can read the others can: of a sound image, whatever its   *)
(* geometry, its format and the type it is read as.                        *)
THEOREM TheViewsAgree == Spec => []ViewsAgree
<1>1. IInv => ViewsAgree
  <2> SUFFICES ASSUME IInv, phase = "held", NEW P \in Elements
               PROVE  /\ Pixels(image, P).kind = "Ok" => Rows(image, P).kind = "Ok"
                      /\ Rows(image, P).kind = "Ok" => PackedBytes(image).kind = "Ok"
                      /\ PackedBytes(image).kind = "Ok" /\ P.size = AspectBpp(image) =>
                           Rows(image, P).kind \in {"Ok", "Misaligned"}
    BY DEF ViewsAgree
  <2>1. Sound(image)
    BY DEF IInv
  <2>2. P.size \in Nat \ {0} /\ P.align \in Nat \ {0} /\ P.size % P.align = 0
    BY AccessAssumption
  <2>3. QED
    BY <2>1, <2>2, PixelsThenRows, RowsThenPacked, PackedThenRows
<1>2. QED
  BY <1>1, IInvAlways, PTL
=============================================================================
