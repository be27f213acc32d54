----------------------------- MODULE ReplyAccess -----------------------------
(***************************************************************************)
(* From a reply's bytes to pixels: Reply::decode checks where each record  *)
(* says its payload lies, Texture and Wireframe take the geometry the      *)
(* record declares, and the views of image.rs read the payload by it.      *)
(* Every number comes off the wire and none is to be trusted alone.        *)
(*                                                                         *)
(* A byte is its position; what a view returns is the spans of positions   *)
(* it read.  The record fields are u32 (the height u16), the arithmetic of *)
(* the views is usize, which on the 64-bit targets of the framework holds  *)
(* every product of two of them.  One product is taken in u32: U32 is its  *)
(* modulus.                                                                *)
(***************************************************************************)
EXTENDS Naturals, Sequences

CONSTANTS
  U32,         (* 2^32                                                     *)
  Formats,     (* what the format table says of a pixel format             *)
  Elements,    (* the types P a caller may ask for, by size and alignment  *)
  MaxRecords,  (* bound on the records of a reply                          *)
  DataLens,    (* lengths of the `data` blob                               *)
  Offsets, Sizes, Widths, Heights, Strides   (* the record's fields        *)

Categories == {"color", "depth", "stencil", "combined", "compressed",
               "unknown"}

(* An entry of the format table.  bpp is bytes_per_pixel, which for a      *)
(* stencil aspect counts the padding of its nominal format; aspect is the  *)
(* size of that aspect as it is fetched; aligned is byte_aligned, false of *)
(* the packed colors.                                                      *)
FormatKinds ==
  [cat : Categories, bpp : Nat \ {0}, aligned : BOOLEAN, aspect : Nat \ {0},
   block : (Nat \ {0}) \X (Nat \ {0}), blockBytes : Nat \ {0}]

(* FormatKind::byte_aligned, which a flat slice of pixels would ask for.   *)
ByteAligned(f) ==
  \/ f.cat = "color" /\ f.aligned
  \/ f.cat \in {"depth", "stencil"}

ASSUME AccessAssumption ==
  /\ U32 \in Nat \ {0}
  /\ Formats \subseteq FormatKinds
  /\ Elements \subseteq [size : Nat \ {0}, align : Nat \ {0}]
  /\ \A P \in Elements : P.size % P.align = 0
  /\ MaxRecords \in Nat
  /\ DataLens \subseteq Nat
  /\ \A S \in {Offsets, Sizes, Widths, Heights, Strides} :
       S \subseteq 0..(U32 - 1)

VARIABLES
  phase,     (* raw, rejected, accepted, held or overflowed                *)
  slop,      (* the info table is not a whole number of records            *)
  dataLen,   (* the length of the data blob, later of the shared buffer    *)
  ranges,    (* the records' (offset, size), while the reply is held       *)
  image,     (* the handle made of one record                              *)
  result     (* of the latest read                                         *)

vars == <<phase, slop, dataLen, ranges, image, result>>

Ranges == [off : Offsets, size : Sizes]
Images == [of : {"texture", "wireframe"}, off : Offsets, len : Sizes,
           width : Widths, height : Heights, bpr : 0..(U32 - 1), fmt : Formats]
NoImage == [of |-> "nothing"]

Span(at, n) == [at |-> at, n |-> n]
Spans       == [at : Nat, n : Nat]
Errors == {"WrongCategory", "UnknownFormat", "FormatMismatch", "Padded",
           "Truncated", "Misaligned"}
Views   == {"pixels", "rows", "packed", "blocks"}
Unread  == [view |-> "none", kind |-> "none", spans |-> <<>>]

TypeOK ==
  /\ phase \in {"raw", "rejected", "accepted", "held", "overflowed"}
  /\ slop \in BOOLEAN
  /\ dataLen \in DataLens
  /\ ranges \in Seq(Ranges)
  /\ image \in Images \cup {NoImage}
  /\ result.view \in Views \cup {"none"}
  /\ result.kind \in Errors \cup {"none", "Ok", "Panic"}
  /\ result.spans \in Seq(Spans)

Init ==
  /\ phase = "raw"
  /\ slop \in BOOLEAN
  /\ dataLen \in DataLens
  /\ ranges \in UNION {[1..m -> Ranges] : m \in 0..MaxRecords}
  /\ image = NoImage
  /\ result = Unread

-----------------------------------------------------------------------------
(* What the views compute.  `im` is the image, P the element asked for.    *)

Ok(spans) == [kind |-> "Ok", spans |-> spans]
Err(kind) == [kind |-> kind, spans |-> <<>>]

CeilDiv(a, b) == (a + b - 1) \div b

(* Payload::bytes slices the shared buffer; a span slices the payload.     *)
InBuffer(im)      == im.off + im.len <= dataLen
InPayload(im, s)  == s.at + s.n <= im.len
Slices(im, spans) ==
  IF InBuffer(im) /\ \A k \in DOMAIN spans : InPayload(im, spans[k])
    THEN Ok(spans)
    ELSE Err("Panic")

(* bytemuck::try_cast_slice, on slices of a buffer that starts aligned for *)
(* every P: both of its refusals are reported as Misaligned.               *)
Misfits(im, P, s) == (im.off + s.at) % P.align # 0 \/ s.n % P.size # 0
Casts(im, P, spans) ==
  IF Slices(im, spans).kind = "Ok" /\ \E k \in DOMAIN spans : Misfits(im, P, spans[k])
    THEN Err("Misaligned")
    ELSE Slices(im, spans)

(* aspect_bpp: the size of one element of the aspect that is present.      *)
AspectBpp(im) ==
  IF im.fmt.cat = "color" THEN im.fmt.bpp ELSE im.fmt.aspect

AspectError(im) ==
  IF im.fmt.cat \in {"combined", "compressed"} THEN "WrongCategory"
  ELSE IF im.fmt.cat = "unknown" THEN "UnknownFormat"
  ELSE "none"

(* checked_bpp *)
ElementError(im, P) ==
  IF AspectError(im) # "none" THEN AspectError(im)
  ELSE IF P.size # AspectBpp(im) THEN "FormatMismatch"
  ELSE "none"

RowLen(im) == im.width * AspectBpp(im)
Need(im)   == im.height * im.bpr

LenErrorStrideTrusting(im) ==
  IF ~InBuffer(im) THEN "Panic"
  ELSE IF im.len < Need(im) THEN "Truncated"
  ELSE "none"

(* checked_len: a row fits its stride, all rows fit the payload.           *)
LenError(im) ==
  IF im.bpr < RowLen(im) THEN "Truncated"
  ELSE IF ~InBuffer(im) THEN "Panic"
  ELSE IF im.len < Need(im) THEN "Truncated"
  ELSE "none"

RowSpans(im) == [y \in 1..im.height |-> Span((y - 1) * im.bpr, RowLen(im))]

(* The whole geometry in one slice: only of unpadded rows. *)
Pixels(im, P) ==
  IF ElementError(im, P) # "none" THEN Err(ElementError(im, P))
  ELSE IF im.bpr # RowLen(im) THEN Err("Padded")
  ELSE IF LenError(im) # "none" THEN Err(LenError(im))
  ELSE Casts(im, P, <<Span(0, Need(im))>>)

(* One slice to a row, without its padding. *)
Rows(im, P) ==
  IF ElementError(im, P) # "none" THEN Err(ElementError(im, P))
  ELSE IF LenError(im) # "none" THEN Err(LenError(im))
  ELSE Casts(im, P, RowSpans(im))

PackedBytesNominal(im) ==
  LET row == im.width * im.fmt.bpp
  IN  IF AspectError(im) # "none" THEN Err(AspectError(im))
      ELSE IF im.bpr < row \/ im.len < Need(im) THEN Err("Truncated")
      ELSE Slices(im, [y \in 1..im.height |-> Span((y - 1) * im.bpr, row)])

(* packed_bytes: the rows without padding, borrowed when there is none.    *)
PackedBytes(im) ==
  IF AspectError(im) # "none" THEN Err(AspectError(im))
  ELSE IF LenError(im) # "none" THEN Err(LenError(im))
  ELSE IF im.bpr = RowLen(im) THEN Slices(im, <<Span(0, Need(im))>>)
  ELSE Slices(im, RowSpans(im))

BlockCols(im)   == CeilDiv(im.width, im.fmt.block[1])
BlockRows(im)   == CeilDiv(im.height, im.fmt.block[2])
TightRow(im)    == BlockCols(im) * im.fmt.blockBytes
FetchedRowNominal(im) == BlockCols(im) * im.fmt.blockBytes
FetchedRow(im)  == (im.bpr \div im.fmt.blockBytes) * im.fmt.blockBytes
ExpectedLen(im) == BlockCols(im) * BlockRows(im) * im.fmt.blockBytes

(* blocks, then packed_blocks: whole blocks without padding blocks.        *)
PackedBlocks(im) ==
  IF im.fmt.cat # "compressed" THEN Err("WrongCategory")
  ELSE IF ~InBuffer(im) THEN Err("Panic")
  ELSE IF FetchedRow(im) < TightRow(im) THEN Err("Truncated")
  ELSE IF im.len < BlockRows(im) * FetchedRow(im) THEN Err("Truncated")
  ELSE IF FetchedRow(im) = TightRow(im)
    THEN Slices(im, <<Span(0, IF ExpectedLen(im) < im.len
                                THEN ExpectedLen(im) ELSE im.len)>>)
  ELSE Slices(im, [y \in 1..BlockRows(im) |->
                     Span((y - 1) * FetchedRow(im), TightRow(im))])

-----------------------------------------------------------------------------
DecodeInU32 ==
  /\ phase = "raw"
  /\ phase' = IF ~slop /\ \A k \in DOMAIN ranges :
                            (ranges[k].off + ranges[k].size) % U32 <= dataLen
                THEN "accepted" ELSE "rejected"
  /\ UNCHANGED <<slop, dataLen, ranges, image, result>>

(* Reply::decode: a whole number of records, and every payload within the  *)
(* data blob; one record that is not rejects the reply.                    *)
Decode ==
  /\ phase = "raw"
  /\ phase' = IF ~slop /\ \A k \in DOMAIN ranges :
                            ranges[k].off + ranges[k].size <= dataLen
                THEN "accepted" ELSE "rejected"
  /\ UNCHANGED <<slop, dataLen, ranges, image, result>>

(* A handle keeps the shared buffer, its payload's place in it and the     *)
(* record's geometry; the reply is dropped.  The geometry is chosen here,  *)
(* decode does not look at it.                                             *)
Hold(of, r, w, h, bpr, f) ==
  /\ phase' = "held"
  /\ image' = [of |-> of, off |-> r.off, len |-> r.size,
               width |-> w, height |-> h, bpr |-> bpr, fmt |-> f]
  /\ ranges' = <<>>
  /\ UNCHANGED <<slop, dataLen, result>>

HoldTexture(k, w, h, bpr, f) ==
  /\ phase = "accepted"
  /\ k \in DOMAIN ranges
  /\ Hold("texture", ranges[k], w, h, bpr, f)

(* bytes_per_pixel().unwrap_or(0) *)
NominalBpp(f) == IF f.cat \in {"compressed", "unknown"} THEN 0 ELSE f.bpp

(* A wireframe record has no stride: it is width * bytes_per_pixel, in     *)
(* u32.  Where that overflows, a build with overflow checks panics and one *)
(* without them wraps.                                                     *)
HoldWireframe(k, w, h, f) ==
  /\ phase = "accepted"
  /\ k \in DOMAIN ranges
  /\ \/ Hold("wireframe", ranges[k], w, h, (w * NominalBpp(f)) % U32, f)
     \/ /\ w * NominalBpp(f) >= U32
        /\ phase' = "overflowed"
        /\ UNCHANGED <<slop, dataLen, ranges, image, result>>

Look(view, answer) ==
  /\ phase = "held"
  /\ result' = [view |-> view, kind |-> answer.kind, spans |-> answer.spans]
  /\ UNCHANGED <<phase, slop, dataLen, ranges, image>>

Next ==
  \/ Decode
  \/ \E k \in 1..MaxRecords, w \in Widths, h \in Heights, f \in Formats :
       \/ \E bpr \in Strides : HoldTexture(k, w, h, bpr, f)
       \/ HoldWireframe(k, w, h, f)
  \/ \E P \in Elements :
       Look("pixels", Pixels(image, P)) \/ Look("rows", Rows(image, P))
  \/ image.of = "texture" /\ Look("packed", PackedBytes(image))
  \/ image.of = "texture" /\ Look("blocks", PackedBlocks(image))

Spec == Init /\ [][Next]_vars

-----------------------------------------------------------------------------
(* Properties. *)

(* No view of an accepted record slices outside its payload or the buffer, *)
(* however the fields of the record disagree with each other.              *)
ViewsNeverPanic == result.kind # "Panic"

(* What a view returns is the declared image and nothing else: h rows of w *)
(* pixels, pixel (x, y) from y strides and x sizes, no byte of padding,    *)
(* none past the geometry and none twice (image.rs: exact or an error).    *)
(* The stride is the record's; a wireframe has none and is unpadded, so a  *)
(* product that wrapped in u32 is no stride of it.                         *)
Stride(im) ==
  IF im.of = "wireframe" /\ im.fmt.cat = "color" THEN RowLen(im) ELSE im.bpr

PixelAt(spans, im, x, y) ==
  IF Len(spans) = 1
    THEN spans[1].at + (y * im.width + x) * AspectBpp(im)
    ELSE spans[y + 1].at + x * AspectBpp(im)

Apart(spans) ==
  \A y \in 1..(Len(spans) - 1) : spans[y].at + spans[y].n <= spans[y + 1].at

PixelsInPlace ==
  result.kind = "Ok" /\ result.view \in {"pixels", "rows", "packed"} =>
    LET spans == result.spans
    IN  /\ \/ Len(spans) = 1 /\ spans[1].n = image.height * RowLen(image)
           \/ /\ Len(spans) = image.height
              /\ \A y \in DOMAIN spans : spans[y].n = RowLen(image)
        /\ Apart(spans)
        /\ \A x \in 0..(image.width - 1), y \in 0..(image.height - 1) :
             PixelAt(spans, image, x, y)
               = y * Stride(image) + x * AspectBpp(image)

(* What Texture::pixels documents: Ok only when the format is a            *)
(* byte-aligned color or a single aspect.  checked_bpp compares sizes and  *)
(* never asks whether the channels are whole bytes.                        *)
PixelsOnlyByteAligned ==
  result.kind = "Ok" /\ result.view = "pixels" /\ image.of = "texture" =>
    ByteAligned(image.fmt)

(* The views agree on what they can read: pixels that can be had in one    *)
(* slice can be had by rows, rows that can be had can be packed, and what  *)
(* can be packed can be had by rows of any type that fits and is aligned.  *)
ViewsAgree ==
  phase = "held" =>
    \A P \in Elements :
      /\ Pixels(image, P).kind = "Ok" => Rows(image, P).kind = "Ok"
      /\ Rows(image, P).kind = "Ok" => PackedBytes(image).kind = "Ok"
      /\ PackedBytes(image).kind = "Ok" /\ P.size = AspectBpp(image) =>
           Rows(image, P).kind \in {"Ok", "Misaligned"}

(* Packed blocks are as many as the geometry has and nothing else, and if  *)
(* the stride is a whole number of blocks each comes from its own place:   *)
(* block (x, y) from y * bytes_per_row + x * block_bytes (packed_blocks).  *)
BlockAt(spans, im, x, y) ==
  IF Len(spans) = 1
    THEN spans[1].at + (y * BlockCols(im) + x) * im.fmt.blockBytes
    ELSE spans[y + 1].at + x * im.fmt.blockBytes

BlocksInPlace ==
  result.kind = "Ok" /\ result.view = "blocks" =>
    LET spans == result.spans
    IN  /\ \/ Len(spans) = 1 /\ spans[1].n = ExpectedLen(image)
           \/ /\ Len(spans) = BlockRows(image)
              /\ \A y \in DOMAIN spans : spans[y].n = TightRow(image)
        /\ image.bpr % image.fmt.blockBytes = 0 =>
             \A x \in 0..(BlockCols(image) - 1), y \in 0..(BlockRows(image) - 1) :
               BlockAt(spans, image, x, y)
                 = y * image.bpr + x * image.fmt.blockBytes
=============================================================================
