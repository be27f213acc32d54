----------------------------- MODULE PayloadViews -----------------------------
(***************************************************************************)
(* From the bytes to the caller, for what is not an image: an info record  *)
(* is decoded, a handle is made of its payload, and the handle is asked    *)
(* for typed views (buffer.rs, accel.rs); and the blocks the harvester     *)
(* reads from a bundle's own files (harvester.rs).                         *)
(*                                                                         *)
(* A record is traced one byte at a time: `hot` is the byte with a value,  *)
(* `seen` where that value shows once the record is decoded.  A payload is *)
(* where it lies in its 16-aligned buffer, and what its header counts.     *)
(***************************************************************************)
EXTENDS RecordLayout

CONSTANTS
  UsizeMax,   (* usize::MAX of the build                                 *)
  Elements,   (* [size, align]: the types a caller takes slices of       *)
  Payloads,   (* [off, len, count]: the payloads of fetched records      *)
  Files,      (* [magic, type, meta, len, count]: a bundle's blocks      *)
  Indices     (* the plane indices a caller asks for                     *)

(* A payload and a file are in memory when they are looked at; a type has  *)
(* a size and an alignment (a slice of a type of size 0 is not asked for). *)
ASSUME WidthAssumption ==
  /\ UsizeMax \in Nat
  /\ Elements \subseteq [size : Nat \ {0}, align : Nat \ {0}]
  /\ Payloads \subseteq [off : Nat, len : Nat, count : Nat]
  /\ \A p \in Payloads : p.off + p.len <= UsizeMax
  /\ Files \subseteq [magic : BOOLEAN, type : Nat, meta : Nat, len : Nat, count : Nat]
  /\ \A f \in Files : f.len <= UsizeMax
  /\ Indices \subseteq Nat

VARIABLES
  stage,   (* "info", "record", "handle"; or "file", "block"             *)
  class,   (* of the record or handle                                    *)
  hot, seen,
  payload, (* of the handle or block                                     *)
  view     (* what the last call on it returned                          *)

vars == <<stage, class, hot, seen, payload, view>>

NoByte    == STRIDE
NoPayload == [magic |-> FALSE, type |-> 0, meta |-> 0, off |-> 0, len |-> 0, count |-> 0]

(* A view of elems elements, in bytes from..to-1 of the buffer; or why     *)
(* there is none.                                                          *)
View(what, arg, err, from, to) ==
  [what |-> what, arg |-> arg, err |-> err, from |-> from, to |-> to]
NoArg       == [size |-> 1, align |-> 1, index |-> 0]
NoView      == View("none", NoArg, "", 0, 0)
Refused(what, arg, why) == View(what, arg, why, 0, 0)

Init ==
  /\ \/ /\ stage = "info"
        /\ class \in Classes
        /\ hot \in 0 .. STRIDE - 1
        /\ payload = NoPayload
     \/ /\ stage = "file"
        /\ class = "block"
        /\ hot = NoByte
        /\ \E f \in Files :
             payload = [magic |-> f.magic, type |-> f.type, meta |-> f.meta,
                        off |-> 0, len |-> f.len, count |-> f.count]
  /\ seen = {}
  /\ view = NoView

-----------------------------------------------------------------------------
(* Record::decode of the class. *)
Decode ==
  /\ stage = "info"
  /\ stage' = "record"
  /\ seen' = Places(class, hot)
  /\ UNCHANGED <<class, hot, payload, view>>

(* from_parts: the handle keeps the payload, not the record. *)
Hand ==
  /\ stage = "record"
  /\ class \in {"buffer", "heap", "accel"}
  /\ stage' = "handle"
  /\ hot' = NoByte
  /\ seen' = {}
  /\ \E p \in Payloads :
       payload' = [magic |-> FALSE, type |-> 0, meta |-> 0,
                   off |-> p.off, len |-> p.len, count |-> p.count]
  /\ UNCHANGED <<class, view>>

Show(v) == view' = v /\ UNCHANGED <<stage, class, hot, seen, payload>>

(* checked_mul and checked_add; their result is used only when fits. *)
WrappingMul(a, b) == [fits |-> TRUE, value |-> (a * b) % (UsizeMax + 1)]
CheckedMul(a, b) == [fits |-> a * b <= UsizeMax, value |-> a * b]
CheckedAdd(a, b)  == [fits |-> a + b <= UsizeMax, value |-> a + b]

(* bytemuck::try_cast_slice of `elems` bytes at `from`. *)
Aligned(from, arg) == from % arg.align = 0

(* Buffer::as_slice and Heap::as_slice. *)
as_slice ==
  /\ stage = "handle" /\ class \in {"buffer", "heap"}
  /\ \E e \in Elements :
       LET arg == [NoArg EXCEPT !.size = e.size, !.align = e.align]
       IN  Show(IF Aligned(payload.off, arg) /\ payload.len % e.size = 0
                  THEN View("slice", arg, "", payload.off, payload.off + payload.len)
                  ELSE Refused("slice", arg, "FormatMismatch"))

TRIANGLE_COUNT_OFFSET == \h2c
VERTICES_OFFSET       == \h418
VertexArg == [NoArg EXCEPT !.size = 12, !.align = 4]

(* AccelStructure::total_size and aabb: a field that is there, or nothing. *)
HeaderField(what, first, end) ==
  /\ stage = "handle" /\ class = "accel"
  /\ Show(IF payload.len >= end
            THEN View(what, NoArg, "", payload.off + first, payload.off + end)
            ELSE Refused(what, NoArg, "None"))

total_size == HeaderField("total_size", \h08, \h10)
aabb       == HeaderField("aabb", \ha0, \hb8)

(* AccelStructure::triangles. *)
triangles ==
  /\ stage = "handle" /\ class = "accel"
  /\ LET verts == CheckedMul(payload.count, 3)
         need  == CheckedMul(verts.value, VertexArg.size)
         end   == CheckedAdd(VERTICES_OFFSET, need.value)
         from  == payload.off + VERTICES_OFFSET
     IN  Show(IF \/ payload.len < TRIANGLE_COUNT_OFFSET + 4
                 \/ ~verts.fits \/ ~need.fits \/ ~end.fits
                 \/ end.value > payload.len
                THEN Refused("triangles", VertexArg, "Truncated")
              ELSE IF ~Aligned(from, VertexArg)
                THEN Refused("triangles", VertexArg, "Misaligned")
              ELSE View("triangles", VertexArg, "", from, payload.off + end.value))

-----------------------------------------------------------------------------
HEADER_LEN     == \h18
PLANE_DESC_LEN == \h30
PlaneArg(i)    == [NoArg EXCEPT !.size = PLANE_DESC_LEN, !.index = i]

PlanesFit(planes_end) == planes_end <= payload.len

(* Both regions must end inside the file. *)
RegionsFit(planes_end) == payload.meta <= payload.len /\ planes_end <= payload.len

(* CaptureBlock::parse. *)
parse ==
  /\ stage = "file"
  /\ LET planes == CheckedMul(payload.count, PLANE_DESC_LEN)
         end    == CheckedAdd(planes.value, HEADER_LEN)
         err    == IF payload.len < HEADER_LEN \/ ~payload.magic THEN "BadMagic"
                   ELSE IF payload.type # 1 THEN "WrongType"
                   ELSE IF ~planes.fits \/ ~end.fits \/ ~RegionsFit(end.value)
                     THEN "Truncated"
                   ELSE ""
     IN  /\ view' = View("parse", NoArg, err, 0, IF err = "" THEN payload.len ELSE 0)
         /\ stage' = IF err = "" THEN "block" ELSE stage
  /\ UNCHANGED <<class, hot, seen, payload>>

(* CaptureBlock::plane, of any index a caller asks for. *)
plane(i) ==
  /\ stage = "block"
  /\ LET o   == CheckedAdd(CheckedMul(i, PLANE_DESC_LEN).value, HEADER_LEN)
         end == CheckedAdd(o.value, PLANE_DESC_LEN)
     IN  Show(IF \/ i >= payload.count
                 \/ ~CheckedMul(i, PLANE_DESC_LEN).fits \/ ~o.fits
                 \/ ~end.fits \/ end.value > payload.len
                THEN Refused("plane", PlaneArg(i), "None")
              ELSE View("plane", PlaneArg(i), "", o.value, end.value))

(* CaptureBlock::data: the slice from metadata_size on; it panics if that  *)
(* is past the end.                                                        *)
data ==
  /\ stage = "block"
  /\ Show(IF payload.meta <= payload.len
            THEN View("data", NoArg, "", payload.meta, payload.len)
            ELSE Refused("data", NoArg, "panic"))

Next ==
  \/ Decode
  \/ Hand
  \/ as_slice
  \/ total_size
  \/ aabb
  \/ triangles
  \/ parse
  \/ \E i \in Indices : plane(i)
  \/ data

Spec == Init /\ [][Next]_vars

-----------------------------------------------------------------------------
(* A byte of a record is never decoded into two places, whatever the class *)
(* and the byte, and none of a slot that no field reads is lost: with      *)
(* every list of offsets written by hand, a slot left out of one or named  *)
(* twice would decode every reply without complaint.  (What is lost of a   *)
(* slot that a field reads in part is another matter: NothingDropped.)     *)
BytesSeenOnce ==
  stage = "record" =>
    /\ \A p, q \in seen : p = q
    /\ seen = {} => SlotIsRead(class, hot)

(* "each decoder preserves the slots it does not interpret in `unmapped`   *)
(* rather than silently dropping them" (reply.rs:142-145): a byte of the   *)
(* record shows somewhere in what is decoded.                              *)
NothingDropped == stage = "record" => seen # {}

(* A view v of a payload p lies inside it, is a whole number of aligned    *)
(* elements, and is as long as the header says.                            *)
Fits(p, v) ==
  /\ v.err # "panic"
  /\ (v.what # "none" /\ v.err = "") =>
       /\ p.off <= v.from
       /\ v.from <= v.to
       /\ v.to <= p.off + p.len
       /\ (v.to - v.from) % v.arg.size = 0
       /\ v.from % v.arg.align = 0
       /\ v.what = "triangles" => v.to - v.from = p.count * 3 * v.arg.size

(* Every view that is given out fits its own payload; nothing panics. *)
ViewsFit == Fits(payload, view)

(* The answer a call must give, said with numbers that never overflow. *)
Reason(p, v) ==
  CASE v.what = "slice" ->
         IF p.len % v.arg.size # 0 \/ p.off % v.arg.align # 0
           THEN "FormatMismatch" ELSE ""
    [] v.what = "total_size" -> IF p.len < 16 THEN "None" ELSE ""
    [] v.what = "aabb"       -> IF p.len < 184 THEN "None" ELSE ""
    [] v.what = "triangles"  ->
         IF p.len < 48 \/ p.len < 1048 + 36 * p.count THEN "Truncated"
         ELSE IF p.off % 4 # 0 THEN "Misaligned" ELSE ""
    [] v.what = "parse" ->
         IF p.len < 24 \/ ~p.magic THEN "BadMagic"
         ELSE IF p.type # 1 THEN "WrongType"
         ELSE IF p.meta > p.len \/ 24 + 48 * p.count > p.len THEN "Truncated" ELSE ""
    [] v.what = "plane" -> IF v.arg.index >= p.count THEN "None" ELSE ""
    [] OTHER -> ""

(* A call is refused for the reason that holds and for no other, even when *)
(* a count off the wire overflows a word: every plane of a block that      *)
(* parsed can be read, and every triangle the payload has room for.        *)
RefusedForCause == view.err = Reason(payload, view)
=============================================================================
