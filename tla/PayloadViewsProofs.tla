-------------------------- MODULE PayloadViewsProofs --------------------------
(***************************************************************************)
(* The typed views of a payload and of a bundle's block, for payloads of   *)
(* any length, counts of any size and any width of the machine word; and   *)
(* where each byte of an info record shows, for every class of record.     *)
(***************************************************************************)
EXTENDS PayloadViews, TLAPS

(* A payload lies in memory. *)
InMemory ==
  payload \in [magic : BOOLEAN, type : Nat, meta : Nat, off : Nat, len : Nat,
               count : Nat]
    /\ payload.off + payload.len <= UsizeMax

(* A block that parsed has both its regions inside the file. *)
BlockFits ==
  /\ stage \in {"file", "block"} => payload.off = 0
  /\ stage = "block" =>
       /\ payload.meta <= payload.len
       /\ HEADER_LEN + PLANE_DESC_LEN * payload.count <= payload.len

(* No view exists before the payload it is of. *)
ViewsComeLater == stage \in {"info", "record"} => view = NoView

IInv ==
  /\ InMemory
  /\ BlockFits
  /\ ViewsComeLater
  /\ ViewsFit
  /\ RefusedForCause

-----------------------------------------------------------------------------
(* The offsets, in decimal. *)
LEMMA Offsets ==
  /\ TRIANGLE_COUNT_OFFSET = 44 /\ VERTICES_OFFSET = 1048
  /\ HEADER_LEN = 24 /\ PLANE_DESC_LEN = 48
  BY DEF TRIANGLE_COUNT_OFFSET, VERTICES_OFFSET, HEADER_LEN, PLANE_DESC_LEN

(* What makes a view good: it fits, and it says what is the case. *)
Good(p, v) == Fits(p, v) /\ v.err = Reason(p, v)

LEMMA NoViewIsGood ==
  ASSUME NEW p
  PROVE  Good(p, NoView)
  BY DEF Good, Fits, Reason, NoView, View

LEMMA NoViewIsFine ==
  ASSUME view = NoView PROVE ViewsFit /\ RefusedForCause
  BY NoViewIsGood DEF Good, ViewsFit, RefusedForCause

LEMMA InitInv == Init => IInv
<1> SUFFICES ASSUME Init PROVE IInv
  OBVIOUS
<1>1. CASE stage = "info"
  <2>1. payload = NoPayload /\ view = NoView
    BY <1>1 DEF Init
  <2>2. InMemory
    BY <2>1, WidthAssumption DEF InMemory, NoPayload
  <2>3. QED
    BY <1>1, <2>1, <2>2, NoViewIsFine DEF IInv, BlockFits, ViewsComeLater
<1>2. CASE stage = "file"
  <2>1. PICK f \in Files :
          payload = [magic |-> f.magic, type |-> f.type, meta |-> f.meta,
                     off |-> 0, len |-> f.len, count |-> f.count]
    BY <1>2 DEF Init
  <2>2. InMemory
    BY <2>1, WidthAssumption DEF InMemory
  <2>3. QED
    BY <1>2, <2>2, NoViewIsFine DEF Init, IInv, BlockFits, ViewsComeLater
<1>3. QED
  BY <1>1, <1>2 DEF Init

-----------------------------------------------------------------------------
(* A call that only shows a view keeps the rest. *)
LEMMA ShowKeeps ==
  ASSUME IInv, NEW v, Show(v), stage \notin {"info", "record"}, Good(payload, v)
  PROVE  IInv'
<1>1. UNCHANGED <<stage, payload>> /\ view' = v
  BY DEF Show
<1>2. InMemory' /\ BlockFits'
  BY <1>1 DEF IInv, InMemory, BlockFits
<1>3. ViewsComeLater'
  BY <1>1 DEF ViewsComeLater
<1>4. ViewsFit' /\ RefusedForCause'
  BY <1>1 DEF Good, ViewsFit, RefusedForCause
<1>5. QED
  BY <1>2, <1>3, <1>4 DEF IInv

LEMMA PayloadTypes ==
  ASSUME IInv
  PROVE  /\ payload.off \in Nat /\ payload.len \in Nat /\ payload.count \in Nat
         /\ payload.meta \in Nat /\ UsizeMax \in Nat
         /\ payload.off + payload.len <= UsizeMax
  BY WidthAssumption DEF IInv, InMemory

LEMMA GoodSlice ==
  ASSUME NEW p, p.off \in Nat, p.len \in Nat,
         NEW size \in Nat \ {0}, NEW align \in Nat \ {0}, NEW arg,
         arg.size = size, arg.align = align
  PROVE  Good(p, IF p.off % align = 0 /\ p.len % size = 0
                   THEN View("slice", arg, "", p.off, p.off + p.len)
                   ELSE Refused("slice", arg, "FormatMismatch"))
<1>1. CASE p.off % align = 0 /\ p.len % size = 0
  <2>1. p.off + p.len - p.off = p.len
    OBVIOUS
  <2>2. QED
    BY <1>1, <2>1 DEF Good, Fits, Reason, View
<1>2. CASE ~(p.off % align = 0 /\ p.len % size = 0)
  BY <1>2 DEF Good, Fits, Reason, View, Refused
<1>3. QED
  BY <1>1, <1>2

LEMMA SliceNext == IInv /\ as_slice => IInv'
<1> SUFFICES ASSUME IInv, as_slice PROVE IInv'
  OBVIOUS
<1>1. PICK e \in Elements :
        LET arg == [NoArg EXCEPT !.size = e.size, !.align = e.align]
        IN  Show(IF Aligned(payload.off, arg) /\ payload.len % e.size = 0
                   THEN View("slice", arg, "", payload.off, payload.off + payload.len)
                   ELSE Refused("slice", arg, "FormatMismatch"))
  BY DEF as_slice
<1> DEFINE arg == [NoArg EXCEPT !.size = e.size, !.align = e.align]
<1> DEFINE shown == IF Aligned(payload.off, arg) /\ payload.len % e.size = 0
                      THEN View("slice", arg, "", payload.off,
                                payload.off + payload.len)
                      ELSE Refused("slice", arg, "FormatMismatch")
<1>2. /\ e.size \in Nat \ {0} /\ e.align \in Nat \ {0}
      /\ arg.size = e.size /\ arg.align = e.align
  BY WidthAssumption DEF NoArg
<1>3. Show(shown)
  BY <1>1
<1>4. Good(payload, shown)
  <2> HIDE DEF arg
  <2>1. QED
    BY <1>2, GoodSlice, PayloadTypes DEF Aligned
<1>5. QED
  BY <1>3, <1>4, ShowKeeps DEF as_slice

LEMMA HeaderNext ==
  ASSUME IInv, NEW what, NEW first \in Nat, NEW end \in Nat, first <= end,
         \/ what = "total_size" /\ end = 16
         \/ what = "aabb" /\ end = 184,
         HeaderField(what, first, end)
  PROVE  IInv'
<1>1. CASE payload.len >= end
  <2>1. Show(View(what, NoArg, "", payload.off + first, payload.off + end))
    BY <1>1 DEF HeaderField
  <2>2. Good(payload, View(what, NoArg, "", payload.off + first, payload.off + end))
    BY <1>1, PayloadTypes DEF Good, Fits, Reason, View, NoArg
  <2>3. QED
    BY <2>1, <2>2, ShowKeeps DEF HeaderField
<1>2. CASE ~(payload.len >= end)
  <2>1. Show(Refused(what, NoArg, "None"))
    BY <1>2 DEF HeaderField
  <2>2. Good(payload, Refused(what, NoArg, "None"))
    BY <1>2, PayloadTypes DEF Good, Fits, Reason, View, Refused, NoArg
  <2>3. QED
    BY <2>1, <2>2, ShowKeeps DEF HeaderField
<1>3. QED
  BY <1>1, <1>2

(* Whether one of the three checked operations overflows, or their result  *)
(* is past the payload: either way the payload is too short.               *)
LEMMA CheckedTriangles ==
  ASSUME NEW c \in Nat, NEW len \in Nat, NEW m \in Nat, len <= m
  PROVE  \/ ~(c * 3 <= m) \/ ~(c * 3 * 12 <= m) \/ ~(1048 + c * 3 * 12 <= m)
         \/ 1048 + c * 3 * 12 > len
         <=> len < 1048 + 36 * c
  OBVIOUS

LEMMA Checked ==
  ASSUME NEW a, NEW b
  PROVE  /\ CheckedMul(a, b).fits <=> a * b <= UsizeMax
         /\ CheckedMul(a, b).value = a * b
         /\ CheckedAdd(a, b).fits <=> a + b <= UsizeMax
         /\ CheckedAdd(a, b).value = a + b
  BY Zenon DEF CheckedMul, CheckedAdd

LEMMA TrianglesNext == IInv /\ triangles => IInv'
<1> SUFFICES ASSUME IInv, triangles PROVE IInv'
  OBVIOUS
<1> DEFINE p == payload
<1> DEFINE verts == CheckedMul(p.count, 3)
<1> DEFINE need == CheckedMul(verts.value, 12)
<1> DEFINE end == CheckedAdd(1048, need.value)
<1> DEFINE short == \/ p.len < 48
                    \/ ~verts.fits \/ ~need.fits \/ ~end.fits
                    \/ end.value > p.len
<1> DEFINE fit == View("triangles", VertexArg, "", p.off + 1048, p.off + end.value)
<1>1. stage \notin {"info", "record"}
  BY DEF triangles
<1>2. Show(IF short THEN Refused("triangles", VertexArg, "Truncated")
           ELSE IF ~((p.off + 1048) % 4 = 0)
             THEN Refused("triangles", VertexArg, "Misaligned")
           ELSE fit)
  <2>1. /\ VertexArg.size = 12 /\ VertexArg.align = 4
        /\ TRIANGLE_COUNT_OFFSET + 4 = 48 /\ VERTICES_OFFSET = 1048
    BY Offsets DEF VertexArg, NoArg
  <2> DEFINE bytes == CheckedMul(verts.value, VertexArg.size)
  <2> DEFINE last == CheckedAdd(VERTICES_OFFSET, bytes.value)
  <2>2. Show(IF \/ p.len < TRIANGLE_COUNT_OFFSET + 4
                \/ ~verts.fits \/ ~bytes.fits \/ ~last.fits
                \/ last.value > p.len
               THEN Refused("triangles", VertexArg, "Truncated")
             ELSE IF ~Aligned(p.off + VERTICES_OFFSET, VertexArg)
               THEN Refused("triangles", VertexArg, "Misaligned")
             ELSE View("triangles", VertexArg, "", p.off + VERTICES_OFFSET,
                       p.off + last.value))
    BY Zenon DEF triangles
  <2>3. bytes = need /\ last = end
    BY <2>1
  <2>4. Aligned(p.off + VERTICES_OFFSET, VertexArg) <=> (p.off + 1048) % 4 = 0
    BY <2>1 DEF Aligned
  <2> HIDE DEF bytes, last, need, end
  <2>5. \/ p.len < TRIANGLE_COUNT_OFFSET + 4
        \/ ~verts.fits \/ ~bytes.fits \/ ~last.fits
        \/ last.value > p.len
        <=> short
    BY <2>1, <2>3
  <2>6. View("triangles", VertexArg, "", p.off + VERTICES_OFFSET, p.off + last.value)
        = fit
    BY <2>1, <2>3
  <2> HIDE DEF short, fit, verts
  <2>7. /\ UNCHANGED <<stage, class, hot, seen, payload>>
        /\ short => view' = Refused("triangles", VertexArg, "Truncated")
        /\ ~short /\ ~((p.off + 1048) % 4 = 0) =>
             view' = Refused("triangles", VertexArg, "Misaligned")
        /\ ~short /\ (p.off + 1048) % 4 = 0 => view' = fit
    BY <2>2, <2>4, <2>5, <2>6 DEF Show
  <2>8. QED
    BY <2>7 DEF Show
<1>3. short <=> p.len < 48 \/ p.len < 1048 + 36 * p.count
  <2>1. p.len <= UsizeMax
    BY PayloadTypes
  <2>2. /\ verts.fits <=> p.count * 3 <= UsizeMax
        /\ need.fits <=> p.count * 3 * 12 <= UsizeMax
        /\ end.fits <=> 1048 + p.count * 3 * 12 <= UsizeMax
        /\ end.value = 1048 + p.count * 3 * 12
    BY Checked
  <2> HIDE DEF verts, need, end
  <2>3. QED
    BY <2>1, <2>2, CheckedTriangles, PayloadTypes
<1>4. end.value = 1048 + p.count * 3 * 12
  BY DEF CheckedMul, CheckedAdd
<1>5. (p.off + 1048) % 4 = p.off % 4
  BY PayloadTypes
<1> HIDE DEF short, end
<1>6. CASE short
  <2>1. Good(p, Refused("triangles", VertexArg, "Truncated"))
    BY <1>3, <1>6 DEF Good, Fits, Reason, Refused, View
  <2>2. Show(Refused("triangles", VertexArg, "Truncated"))
    BY <1>2, <1>6
  <2>3. QED
    BY <1>1, <2>1, <2>2, ShowKeeps
<1>7. CASE ~short /\ ~((p.off + 1048) % 4 = 0)
  <2>1. Good(p, Refused("triangles", VertexArg, "Misaligned"))
    BY <1>3, <1>5, <1>7 DEF Good, Fits, Reason, Refused, View
  <2>2. Show(Refused("triangles", VertexArg, "Misaligned"))
    BY <1>2, <1>7
  <2>3. QED
    BY <1>1, <2>1, <2>2, ShowKeeps
<1>8. CASE ~short /\ (p.off + 1048) % 4 = 0
  <2>1. /\ end.value \in Nat
        /\ p.off + end.value <= p.off + p.len
        /\ p.off + 1048 <= p.off + end.value
        /\ p.off + end.value - (p.off + 1048) = p.count * 3 * 12
        /\ (p.count * 3 * 12) % 12 = 0
    BY <1>3, <1>4, <1>8, PayloadTypes
  <2>2. VertexArg.size = 12 /\ VertexArg.align = 4
    BY DEF VertexArg, NoArg
  <2>3. Good(p, fit)
    BY <1>3, <1>5, <1>8, <2>1, <2>2, PayloadTypes DEF Good, Fits, Reason, View
  <2> HIDE DEF fit
  <2>4. Show(fit)
    BY <1>2, <1>8
  <2>5. QED
    BY <1>1, <2>3, <2>4, ShowKeeps
<1>9. QED
  BY <1>6, <1>7, <1>8

LEMMA ParseNext == IInv /\ parse => IInv'
<1> SUFFICES ASSUME IInv, parse PROVE IInv'
  OBVIOUS
<1> DEFINE p == payload
<1> DEFINE err == IF p.len < 24 \/ ~p.magic THEN "BadMagic"
                  ELSE IF p.type # 1 THEN "WrongType"
                  ELSE IF p.meta > p.len \/ 24 + 48 * p.count > p.len
                    THEN "Truncated" ELSE ""
<1> DEFINE v == View("parse", NoArg, err, 0, IF err = "" THEN p.len ELSE 0)
<1>1. view' = v /\ stage' = (IF err = "" THEN "block" ELSE stage)
  <2>1. p.len <= UsizeMax
    BY PayloadTypes
  <2>2. \/ ~(p.count * 48 <= UsizeMax) \/ ~(p.count * 48 + 24 <= UsizeMax)
        \/ ~(p.meta <= p.len /\ p.count * 48 + 24 <= p.len)
        <=> p.meta > p.len \/ 24 + 48 * p.count > p.len
    BY <2>1, PayloadTypes
  <2>3. QED
    BY <2>2, Offsets DEF parse, CheckedMul, CheckedAdd, RegionsFit
<1>2. payload' = payload /\ stage = "file" /\ payload.off = 0
  BY DEF parse, IInv, BlockFits
<1>3. Good(p, v)
  BY <1>2, PayloadTypes DEF Good, Fits, Reason, View, NoArg
<1>4. InMemory' /\ ViewsComeLater'
  BY <1>1, <1>2 DEF IInv, InMemory, ViewsComeLater
<1>5. BlockFits'
  <2>1. err = "" => p.meta <= p.len /\ 24 + 48 * p.count <= p.len
    BY PayloadTypes
  <2> HIDE DEF err
  <2>2. QED
    BY <1>1, <1>2, <2>1, Offsets DEF BlockFits
<1>6. ViewsFit' /\ RefusedForCause'
  BY <1>1, <1>2, <1>3 DEF Good, ViewsFit, RefusedForCause
<1>7. QED
  BY <1>4, <1>5, <1>6 DEF IInv

LEMMA PlaneNext ==
  ASSUME IInv, NEW i \in Indices, plane(i)
  PROVE  IInv'
<1> DEFINE p == payload
<1> DEFINE o == CheckedAdd(CheckedMul(i, 48).value, 24)
<1> DEFINE end == CheckedAdd(o.value, 48)
<1> DEFINE none == \/ i >= p.count
                   \/ ~CheckedMul(i, 48).fits \/ ~o.fits
                   \/ ~end.fits \/ end.value > p.len
<1> DEFINE fit == View("plane", PlaneArg(i), "", o.value, end.value)
<1>1. stage = "block"
  BY DEF plane
<1>2. Show(IF none THEN Refused("plane", PlaneArg(i), "None") ELSE fit)
  BY Offsets DEF plane
<1>3. i \in Nat /\ p.off = 0
  BY <1>1, WidthAssumption DEF IInv, BlockFits
<1>4. 24 + 48 * p.count <= p.len /\ p.len <= UsizeMax
  BY <1>1, PayloadTypes, Offsets DEF IInv, BlockFits
<1>5. o.value = i * 48 + 24 /\ end.value = i * 48 + 24 + 48
  BY DEF CheckedMul, CheckedAdd
<1>6. i < p.count => i * 48 + 24 + 48 <= p.len
  BY <1>3, <1>4, PayloadTypes
<1>7. none <=> i >= p.count
  <2>1. /\ CheckedMul(i, 48).fits <=> i * 48 <= UsizeMax
        /\ o.fits <=> i * 48 + 24 <= UsizeMax
        /\ end.fits <=> i * 48 + 24 + 48 <= UsizeMax
    BY DEF CheckedMul, CheckedAdd
  <2> HIDE DEF o, end
  <2>2. QED
    BY <1>3, <1>4, <1>5, <1>6, <2>1, PayloadTypes
<1> HIDE DEF none, o, end
<1>8. PlaneArg(i).size = 48 /\ PlaneArg(i).align = 1 /\ PlaneArg(i).index = i
  BY Offsets DEF PlaneArg, NoArg
<1>9. CASE none
  <2>1. Good(p, Refused("plane", PlaneArg(i), "None"))
    BY <1>7, <1>8, <1>9 DEF Good, Fits, Reason, Refused, View
  <2>2. Show(Refused("plane", PlaneArg(i), "None"))
    BY <1>2, <1>9
  <2>3. QED
    BY <1>1, <2>1, <2>2, ShowKeeps
<1>10. CASE ~none
  <2>1. /\ o.value \in Nat /\ o.value <= end.value /\ end.value <= p.len
        /\ end.value - o.value = 48 /\ o.value % 1 = 0 /\ ~(i >= p.count)
    BY <1>3, <1>5, <1>6, <1>7, <1>10, PayloadTypes
  <2>2. Good(p, fit)
    BY <1>3, <1>8, <2>1, PayloadTypes DEF Good, Fits, Reason, View
  <2>3. Show(fit)
    BY <1>2, <1>10
  <2>4. QED
    BY <1>1, <2>2, <2>3, ShowKeeps
<1>11. QED
  BY <1>9, <1>10

LEMMA DataNext == IInv /\ data => IInv'
<1> SUFFICES ASSUME IInv, data PROVE IInv'
  OBVIOUS
<1>1. payload.meta <= payload.len /\ payload.off = 0
  BY DEF data, IInv, BlockFits
<1>2. Show(View("data", NoArg, "", payload.meta, payload.len))
  BY <1>1 DEF data
<1>3. Good(payload, View("data", NoArg, "", payload.meta, payload.len))
  BY <1>1, PayloadTypes DEF Good, Fits, Reason, View, NoArg
<1>4. QED
  BY <1>2, <1>3, ShowKeeps DEF data

-----------------------------------------------------------------------------
LEMMA NextInv == IInv /\ [Next]_vars => IInv'
<1> SUFFICES ASSUME IInv, [Next]_vars PROVE IInv'
  OBVIOUS
<1>1. CASE Decode
  BY <1>1, NoViewIsFine DEF Decode, IInv, InMemory, BlockFits, ViewsComeLater,
     ViewsFit, RefusedForCause
<1>2. CASE Hand
  <2>1. view' = view /\ view = NoView /\ stage' = "handle"
    BY <1>2 DEF Hand, IInv, ViewsComeLater
  <2>2. InMemory'
    <3>1. PICK q \in Payloads :
            payload' = [magic |-> FALSE, type |-> 0, meta |-> 0,
                        off |-> q.off, len |-> q.len, count |-> q.count]
      BY <1>2 DEF Hand
    <3>2. QED
      BY <3>1, WidthAssumption DEF InMemory
  <2>3. ViewsFit' /\ RefusedForCause'
    BY <2>1, NoViewIsGood DEF Good, ViewsFit, RefusedForCause
  <2>4. QED
    BY <2>1, <2>2, <2>3 DEF IInv, BlockFits, ViewsComeLater
<1>3. CASE total_size
  <2>1. HeaderField("total_size", 8, 16)
    BY <1>3 DEF total_size
  <2>2. QED
    BY <2>1, HeaderNext
<1>4. CASE aabb
  <2>1. HeaderField("aabb", 160, 184)
    BY <1>4 DEF aabb
  <2>2. QED
    BY <2>1, HeaderNext
<1>5. CASE UNCHANGED vars
  BY <1>5 DEF vars, IInv, InMemory, BlockFits, ViewsComeLater, ViewsFit,
     RefusedForCause
<1>6. QED
  BY <1>1, <1>2, <1>3, <1>4, <1>5, SliceNext, TrianglesNext, ParseNext, PlaneNext,
     DataNext DEF Next

LEMMA Invariance == Spec => []IInv
  BY InitInv, NextInv, PTL DEF Spec

(* No typed view of a payload or of a block, of whatever length and with   *)
(* whatever count in its header, reaches past it, is misaligned or panics. *)
THEOREM EveryViewFits == Spec => []ViewsFit
<1>1. IInv => ViewsFit
  BY DEF IInv
<1>2. QED
  BY <1>1, Invariance, PTL

(* Whatever the width of a word and the counts off the wire, a call is     *)
(* refused exactly when the payload does not hold what is asked for.       *)
THEOREM RefusalsHaveCause == Spec => []RefusedForCause
<1>1. IInv => RefusedForCause
  BY DEF IInv
<1>2. QED
  BY <1>1, Invariance, PTL

-----------------------------------------------------------------------------
(* Where the bytes of a record show: class by class, by cases on the byte. *)

(* Byte b shows at p, in a record of these fields and these unmapped slots.*)
Shows(fields, slots, b, p) ==
  \/ \E f \in fields : b \in f.bytes /\ p = <<f.name, 0>>
  \/ \E o \in slots : b \in o .. o + 3 /\ p = <<"unmapped", offset_name(o)>>

Taken(fields, slots, b) ==
  (\E f \in fields : b \in f.bytes) \/ (\E o \in slots : b \in o .. o + 3)

(* A byte of a word that is looked at: of most words the first, of the one *)
(* at 0x48 the third, where the slice of a texture is.                     *)
Witness(w) == IF w = 72 THEN 74 ELSE w

Words == {0, 4, 8, 12, 16, 20, 24, 28, 32, 36, 40, 44, 48, 52, 56, 60, 64, 68, 72, 76}

Sorted(fields, slots) ==
  /\ \A b \in 0 .. 79 : \A p, q :
       Shows(fields, slots, b, p) /\ Shows(fields, slots, b, q) => p = q
  /\ \A w \in Words : Taken(fields, slots, Witness(w))

LEMMA TextureSorted == Sorted(TextureFields, TEXTURE_UNMAPPED)
<1>1. ASSUME NEW b \in 0 .. 79, NEW p, NEW q,
            Shows(TextureFields, TEXTURE_UNMAPPED, b, p), Shows(TextureFields, TEXTURE_UNMAPPED, b, q)
     PROVE  p = q
  BY <1>1 DEF Shows,
         TextureFields, REQUEST_ORDINAL, STREAM_REF, DATA_OFFSET, SIZE,
         WIDTH, HEIGHT, DEPTH, PIXEL_FORMAT, BYTES_PER_ROW,
         BYTES_PER_IMAGE, SLICE, PLANE, LEVEL, U32, U16,
         TEXTURE_UNMAPPED, offset_name
<1>2. ASSUME NEW w \in Words PROVE Taken(TextureFields, TEXTURE_UNMAPPED, Witness(w))
  BY <1>2 DEF Words, Witness, Taken,
         TextureFields, REQUEST_ORDINAL, STREAM_REF, DATA_OFFSET, SIZE,
         WIDTH, HEIGHT, DEPTH, PIXEL_FORMAT, BYTES_PER_ROW,
         BYTES_PER_IMAGE, SLICE, PLANE, LEVEL, U32, U16,
         TEXTURE_UNMAPPED, offset_name
<1>3. QED
  BY <1>1, <1>2 DEF Sorted

LEMMA BufferSorted == Sorted(BufferFields, IDENTITY_UNMAPPED)
<1>1. ASSUME NEW b \in 0 .. 79, NEW p, NEW q,
            Shows(BufferFields, IDENTITY_UNMAPPED, b, p), Shows(BufferFields, IDENTITY_UNMAPPED, b, q)
     PROVE  p = q
  BY <1>1 DEF Shows,
         BufferFields, STREAM_REF, DATA_OFFSET, SIZE, U32,
         IDENTITY_UNMAPPED, offset_name
<1>2. ASSUME NEW w \in Words PROVE Taken(BufferFields, IDENTITY_UNMAPPED, Witness(w))
  BY <1>2 DEF Words, Witness, Taken,
         BufferFields, STREAM_REF, DATA_OFFSET, SIZE, U32,
         IDENTITY_UNMAPPED, offset_name
<1>3. QED
  BY <1>1, <1>2 DEF Sorted

LEMMA PipelineSorted == Sorted(PipelineFields, PIPELINE_UNMAPPED)
<1>1. ASSUME NEW b \in 0 .. 79, NEW p, NEW q,
            Shows(PipelineFields, PIPELINE_UNMAPPED, b, p), Shows(PipelineFields, PIPELINE_UNMAPPED, b, q)
     PROVE  p = q
  BY <1>1 DEF Shows,
         PipelineFields, PIPELINE_ID, HANDLE, DATA_OFFSET, SIZE, U32,
         U64, PIPELINE_UNMAPPED, offset_name
<1>2. ASSUME NEW w \in Words PROVE Taken(PipelineFields, PIPELINE_UNMAPPED, Witness(w))
  BY <1>2 DEF Words, Witness, Taken,
         PipelineFields, PIPELINE_ID, HANDLE, DATA_OFFSET, SIZE, U32,
         U64, PIPELINE_UNMAPPED, offset_name
<1>3. QED
  BY <1>1, <1>2 DEF Sorted

LEMMA WireframeSorted == Sorted(WireframeFields, WIREFRAME_UNMAPPED)
<1>1. ASSUME NEW b \in 0 .. 79, NEW p, NEW q,
            Shows(WireframeFields, WIREFRAME_UNMAPPED, b, p), Shows(WireframeFields, WIREFRAME_UNMAPPED, b, q)
     PROVE  p = q
  BY <1>1 DEF Shows,
         WireframeFields, DISPATCH_UID, WIDTH, HEIGHT, PIXEL_FORMAT,
         DATA_OFFSET, SIZE, U32, U16, WIREFRAME_UNMAPPED, offset_name
<1>2. ASSUME NEW w \in Words PROVE Taken(WireframeFields, WIREFRAME_UNMAPPED, Witness(w))
  BY <1>2 DEF Words, Witness, Taken,
         WireframeFields, DISPATCH_UID, WIDTH, HEIGHT, PIXEL_FORMAT,
         DATA_OFFSET, SIZE, U32, U16, WIREFRAME_UNMAPPED, offset_name
<1>3. QED
  BY <1>1, <1>2 DEF Sorted

LEMMA ProbeSorted == Sorted(ProbeFields, UNMAPPED_OFFSETS)
<1>1. ProbeFields = {REQUEST_ORDINAL, STREAM_REF, DATA_OFFSET, SIZE, WIDTH, HEIGHT,
                     DEPTH, PIXEL_FORMAT, BYTES_PER_ROW, BYTES_PER_IMAGE}
  <2> DEFINE Kept == {REQUEST_ORDINAL, STREAM_REF, DATA_OFFSET, SIZE, WIDTH, HEIGHT,
                      DEPTH, PIXEL_FORMAT, BYTES_PER_ROW, BYTES_PER_IMAGE}
  <2>1. \A f \in Kept : f.name \notin {"slice", "plane", "level"}
    BY DEF REQUEST_ORDINAL, STREAM_REF, DATA_OFFSET, SIZE, WIDTH, HEIGHT, DEPTH,
       PIXEL_FORMAT, BYTES_PER_ROW, BYTES_PER_IMAGE
  <2>2. SLICE.name = "slice" /\ PLANE.name = "plane" /\ LEVEL.name = "level"
    BY DEF SLICE, PLANE, LEVEL
  <2>3. \A f \in Kept : f \notin {SLICE, PLANE, LEVEL}
    BY <2>1, <2>2
  <2>4. TextureFields = Kept \cup {SLICE, PLANE, LEVEL}
    BY DEF TextureFields
  <2> HIDE DEF Kept
  <2>5. ProbeFields = Kept
    BY <2>3, <2>4 DEF ProbeFields
  <2>6. QED
    BY <2>5 DEF Kept
<1>2. ASSUME NEW b \in 0 .. 79, NEW p, NEW q,
            Shows(ProbeFields, UNMAPPED_OFFSETS, b, p), Shows(ProbeFields, UNMAPPED_OFFSETS, b, q)
     PROVE  p = q
  BY <1>1, <1>2 DEF Shows,
         REQUEST_ORDINAL, STREAM_REF, DATA_OFFSET, SIZE, WIDTH, HEIGHT,
         DEPTH, PIXEL_FORMAT, BYTES_PER_ROW, BYTES_PER_IMAGE, U32, U16,
         UNMAPPED_OFFSETS, TEXTURE_UNMAPPED, offset_name
<1>3. ASSUME NEW w \in Words PROVE Taken(ProbeFields, UNMAPPED_OFFSETS, Witness(w))
  BY <1>1, <1>3 DEF Words, Witness, Taken,
         REQUEST_ORDINAL, STREAM_REF, DATA_OFFSET, SIZE, WIDTH, HEIGHT,
         DEPTH, PIXEL_FORMAT, BYTES_PER_ROW, BYTES_PER_IMAGE, U32, U16,
         UNMAPPED_OFFSETS, TEXTURE_UNMAPPED, offset_name
<1>4. QED
  BY <1>2, <1>3 DEF Sorted

LEMMA EveryClassSorted ==
  ASSUME NEW c \in Classes PROVE Sorted(Fields[c], UnmappedOffsets[c])
<1>1. c \in {"texture", "buffer", "heap", "accel", "pipeline", "wireframe", "probe"}
  BY DEF Classes, Fields
<1>2. /\ Fields["texture"] = TextureFields /\ Fields["buffer"] = BufferFields
      /\ Fields["heap"] = HeapFields /\ Fields["accel"] = AccelFields
      /\ Fields["pipeline"] = PipelineFields /\ Fields["wireframe"] = WireframeFields
      /\ Fields["probe"] = ProbeFields
  BY DEF Fields
<1>3. /\ UnmappedOffsets["texture"] = TEXTURE_UNMAPPED
      /\ UnmappedOffsets["buffer"] = IDENTITY_UNMAPPED
      /\ UnmappedOffsets["heap"] = IDENTITY_UNMAPPED
      /\ UnmappedOffsets["accel"] = IDENTITY_UNMAPPED
      /\ UnmappedOffsets["pipeline"] = PIPELINE_UNMAPPED
      /\ UnmappedOffsets["wireframe"] = WIREFRAME_UNMAPPED
      /\ UnmappedOffsets["probe"] = UNMAPPED_OFFSETS
  BY DEF UnmappedOffsets
<1>4. QED
  BY <1>1, <1>2, <1>3, TextureSorted, BufferSorted, PipelineSorted,
     WireframeSorted, ProbeSorted DEF HeapFields, AccelFields, BufferFields

LEMMA ByteIsSorted ==
  ASSUME NEW c \in Classes, NEW b \in 0 .. 79
  PROVE  /\ \A p, q \in Places(c, b) : p = q
         /\ SlotIsRead(c, b)
<1> DEFINE fields == Fields[c]
           slots == UnmappedOffsets[c]
<1>1. Sorted(fields, slots)
  BY EveryClassSorted
<1>2. \A x, p : p \in Places(c, x) <=> Shows(fields, slots, x, p)
  BY DEF Places, Shows, U32
<1>3. \A p, q \in Places(c, b) : p = q
  BY <1>1, <1>2 DEF Sorted
<1>4. SlotIsRead(c, b)
  <2> DEFINE w == 4 * (b \div 4)
             x == Witness(w)
  <2>1. w \in Words
    BY DEF Words
  <2>2. x \in U32(w)
    BY <2>1 DEF Words, Witness, U32
  <2> HIDE DEF w
  <2>3. Taken(fields, slots, x)
    BY <1>1, <2>1 DEF Sorted
  <2> HIDE DEF x, fields, slots
  <2>4. \E p : Shows(fields, slots, x, p)
    BY <2>3 DEF Taken, Shows
  <2>5. Places(c, x) # {}
    BY <1>2, <2>4
  <2>6. QED
    BY <2>2, <2>5 DEF SlotIsRead, w
<1>5. QED
  BY <1>3, <1>4

(* A record is one byte of one class, and what is seen of it. *)
RecordIs ==
  /\ stage \in {"info", "record"} => class \in Classes /\ hot \in 0 .. 79
  /\ stage = "record" => seen = Places(class, hot)

LEMMA RecordInv == Spec => []RecordIs
<1>1. Init => RecordIs
  BY DEF Init, RecordIs, STRIDE
<1>2. RecordIs /\ [Next]_vars => RecordIs'
  <2> SUFFICES ASSUME RecordIs, [Next]_vars PROVE RecordIs'
    OBVIOUS
  <2>1. CASE Decode
    BY <2>1 DEF Decode, RecordIs
  <2>2. CASE Hand
    BY <2>2 DEF Hand, RecordIs
  <2>3. CASE parse
    BY <2>3 DEF parse, RecordIs
  <2>4. CASE UNCHANGED <<stage, class, hot, seen>>
    BY <2>4 DEF RecordIs
  <2>5. QED
    BY <2>1, <2>2, <2>3, <2>4 DEF Next, as_slice, total_size, aabb, HeaderField,
       triangles, plane, data, Show, vars
<1>3. QED
  BY <1>1, <1>2, PTL DEF Spec

(* Whatever the class and the byte, decoding a record shows the byte in at *)
(* most one place, and no slot of a record is left out of the lists that   *)
(* the two reply.rs write by hand.                                   *)
THEOREM NoByteTwice == Spec => []BytesSeenOnce
<1>1. RecordIs => BytesSeenOnce
  BY ByteIsSorted DEF RecordIs, BytesSeenOnce
<1>2. QED
  BY <1>1, RecordInv, PTL
=============================================================================
