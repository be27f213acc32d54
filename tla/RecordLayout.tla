----------------------------- MODULE RecordLayout -----------------------------
(***************************************************************************)
(* The 80-byte records of a reply's info table (reply.rs, and the probes'  *)
(* own reply.rs): which of the bytes each class decodes into which field,  *)
(* and which 32-bit slots it preserves in `unmapped`.  A field is the set  *)
(* of bytes its value depends on: a shift or a mask leaves some out.       *)
(***************************************************************************)
EXTENDS Naturals

STRIDE == 80

U16(o) == o .. o + 1
U32(o) == o .. o + 3
U64(o) == o .. o + 7

(* The layout of a record, common to the classes. *)
REQUEST_ORDINAL == [name |-> "request_ordinal", bytes |-> U32(\h00)]
STREAM_REF      == [name |-> "stream_ref",      bytes |-> U32(\h08)]
DATA_OFFSET     == [name |-> "data_offset",     bytes |-> U32(\h18)]
SIZE            == [name |-> "size",            bytes |-> U32(\h1c)]
WIDTH           == [name |-> "width",           bytes |-> U32(\h30)]
HEIGHT          == [name |-> "height",          bytes |-> U16(\h34)]
DEPTH           == [name |-> "depth",           bytes |-> U16(\h36)]
PIXEL_FORMAT    == [name |-> "pixel_format",    bytes |-> U32(\h38)]
BYTES_PER_ROW   == [name |-> "bytes_per_row",   bytes |-> U32(\h40)]
BYTES_PER_IMAGE == [name |-> "bytes_per_image", bytes |-> U32(\h44)]

(* u32 >> 16, (u32 >> 8) & 0xff and u32 & 0xff of little-endian words. *)
SLICE == [name |-> "slice", bytes |-> {\h4a, \h4b}]
PLANE == [name |-> "plane", bytes |-> {\h4d}]
LEVEL == [name |-> "level", bytes |-> {\h4c}]

PIPELINE_ID  == [name |-> "pipeline_id",  bytes |-> U32(\h00)]
HANDLE       == [name |-> "handle",       bytes |-> U64(\h08)]
DISPATCH_UID == [name |-> "dispatch_uid", bytes |-> U32(\h10)]

TextureFields ==
  {REQUEST_ORDINAL, STREAM_REF, DATA_OFFSET, SIZE, WIDTH, HEIGHT, DEPTH,
   PIXEL_FORMAT, BYTES_PER_ROW, BYTES_PER_IMAGE, SLICE, PLANE, LEVEL}
BufferFields    == {STREAM_REF, DATA_OFFSET, SIZE}
HeapFields      == {STREAM_REF, DATA_OFFSET, SIZE}
AccelFields     == {STREAM_REF, DATA_OFFSET, SIZE}
PipelineFields  == {PIPELINE_ID, HANDLE, DATA_OFFSET, SIZE}
WireframeFields == {DISPATCH_UID, WIDTH, HEIGHT, PIXEL_FORMAT, DATA_OFFSET, SIZE}
ProbeFields     == TextureFields \ {SLICE, PLANE, LEVEL}

TEXTURE_UNMAPPED ==
  {\h04, \h0c, \h10, \h14, \h20, \h24, \h28, \h2c, \h3c}
IdentityUnmappedOfTexture ==
  {\h04, \h0c, \h10, \h14, \h20, \h24, \h28, \h2c, \h30, \h34, \h38, \h3c,
   \h40, \h44, \h48, \h4c}
IDENTITY_UNMAPPED ==
  {\h00, \h04, \h0c, \h10, \h14, \h20, \h24, \h28, \h2c, \h30, \h34, \h38, \h3c,
   \h40, \h44, \h48, \h4c}
PIPELINE_UNMAPPED ==
  {\h04, \h10, \h14, \h20, \h24, \h28, \h2c, \h30, \h34, \h38, \h3c, \h40, \h44,
   \h48, \h4c}
WIREFRAME_UNMAPPED ==
  {\h00, \h04, \h08, \h0c, \h14, \h20, \h24, \h28, \h2c, \h3c, \h40, \h44, \h48,
   \h4c}
UNMAPPED_OFFSETS == TEXTURE_UNMAPPED \cup {\h48, \h4c}

Fields ==
  [texture   |-> TextureFields,  buffer   |-> BufferFields,
   heap      |-> HeapFields,     accel    |-> AccelFields,
   pipeline  |-> PipelineFields, wireframe |-> WireframeFields,
   probe     |-> ProbeFields]

UnmappedOffsets ==
  [texture   |-> TEXTURE_UNMAPPED,  buffer   |-> IDENTITY_UNMAPPED,
   heap      |-> IDENTITY_UNMAPPED, accel    |-> IDENTITY_UNMAPPED,
   pipeline  |-> PIPELINE_UNMAPPED, wireframe |-> WIREFRAME_UNMAPPED,
   probe     |-> UNMAPPED_OFFSETS]

Classes == DOMAIN Fields

(* offset_name: the key of a slot in the map.  A slot it has no name for   *)
(* is called 0x4c.                                                         *)
offset_name(o) == IF o % 4 = 0 /\ o < \h4c THEN o ELSE \h4c

(* Where the value of byte b shows in a decoded record. *)
Places(class, b) ==
  {<<f.name, 0>> : f \in {g \in Fields[class] : b \in g.bytes}}
    \cup {<<"unmapped", offset_name(o)>> :
            o \in {u \in UnmappedOffsets[class] : b \in U32(u)}}

(* Some byte of the 32-bit slot b is in is decoded. *)
SlotIsRead(class, b) ==
  \E x \in U32(4 * (b \div 4)) : Places(class, x) # {}
=============================================================================
