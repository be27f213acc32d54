---------------------------- MODULE MCReplyAccess ----------------------------
(* Small replies, with a u32 that wraps at 8, for TLC. *)
EXTENDS ReplyAccess

Entry(cat, bpp, aligned, aspect) ==
  [cat |-> cat, bpp |-> bpp, aligned |-> aligned, aspect |-> aspect,
   block |-> <<2, 2>>, blockBytes |-> 2]

Format(cat, bpp, aspect) == Entry(cat, bpp, TRUE, aspect)
Packed(bpp)              == Entry("color", bpp, FALSE, bpp)

SomeFormats ==
  {Format("color", 1, 1), Packed(2), Format("color", 4, 4),
   Format("depth", 2, 2), Format("stencil", 4, 1), Format("combined", 4, 4),
   Format("compressed", 1, 1), Format("unknown", 1, 1)}

Element(size, align) == [size |-> size, align |-> align]

(* u8, [u8; 2], u16, f32. *)
SomeElements ==
  {Element(1, 1), Element(2, 1), Element(2, 2), Element(4, 4)}
=============================================================================
