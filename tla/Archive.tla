------------------------------- MODULE Archive -------------------------------
(***************************************************************************)
(* NSKeyedArchiver property lists, as the two decoders of this project     *)
(* find them once `plist` has read the bytes: the `$objects` array, whose  *)
(* entries refer to each other by Uid, and the value at `$top.root`.       *)
(*                                                                         *)
(* A value is a Uid; a leaf (a string, data, or anything else: "other"); a *)
(* plain array or dictionary; or the on-disk form of an NSArray (only      *)
(* NS.objects) or an NSDictionary (NS.keys and NS.objects).  A collection  *)
(* holds any of these: what the archiver writes in one is a Uid or a leaf, *)
(* but the decoders take what they find.                                   *)
(***************************************************************************)
EXTENDS Naturals, Sequences

VARIABLES
  objects,  (* `$objects`   *)
  root      (* `$top.root`  *)

archive == <<objects, root>>

Kinds == {"uid", "string", "data", "other", "array", "dict", "nsarray", "nsdict"}

Value(kind, name, to, keys, objs) ==
  [kind |-> kind, name |-> name, to |-> to, keys |-> keys, objs |-> objs]

Uid(i)           == Value("uid", "", i, <<>>, <<>>)
Str(name)        == Value("string", name, 0, <<>>, <<>>)
Data(name)       == Value("data", name, 0, <<>>, <<>>)
Other            == Value("other", "", 0, <<>>, <<>>)
PlainArray(objs) == Value("array", "", 0, <<>>, objs)
PlainDict(ks, objs) ==
  Value("dict", "", 0, [i \in DOMAIN ks |-> Str(ks[i])], objs)
NSArray(objs)    == Value("nsarray", "", 0, <<>>, objs)
NSDict(ks, objs) == Value("nsdict", "", 0, ks, objs)

(* `$objects` counts from 0. *)
InObjects(v) == v.to < Len(objects)
Target(v)    == objects[v.to + 1]
Refers(v)    == v.kind = "uid" /\ InObjects(v)

(* The decoded form: an array has its items, a dictionary its entries, in  *)
(* no order.  A collection that is returned as it stands has neither: it   *)
(* keeps the value itself in `plain`, whatever that holds and however deep *)
(* (Other, in a tree that was decoded), and shows a level of it when asked.*)
Tree(kind, name, items, entries) ==
  [kind |-> kind, name |-> name, items |-> items, entries |-> entries, plain |-> Other]

Standing(kind, v) ==
  [kind |-> kind, name |-> "", items |-> <<>>, entries |-> {}, plain |-> v]

Leaf(v)        == Tree(v.kind, v.name, <<>>, {})
Entry(k, tree) == [key |-> k, tree |-> tree]

(* A value as it stands, the Uids in it included.  The archived form of a  *)
(* collection is a dictionary like any other to who does not decode it.    *)
AsIs(v) ==
  CASE v.kind = "array"                         -> Standing("array", v)
    [] v.kind \in {"dict", "nsarray", "nsdict"} -> Standing("dict", v)
    [] OTHER                                    -> Leaf(v)

EachAsIs(s) == [i \in DOMAIN s |-> AsIs(s[i])]

ItemsFirst(t) == IF t.items = <<>> THEN <<>> ELSE <<t.items[1]>>

(* as_array of an array. *)
Items(t) == IF t.plain.kind = "array" THEN EachAsIs(t.plain.objs) ELSE t.items

(* as_dictionary of a dictionary. *)
Entries(t) ==
  LET v         == t.plain
      nsKeys    == Entry("NS.keys", AsIs(PlainArray(v.keys)))
      nsObjects == Entry("NS.objects", AsIs(PlainArray(v.objs)))
  IN  CASE v.kind = "dict" ->
             {Entry(v.keys[i].name, AsIs(v.objs[i])) : i \in DOMAIN v.objs}
        [] v.kind = "nsarray" -> {nsObjects}
        [] v.kind = "nsdict"  -> {nsKeys, nsObjects}
        [] OTHER              -> t.entries

(* What a dictionary holds under a key, if anything. *)
Under(t, k) == {e.tree : e \in {f \in Entries(t) : f.key = k}}
=============================================================================
