--------------------------- MODULE MCGraphClient ----------------------------
(***************************************************************************)
(* A small instance of a contract on the graph: documents of up to three   *)
(* small groups, deltas of up to two, and edge keys of so few values that  *)
(* different edges often have the same.                                    *)
(***************************************************************************)
EXTENDS GraphClient

Group(label, value) == <<Content(GroupLabel, String(label)), Content("x", String(value))>>

Loose == <<Content("note", Nothing)>>

\* A label that is no text, alone and behind one that is.
Wordless      == Content(GroupLabel, NameOf("b"))
TwiceLabelled == Append(Group("b", "1"), Wordless)

SmallDrafts == {<<Group("a", "1")>>, <<TwiceLabelled, Loose>>, <<<<Wordless>>>>}

Tag(label, tag) == <<Content(GroupLabel, String(label)), Content(tag, String(NoText))>>

SmallDeltas ==
  LET Removal   == <<Content(GroupLabel, String("a")), Content("x", Nothing)>>
      OneGroups == {Group("a", "2"), Group("b", "1"), Removal, Loose,
                    Tag("a", "delete_group"), Tag("b", "delete_group"), Tag("b", "skip_from_merge"),
                    <<Content(GroupLabel, NameOf("a"))>>}
  IN
  SeqOf(OneGroups, 2) \ {<<>>}

(***************************************************************************)
(* Keys of few values, from the sizes of the nodes: edges of one name that *)
(* join nodes of the same sizes have the same key.                         *)
(***************************************************************************)
Size(hash) == Len(hash) + Len(FlattenSeq(hash))

CollidingEdge(from, to, name) == (3 * Size(from) + Size(to) + name) % 8
CollidingName(node, name)     == (Size(node) + name) % 3
CollidingPair(one, other)     == (2 * Size(one) + Size(other)) % 4
=============================================================================
