--------------------------- MODULE DocumentGraph ---------------------------
(***************************************************************************)
(* src/src/document_graph: documents stored by what they say, and the      *)
(* directed, named edges between them.                                     *)
(*                                                                         *)
(* A document is a sequence of content groups, each a sequence of labelled *)
(* contents.  It is known by the sha256 of its text; Hash below is that    *)
(* text, so different texts have different hashes.  An edge is kept under  *)
(* 32 bits of the sha256 of its ends and name, and looked up by 32 bits of *)
(* the sha256 of an end and the name, or of both ends: three functions     *)
(* that may give different arguments the same number.                      *)
(***************************************************************************)
EXTENDS Tables, SequencesExt

CONSTANTS
  EdgeKey(_, _, _),   \* concatHash of both ends and the name of an edge
  NameKey(_, _),      \* concatHash of one end and the name
  PairKey(_, _),      \* concatHash of both ends
  MaxDocId            \* bound: document ids are uint64 in the code

ASSUME GraphAssumption == MaxDocId \in Nat

VARIABLES
  documents,   \* id -> the document: its groups and the hash it was stored under
  edges        \* the edges

graphVars == <<documents, edges>>

\* A FlexValue: of one of several types, or no value at all.
FlexValue == [kind : {"monostate", "string", "name"}, text : STRING]
NoText    == ""   \* what a group without a label is called
Nothing   == [kind |-> "monostate", text |-> NoText]
String(t) == [kind |-> "string", text |-> t]
NameOf(t) == [kind |-> "name", text |-> t]

\* The label under which a group keeps its name.
GroupLabel == "content_group_label"

\* The texts here are strings: nothing is assumed of the code, but the provers do not know it.
ASSUME TextAssumption == {NoText, GroupLabel} \subseteq STRING

Content(label, value) == [label |-> label, value |-> value]

----------------------------------------------------------------------------
(* content_wrapper.cpp: reading and changing the groups of a document.     *)
(* An operation with a check gives the set of its outcomes: one sequence   *)
(* of groups, or none when it aborts.                                      *)

\* The first content of a group with a label; zero when there is none.
IndexOf(group, label) == SelectInSeq(group, LAMBDA content : content.label = label)

Labels(group) == {group[i].value : i \in {j \in DOMAIN group : group[j].label = GroupLabel}}

GroupIndex(groups, label) == SelectInSeq(groups, LAMBDA group : String(label) \in Labels(group))

\* getGroup reads the labels of a group up to the one it looks for, and they must be strings.
Readable(group, label) ==
  \A i \in DOMAIN group :
    /\ group[i].label = GroupLabel
    /\ \A j \in 1..(i - 1) : group[j] # Content(GroupLabel, String(label))
    => group[i].value.kind = "string"

ReadableTo(groups, label, last) == \A i \in 1..last : Readable(groups[i], label)

HasGroup(groups, label) ==
  GroupIndex(groups, label) # 0 /\ ReadableTo(groups, label, GroupIndex(groups, label))

\* getGroupLabel: the first label of a group; no label reads as the empty one.
LabelOf(group) ==
  LET i == IndexOf(group, GroupLabel) IN IF i = 0 THEN String(NoText) ELSE group[i].value

HasContent(groups, group_label, label) ==
  /\ HasGroup(groups, group_label)
  /\ IndexOf(groups[GroupIndex(groups, group_label)], label) # 0

InsertOrReplace(group, content) ==
  LET i == IndexOf(group, content.label) IN
  IF i = 0 THEN Append(group, content) ELSE [group EXCEPT ![i].value = content.value]

\* insertOrReplace in the group at a place.
InsertAtPlace(groups, place, content) ==
  {[groups EXCEPT ![i] = InsertOrReplace(@, content)] : i \in DOMAIN groups \cap {place}}

\* removeContent from the group at a place; its first content of that label.
RemoveAtPlace(groups, place, label) ==
  {[groups EXCEPT ![i] = RemoveAt(@, IndexOf(@, label))] :
     i \in {j \in DOMAIN groups \cap {place} : IndexOf(groups[j], label) # 0}}

\* A faulty variant of RemoveContent: the content goes from the first group.
RemoveFromFirst(groups, group_label, label) ==
  IF HasGroup(groups, group_label) THEN RemoveAtPlace(groups, 1, label) ELSE {}

RemoveContent(groups, group_label, label) ==
  IF HasGroup(groups, group_label)
  THEN RemoveAtPlace(groups, GroupIndex(groups, group_label), label) ELSE {}

\* removeContent of a content: the first one in the group that is equal to it.
IndexOfEqual(group, content) == SelectInSeq(group, LAMBDA other : other = content)

RemoveEqual(groups, group_label, content) ==
  {[groups EXCEPT ![i] = RemoveAt(@, IndexOfEqual(@, content))] :
     i \in {j \in DOMAIN groups \cap {GroupIndex(groups, group_label)} :
              HasGroup(groups, group_label) /\ IndexOfEqual(groups[j], content) # 0}}

RemoveGroup(groups, label) ==
  IF HasGroup(groups, label) THEN {RemoveAt(groups, GroupIndex(groups, label))} ELSE {}

\* getGroupOrCreate: a group that is not there is added at the end.
WithGroup(groups, label) ==
  IF HasGroup(groups, label) THEN {groups}
  ELSE IF GroupIndex(groups, label) = 0 /\ ReadableTo(groups, label, Len(groups))
  THEN {Append(groups, <<Content(GroupLabel, String(label))>>)}
  ELSE {}

----------------------------------------------------------------------------
(* document.cpp: documents and their hashes. *)

\* The text of a content; one without a value leaves no trace.
Written(content) == IF content.value = Nothing THEN Content(NoText, Nothing) ELSE content

\* A group of one content without a value reads like a group of none.
WrittenGroup(group) ==
  IF Len(group) = 1 /\ group[1].value = Nothing THEN <<>>
  ELSE [i \in DOMAIN group |-> Written(group[i])]

Hash(groups) == [i \in DOMAIN groups |-> WrittenGroup(groups[i])]

IdsOf(hash)  == {id \in DOMAIN documents : documents[id].hash = hash}
Exists(hash) == IdsOf(hash) # {}

\* The index on hashes gives the oldest document.
IdOf(hash) == CHOOSE id \in IdsOf(hash) : \A other \in IdsOf(hash) : id <= other

Document(groups) == [hash |-> Hash(groups), content_groups |-> groups]

\* emplace on a state of the documents, and its check.
MayEmplace(groups) == ~Exists(Hash(groups)) /\ NextKey(documents) <= MaxDocId

Emplaced(groups) == Put(documents, NextKey(documents), Document(groups))

(***************************************************************************)
(* merge: the groups of the delta change the original, one after another.  *)
(* At which place a label's group is, and that is the last group with the  *)
(* label, is looked up once, in the original before the first change.      *)
(***************************************************************************)
PlaceOf(original, label) == SelectLastInSeq(original, LAMBDA group : LabelOf(group) = label)

\* A faulty variant of MergedContent: no value is a value like any other.
InsertedContent(groups, place, content) == InsertAtPlace(groups, place, content)

MergedContent(groups, place, content) ==
  IF content.value = Nothing THEN RemoveAtPlace(groups, place, content.label)
  ELSE InsertAtPlace(groups, place, content)

Merged(groups, place, delta) ==
  FoldLeft(LAMBDA outcomes, content : UNION {MergedContent(gs, place, content) : gs \in outcomes},
           {groups}, delta)

MergedGroup(groups, place, delta) ==
  LET label == LabelOf(delta) IN
  IF label.kind # "string" THEN {}
  ELSE IF label.text = NoText THEN {Append(groups, delta)}
  ELSE IF IndexOf(delta, "delete_group") # 0 THEN RemoveGroup(groups, label.text)
  ELSE IF IndexOf(delta, "skip_from_merge") # 0 THEN {groups}
  ELSE IF place = 0 THEN {Append(groups, delta)}
  ELSE Merged(groups, place, delta)

Merge(original, deltas) ==
  FoldLeft(LAMBDA outcomes, delta :
             UNION {MergedGroup(gs, PlaceOf(original, LabelOf(delta)), delta) : gs \in outcomes},
           {gs \in {original} : \A i \in DOMAIN gs : LabelOf(gs[i]).kind = "string"}, deltas)

----------------------------------------------------------------------------
(* edge.cpp and document_graph.cpp: the edges. *)

Edge(from_node, to_node, edge_name) ==
  [from_node |-> from_node, to_node |-> to_node, edge_name |-> edge_name]

EdgeId(e) == EdgeKey(e.from_node, e.to_node, e.edge_name)

\* Writing an edge aborts when there is one under its id.
MayWrite(es, e) == \A other \in es : EdgeId(other) # EdgeId(e)

\* Erasing an edge erases what is kept under its id.
EraseEdge(es, e) == {other \in es : EdgeId(other) # EdgeId(e)}

\* The lookups compare keys, and so may find edges of other nodes.
EdgesAt(from, to, name) == {e \in edges : EdgeId(e) = EdgeKey(from, to, name)}

EdgesFrom(node, name) == {e \in edges : NameKey(e.from_node, e.edge_name) = NameKey(node, name)}

EdgesTo(node, name) == {e \in edges : NameKey(e.to_node, e.edge_name) = NameKey(node, name)}

EdgesBetween(from, to) == {e \in edges : PairKey(e.from_node, e.to_node) = PairKey(from, to)}

\* These go by the node itself.
Leaving(es, node)  == {e \in es : e.from_node = node}
Reaching(es, node) == {e \in es : e.to_node = node}

HasEdges(node) == Leaving(edges, node) # {} \/ Reaching(edges, node) # {}

\* A faulty variant of RemoveEdges: edges to the node are left behind.
RemoveLeaving(es, node) == es \ Leaving(es, node)

RemoveEdges(es, node) == es \ (Leaving(es, node) \cup Reaching(es, node))

(***************************************************************************)
(* replaceNode: every edge of the old node is written again for the new    *)
(* one, and erased, in the order of their ids; first the edges that leave  *)
(* it, then those that reach it.  An edge meets the ids of all those not   *)
(* erased yet, its own among them.                                         *)
(***************************************************************************)
MayRewrite(es, old, Rewritten(_)) ==
  /\ \A e \in old, other \in es :
       EdgeId(Rewritten(e)) = EdgeId(other) => other \in old /\ EdgeId(other) < EdgeId(e)
  /\ \A e, other \in old : EdgeId(Rewritten(e)) = EdgeId(Rewritten(other)) => e = other

RelinkFrom(es, old, new) ==
  (es \ Leaving(es, old)) \cup {[e EXCEPT !.from_node = new] : e \in Leaving(es, old)}

RelinkTo(es, old, new) ==
  (es \ Reaching(es, old)) \cup {[e EXCEPT !.to_node = new] : e \in Reaching(es, old)}

MayRelink(es, old, new) ==
  /\ MayRewrite(es, Leaving(es, old), LAMBDA e : [e EXCEPT !.from_node = new])
  /\ LET relinked == RelinkFrom(es, old, new) IN
     MayRewrite(relinked, Reaching(relinked, old), LAMBDA e : [e EXCEPT !.to_node = new])

\* A faulty variant of ReplaceNode: edges to the node are left behind.
ReplaceOrigin(es, old, new) == RelinkFrom(es, old, new)

\* A faulty variant of ReplaceNode: both ends are replaced independently.
ReplaceEitherEnd(es, old, new) ==
  (es \ (Leaving(es, old) \cup Reaching(es, old)))
    \cup {[e EXCEPT !.from_node = new] : e \in Leaving(es, old)}
    \cup {[e EXCEPT !.to_node = new] : e \in Reaching(es, old)}

ReplaceNode(es, old, new) == RelinkTo(RelinkFrom(es, old, new), old, new)

\* getOrNew of a document and of an edge: what is there already, or has its key, stays.
WithDocument(groups) ==
  IF Exists(Hash(groups)) THEN {documents}
  ELSE IF MayEmplace(groups) THEN {Emplaced(groups)} ELSE {}

WithEdge(es, e) == IF MayWrite(es, e) THEN es \cup {e} ELSE es

\* updateDocument: the new document is stored before the old one is erased.
UpdateDocument(hash, groups) ==
  /\ Exists(hash)
  /\ MayEmplace(groups)
  /\ MayRelink(edges, hash, Hash(groups))
  /\ documents' = Erase(Emplaced(groups), IdOf(hash))
  /\ edges' = ReplaceNode(edges, hash, Hash(groups))

\* eraseDocument, with the document's edges or, as the caller says, without.
EraseDocument(hash, include_edges) ==
  /\ Exists(hash)
  /\ edges' = IF include_edges THEN RemoveEdges(edges, hash) ELSE edges
  /\ documents' = Erase(documents, IdOf(hash))
=============================================================================
