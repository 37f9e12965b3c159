---------------------------- MODULE GraphClient ----------------------------
(***************************************************************************)
(* A contract built on src/src/document_graph that uses all of it.  The    *)
(* library leaves two things to its callers, and this one does them as     *)
(* daoinf does: it links documents it has just stored or fetched, and it   *)
(* erases a document without its edges only when it has none.              *)
(*                                                                         *)
(* One action here is one transaction that passes all its checks.          *)
(***************************************************************************)
EXTENDS DocumentGraph

CONSTANTS
  Draft,       \* the documents the contract stores
  Delta,       \* the documents it merges into others
  EdgeName,    \* the names of its edges
  MaxEdges,    \* bounds: edges, and the groups of a document
  MaxGroups

\* Documents and deltas are groups of labelled values, as their types say.
ASSUME ClientAssumption ==
  /\ MaxEdges \in Nat /\ MaxGroups \in Nat
  /\ Draft \cup Delta \subseteq Seq(Seq([label : STRING, value : FlexValue]))

ClientInit == documents = NoRows /\ edges = {}

Nodes == {documents[id].hash : id \in DOMAIN documents}

GroupsOf(node) == documents[IdOf(node)].content_groups

Create(groups) ==
  /\ MayEmplace(groups)
  /\ documents' = Emplaced(groups)
  /\ UNCHANGED edges

\* Document::getOrNew and Edge::getOrNew: store and link what is not there yet.
Attach(node, groups, name) ==
  /\ documents' \in WithDocument(groups)
  /\ edges' = WithEdge(edges, Edge(node, Hash(groups), name))
  /\ Cardinality(edges') <= MaxEdges

\* Edge::write.
Link(from, to, name) ==
  LET e == Edge(from, to, name) IN
  /\ MayWrite(edges, e)
  /\ Cardinality(edges) < MaxEdges
  /\ edges' = edges \cup {e}
  /\ UNCHANGED documents

\* Edge::get or one of the getEdges, and erase of an edge that was found.
Unlink(from, to, name) ==
  /\ \E e \in EdgesAt(from, to, name) \cup EdgesFrom(from, name)
                \cup EdgesTo(to, name) \cup EdgesBetween(from, to) :
       edges' = EraseEdge(edges, e)
  /\ UNCHANGED documents

Isolate(node) == edges' = RemoveEdges(edges, node) /\ UNCHANGED documents

Edit(node, groups) == Len(groups) <= MaxGroups /\ UpdateDocument(node, groups)

MergeInto(node, deltas) == \E merged \in Merge(GroupsOf(node), deltas) : Edit(node, merged)

\* getGroupOrCreate and insertOrReplace in that group.
Annotate(node, label, content) ==
  \E groups \in WithGroup(GroupsOf(node), label) :
    \E changed \in InsertAtPlace(groups, GroupIndex(groups, label), content) : Edit(node, changed)

\* removeContent by a label, and of a content with its value; removeGroup.
Strip(node, label, content_label) ==
  \E changed \in RemoveContent(GroupsOf(node), label, content_label) : Edit(node, changed)

StripEqual(node, label, content) ==
  \E changed \in RemoveEqual(GroupsOf(node), label, content) : Edit(node, changed)

Cut(node, label) == \E changed \in RemoveGroup(GroupsOf(node), label) : Edit(node, changed)

Discard(node) == EraseDocument(node, TRUE)

DiscardIfLoose(node) == ~HasEdges(node) /\ EraseDocument(node, FALSE)

\* The groups and contents the drafts are made of.
DraftGroup == UNION {ToSet(groups) : groups \in Draft}

ClientNext ==
  \/ \E groups \in Draft : Create(groups)
  \/ \E node \in Nodes :
       \/ \E groups \in Draft :
            Edit(node, groups) \/ \E name \in EdgeName : Attach(node, groups, name)
       \/ \E to \in Nodes, name \in EdgeName : Link(node, to, name) \/ Unlink(node, to, name)
       \/ \E deltas \in Delta : MergeInto(node, deltas)
       \/ \E group \in DraftGroup :
            \/ Cut(node, LabelOf(group).text)
            \/ \E content \in ToSet(group) :
                 \/ Annotate(node, LabelOf(group).text, content)
                 \/ Strip(node, LabelOf(group).text, content.label)
                 \/ StripEqual(node, LabelOf(group).text, content)
       \/ Isolate(node)
       \/ Discard(node)
       \/ DiscardIfLoose(node)

ClientSpec == ClientInit /\ [][ClientNext]_graphVars

----------------------------------------------------------------------------
(* What the library promises. *)

(***************************************************************************)
(* No two rows are found under one hash and no two edges under one key,    *)
(* and both ends of every edge are documents: whatever is erased, edited   *)
(* or merged, a lookup never leads from a document to nothing.             *)
(***************************************************************************)
NothingDangles ==
  /\ \A node \in Nodes : Cardinality(IdsOf(node)) = 1
  /\ \A e \in edges : {e.from_node, e.to_node} \subseteq Nodes
  /\ \A e, other \in edges : EdgeId(e) = EdgeId(other) => e = other

(***************************************************************************)
(* The documents and edges are a graph, though an edit stores a second     *)
(* document and moves the edges one by one, self-loops and parallel edges  *)
(* among them, and though different edges may be kept under one key.       *)
(***************************************************************************)
TheGraph == INSTANCE LabelledGraph WITH nodes <- Nodes, links <- edges

ImplementsGraph == TheGraph!Spec

(***************************************************************************)
(* What groups say: what stands under the labels of each named group, and  *)
(* the groups without a name, in order.                                    *)
(***************************************************************************)
Says(group) ==
  [label \in {group[i].label : i \in DOMAIN group} |-> group[IndexOf(group, label)].value]

Named(groups) == {LabelOf(groups[i]).text : i \in DOMAIN groups} \ {NoText}

WithUnnamed(found, group) == IF LabelOf(group) = String(NoText) THEN Append(found, group) ELSE found

Unnamed(groups) == FoldLeft(WithUnnamed, <<>>, groups)

Meaning(groups) ==
  [named |-> [label \in Named(groups) |-> Says(groups[GroupIndex(groups, label)])],
   loose |-> Unnamed(groups)]

\* Groups that say each thing once: no group and no content shares its label.
SaysOnce(groups) ==
  /\ \A i, j \in DOMAIN groups :
       LabelOf(groups[i]) = LabelOf(groups[j]) => i = j \/ LabelOf(groups[i]) = String(NoText)
  /\ \A i \in DOMAIN groups : IsInjective([j \in DOMAIN groups[i] |-> groups[i][j].label])

\* A group whose label is not a text has no name a merge could read.
TextLabelled(groups) == \A i \in DOMAIN groups : LabelOf(groups[i]).kind = "string"

Tagged(deltas, tag) == {label \in Named(deltas) : IndexOf(deltas[GroupIndex(deltas, label)], tag) # 0}

\* What a group says changed by another; no value takes away what a label said.
Updated(old, new) ==
  [label \in {l \in DOMAIN old \cup DOMAIN new : l \notin DOMAIN new \/ new[l] # Nothing} |->
     IF label \in DOMAIN new THEN new[label] ELSE old[label]]

\* What a merge does to the meaning of a document (the example above Document::merge).
MergedMeaning(meaning, deltas) ==
  LET said    == Meaning(deltas)
      deleted == Tagged(deltas, "delete_group")
      kept    == Tagged(deltas, "skip_from_merge") \cup (DOMAIN meaning.named \ DOMAIN said.named)
  IN
  [named |->
     [label \in ((DOMAIN meaning.named \cup DOMAIN said.named) \ deleted)
                  \ (Tagged(deltas, "skip_from_merge") \ DOMAIN meaning.named) |->
        IF label \in kept THEN meaning.named[label]
        ELSE IF label \in DOMAIN meaning.named THEN Updated(meaning.named[label], said.named[label])
        ELSE said.named[label]],
   loose |-> meaning.loose \o said.loose]

\* What the delta deletes or takes a content from must be there.
Mergeable(meaning, deltas) ==
  LET said == Meaning(deltas).named IN
  /\ Tagged(deltas, "delete_group") \subseteq DOMAIN meaning.named
  /\ \A label \in DOMAIN said \ (Tagged(deltas, "delete_group") \cup Tagged(deltas, "skip_from_merge")) :
       label \in DOMAIN meaning.named =>
         {l \in DOMAIN said[label] : said[label][l] = Nothing} \subseteq DOMAIN meaning.named[label]

MergeMeans(groups, deltas) ==
  {Meaning(merged) : merged \in Merge(groups, deltas)} =
    IF TextLabelled(groups) /\ TextLabelled(deltas) /\ Mergeable(Meaning(groups), deltas)
    THEN {MergedMeaning(Meaning(groups), deltas)} ELSE {}

\* Every group of the delta that deletes comes after all the groups that are merged;
\* otherwise a place looked up before the deletion is by then another group's.
DeletesLast(deltas) ==
  \A i \in DOMAIN deltas : \A j \in DOMAIN deltas :
    i < j /\ IndexOf(deltas[i], "delete_group") # 0 => IndexOf(deltas[j], "delete_group") # 0

(***************************************************************************)
(* A merge changes, adds, keeps and deletes the named groups of a document *)
(* as the delta says, whatever place they have in the two documents, when  *)
(* the delta deletes groups last; it aborts when the delta takes away what *)
(* is not there, or a label of the two documents is not a text.            *)
(***************************************************************************)
MergeMeaning ==
  \A node \in Nodes : \A deltas \in Delta :
    SaysOnce(GroupsOf(node)) /\ SaysOnce(deltas) /\ DeletesLast(deltas)
      => MergeMeans(GroupsOf(node), deltas)
=============================================================================
