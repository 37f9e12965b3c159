------------------------ MODULE DocumentGraphProofs -------------------------
(***************************************************************************)
(* Documents and edges: what the library's operations do to them, for any  *)
(* documents and whatever keys the library derives for edges.  The first   *)
(* parts need nothing of what a document says, and do not expand Hash; the *)
(* last is about the groups themselves: that changing them leaves groups.  *)
(***************************************************************************)
EXTENDS DocumentGraph, FiniteSetTheorems, SequenceTheorems, TableTheorems, TLAPS

\* The hashes documents are stored under.
StoredIn(rows) == {rows[id].hash : id \in DOMAIN rows}

\* A table of documents with ids up to limit, each under a hash of its own.
DocumentsTabled(rows, limit) ==
  /\ DOMAIN rows \subseteq 0..limit
  /\ \A i, j \in DOMAIN rows : rows[i].hash = rows[j].hash => i = j

\* Edges are edges, and each has an id of its own.
EdgesTabled(es) ==
  /\ \A e \in es : e = Edge(e.from_node, e.to_node, e.edge_name)
  /\ \A e, other \in es : EdgeId(e) = EdgeId(other) => e = other

EndsIn(es, nodes) == \A e \in es : e.from_node \in nodes /\ e.to_node \in nodes

----------------------------------------------------------------------------
(* Documents. *)

(* The document stored under a hash. *)
LEMMA IdOfStored ==
  ASSUME NEW limit, DocumentsTabled(documents, limit), NEW hash, Exists(hash)
  PROVE  /\ IdOf(hash) \in DOMAIN documents
         /\ documents[IdOf(hash)].hash = hash
         /\ IdsOf(hash) = {IdOf(hash)}
<1>1. PICK id \in DOMAIN documents : documents[id].hash = hash
  BY DEF Exists, IdsOf
<1>2. \A other \in DOMAIN documents : documents[other].hash = hash => other = id
  BY <1>1 DEF DocumentsTabled
<1>3. IdsOf(hash) = {id}
  BY <1>1, <1>2 DEF IdsOf
<1>4. id \in Int
  BY <1>1 DEF DocumentsTabled
<1>5. IdOf(hash) = id
  BY <1>3, <1>4 DEF IdOf
<1> QED BY <1>1, <1>3, <1>5

LEMMA ExistsIsStored == \A hash : Exists(hash) <=> hash \in StoredIn(documents)
BY DEF Exists, IdsOf, StoredIn

(* Storing a document under a new hash. *)
LEMMA EmplacedEffect ==
  ASSUME NEW limit \in Nat, DocumentsTabled(documents, limit), MaxDocId <= limit,
         NEW groups, MayEmplace(groups)
  PROVE  /\ DOMAIN Emplaced(groups) = DOMAIN documents \cup {NextKey(documents)}
         /\ NextKey(documents) \in 0..MaxDocId
         /\ \A id \in DOMAIN documents :
              id < NextKey(documents) /\ Emplaced(groups)[id] = documents[id]
         /\ Emplaced(groups)[NextKey(documents)].hash = Hash(groups)
         /\ Hash(groups) \notin StoredIn(documents)
         /\ StoredIn(Emplaced(groups)) = StoredIn(documents) \cup {Hash(groups)}
         /\ DocumentsTabled(Emplaced(groups), limit)
<1> DEFINE key == NextKey(documents)
           row == Document(groups)
           rows == Emplaced(groups)
<1>1. key \in 0..limit + 1 /\ (\A id \in DOMAIN documents : id < key) /\ key <= MaxDocId
  BY NextKeyFresh DEF MayEmplace, DocumentsTabled
<1>2. row.hash = Hash(groups)
  BY DEF Document
<1>3. rows = Put(documents, key, row)
  BY DEF Emplaced
<1>4. ~Exists(Hash(groups))
  BY DEF MayEmplace
<1>5. key \in 0..MaxDocId /\ MaxDocId \in Nat
  BY <1>1, GraphAssumption
<1>6. key \notin DOMAIN documents
  <2>1. ~(key < key)
    BY <1>5
  <2> QED BY <1>1, <2>1
<1> HIDE DEF key, row, rows
<1>7. /\ DOMAIN rows = DOMAIN documents \cup {key} /\ rows[key] = row
      /\ \A id \in DOMAIN documents : rows[id] = documents[id]
  BY <1>3, <1>6 DEF Put
<1>8. Hash(groups) \notin StoredIn(documents)
  BY <1>4, ExistsIsStored
<1>9. StoredIn(rows) = StoredIn(documents) \cup {Hash(groups)}
  BY <1>2, <1>7 DEF StoredIn
<1>10. DOMAIN rows \subseteq 0..limit
  BY <1>5, <1>7 DEF DocumentsTabled
<1>11. \A i, j \in DOMAIN rows : rows[i].hash = rows[j].hash => i = j
  BY <1>2, <1>7, <1>8 DEF DocumentsTabled, StoredIn
<1> QED BY <1>1, <1>2, <1>5, <1>7, <1>8, <1>9, <1>10, <1>11 DEF DocumentsTabled, key, rows

(* Erasing one. *)
LEMMA EraseEffect ==
  ASSUME NEW rows, NEW limit, DocumentsTabled(rows, limit), NEW id \in DOMAIN rows
  PROVE  /\ DOMAIN Erase(rows, id) = DOMAIN rows \ {id}
         /\ \A i \in DOMAIN rows \ {id} : Erase(rows, id)[i] = rows[i]
         /\ StoredIn(Erase(rows, id)) = StoredIn(rows) \ {rows[id].hash}
         /\ DocumentsTabled(Erase(rows, id), limit)
<1>1. /\ DOMAIN Erase(rows, id) = DOMAIN rows \ {id}
      /\ \A i \in DOMAIN rows \ {id} : Erase(rows, id)[i] = rows[i]
  BY DEF Erase, Restrict
<1> QED BY <1>1 DEF DocumentsTabled, StoredIn

----------------------------------------------------------------------------
(* Edges. *)

(* Writing one. *)
LEMMA WriteEffect ==
  ASSUME NEW es, EdgesTabled(es), NEW from, NEW to, NEW name, MayWrite(es, Edge(from, to, name))
  PROVE  /\ Edge(from, to, name) \notin es
         /\ EdgesTabled(es \cup {Edge(from, to, name)})
<1> DEFINE e == Edge(from, to, name)
<1>1. e = Edge(e.from_node, e.to_node, e.edge_name)
  BY DEF Edge
<1> HIDE DEF e
<1>2. \A other \in es : EdgeId(other) # EdgeId(e)
  BY DEF MayWrite, e
<1>3. e \notin es
  BY <1>2
<1>4. EdgesTabled(es \cup {e})
  BY <1>1, <1>2 DEF EdgesTabled
<1> QED BY <1>3, <1>4 DEF e

(* Erasing some. *)
LEMMA FewerEdges ==
  ASSUME NEW es, NEW fewer \in SUBSET es, EdgesTabled(es)
  PROVE  EdgesTabled(fewer)
BY DEF EdgesTabled
\* An edge when new has taken old's place at one end.
FromMoved(e, old, new) == Edge(IF e.from_node = old THEN new ELSE e.from_node, e.to_node, e.edge_name)
ToMoved(e, old, new)   == Edge(e.from_node, IF e.to_node = old THEN new ELSE e.to_node, e.edge_name)

\* The two checks of replaceNode.
MayMoveFrom(es, old, new) ==
  MayRewrite(es, Leaving(es, old), LAMBDA e : [e EXCEPT !.from_node = new])
MayMoveTo(es, old, new) ==
  MayRewrite(es, Reaching(es, old), LAMBDA e : [e EXCEPT !.to_node = new])

(* Writing the edges that leave a node again, one by one, moves their ends. *)
LEMMA RelinkFromEffect ==
  ASSUME NEW es, EdgesTabled(es), NEW old, NEW new, MayMoveFrom(es, old, new)
  PROVE  /\ RelinkFrom(es, old, new) = {FromMoved(e, old, new) : e \in es}
         /\ EdgesTabled(RelinkFrom(es, old, new))
<1> DEFINE leaving == Leaving(es, old)
           Rewritten(e) == [e EXCEPT !.from_node = new]
           moved == RelinkFrom(es, old, new)
<1>1. \A e \in leaving : Rewritten(e) = FromMoved(e, old, new)
  BY DEF EdgesTabled, Leaving, FromMoved, Edge
<1>2. \A e \in es \ leaving : e = FromMoved(e, old, new)
  BY DEF EdgesTabled, Leaving, FromMoved
<1>3. /\ \A e \in leaving, other \in es :
           EdgeId(Rewritten(e)) = EdgeId(other) => other \in leaving
      /\ \A e, other \in leaving : EdgeId(Rewritten(e)) = EdgeId(Rewritten(other)) => e = other
  BY DEF MayMoveFrom, MayRewrite
<1>4. moved = (es \ leaving) \cup {Rewritten(e) : e \in leaving} /\ leaving \subseteq es
  BY DEF RelinkFrom, Leaving
<1>5. \A e : FromMoved(e, old, new) = Edge(FromMoved(e, old, new).from_node,
                                           FromMoved(e, old, new).to_node,
                                           FromMoved(e, old, new).edge_name)
  BY DEF FromMoved, Edge
<1> HIDE DEF leaving, Rewritten, moved
<1>6. moved = {FromMoved(e, old, new) : e \in es}
  BY <1>1, <1>2, <1>4
<1>7. \A e, other \in moved : EdgeId(e) = EdgeId(other) => e = other
  BY <1>3, <1>4 DEF EdgesTabled
<1>8. EdgesTabled(moved)
  BY <1>5, <1>6, <1>7 DEF EdgesTabled
<1> QED BY <1>6, <1>8 DEF moved

(* And so for those that reach it. *)
LEMMA RelinkToEffect ==
  ASSUME NEW es, EdgesTabled(es), NEW old, NEW new, MayMoveTo(es, old, new)
  PROVE  /\ RelinkTo(es, old, new) = {ToMoved(e, old, new) : e \in es}
         /\ EdgesTabled(RelinkTo(es, old, new))
<1> DEFINE reaching == Reaching(es, old)
           Rewritten(e) == [e EXCEPT !.to_node = new]
           moved == RelinkTo(es, old, new)
<1>1. \A e \in reaching : Rewritten(e) = ToMoved(e, old, new)
  BY DEF EdgesTabled, Reaching, ToMoved, Edge
<1>2. \A e \in es \ reaching : e = ToMoved(e, old, new)
  BY DEF EdgesTabled, Reaching, ToMoved
<1>3. /\ \A e \in reaching, other \in es :
           EdgeId(Rewritten(e)) = EdgeId(other) => other \in reaching
      /\ \A e, other \in reaching : EdgeId(Rewritten(e)) = EdgeId(Rewritten(other)) => e = other
  BY DEF MayMoveTo, MayRewrite
<1>4. moved = (es \ reaching) \cup {Rewritten(e) : e \in reaching} /\ reaching \subseteq es
  BY DEF RelinkTo, Reaching
<1>5. \A e : ToMoved(e, old, new) = Edge(ToMoved(e, old, new).from_node,
                                         ToMoved(e, old, new).to_node,
                                         ToMoved(e, old, new).edge_name)
  BY DEF ToMoved, Edge
<1> HIDE DEF reaching, Rewritten, moved
<1>6. moved = {ToMoved(e, old, new) : e \in es}
  BY <1>1, <1>2, <1>4
<1>7. \A e, other \in moved : EdgeId(e) = EdgeId(other) => e = other
  BY <1>3, <1>4 DEF EdgesTabled
<1>8. EdgesTabled(moved)
  BY <1>5, <1>6, <1>7 DEF EdgesTabled
<1> QED BY <1>6, <1>8 DEF moved

\* An edge when new has taken old's place.
Moved(e, old, new) ==
  Edge(IF e.from_node = old THEN new ELSE e.from_node,
       IF e.to_node = old THEN new ELSE e.to_node, e.edge_name)

(***************************************************************************)
(* replaceNode rewrites edges at one end after the other, a loop twice:    *)
(* the outcome is that of replacing the node at both ends at once, unless  *)
(* the new node is the old one, and no two edges come to share an id.      *)
(***************************************************************************)
LEMMA ReplaceNodeEffect ==
  ASSUME NEW es, EdgesTabled(es), NEW old, NEW new, MayRelink(es, old, new)
  PROVE  /\ ReplaceNode(es, old, new) = {Moved(e, old, new) : e \in es}
         /\ EdgesTabled(ReplaceNode(es, old, new))
<1> DEFINE relinked == RelinkFrom(es, old, new)
<1>1. MayMoveFrom(es, old, new) /\ MayMoveTo(relinked, old, new)
  BY DEF MayRelink, MayMoveFrom, MayMoveTo
<1>2. relinked = {FromMoved(e, old, new) : e \in es} /\ EdgesTabled(relinked)
  BY <1>1, RelinkFromEffect
<1> HIDE DEF relinked
<1>3. /\ RelinkTo(relinked, old, new) = {ToMoved(e, old, new) : e \in relinked}
      /\ EdgesTabled(RelinkTo(relinked, old, new))
  BY <1>1, <1>2, RelinkToEffect
<1>4. \A e : ToMoved(FromMoved(e, old, new), old, new) = Moved(e, old, new)
  BY DEF ToMoved, FromMoved, Moved, Edge
<1>5. RelinkTo(relinked, old, new) = {Moved(e, old, new) : e \in es}
  BY <1>2, <1>3, <1>4
<1> QED BY <1>3, <1>5 DEF ReplaceNode, relinked
----------------------------------------------------------------------------
(* Whole operations. *)

\* new has taken old's place in the documents and at the ends of all edges.
Exchanged(limit, old, new) ==
  /\ old \in StoredIn(documents) /\ new \notin StoredIn(documents)
  /\ StoredIn(documents') = (StoredIn(documents) \ {old}) \cup {new}
  /\ DocumentsTabled(documents', limit)
  /\ edges' = {Moved(e, old, new) : e \in edges}
  /\ EdgesTabled(edges')
  /\ DOMAIN documents' = (DOMAIN documents \cup {NextKey(documents)}) \ {IdOf(old)}
  /\ \A id \in DOMAIN documents \ {IdOf(old)} : documents'[id] = documents[id]
  /\ NextKey(documents) \in Nat /\ documents'[NextKey(documents)].hash = new
  /\ \A id \in DOMAIN documents : id < NextKey(documents)

LEMMA UpdateEffect ==
  ASSUME NEW limit \in Nat, DocumentsTabled(documents, limit), MaxDocId <= limit,
         EdgesTabled(edges), NEW hash, NEW groups, UpdateDocument(hash, groups)
  PROVE  Exchanged(limit, hash, Hash(groups))
<1> DEFINE new == Hash(groups)
           rows == Emplaced(groups)
           id == IdOf(hash)
           key == NextKey(documents)
<1>1. /\ Exists(hash) /\ MayEmplace(groups) /\ MayRelink(edges, hash, new)
      /\ documents' = Erase(rows, id) /\ edges' = ReplaceNode(edges, hash, new)
  BY DEF UpdateDocument
<1>2. id \in DOMAIN documents /\ documents[id].hash = hash
  BY <1>1, IdOfStored
<1>3. /\ DOMAIN rows = DOMAIN documents \cup {key}
      /\ \A i \in DOMAIN documents : rows[i] = documents[i]
      /\ new \notin StoredIn(documents)
      /\ StoredIn(rows) = StoredIn(documents) \cup {new}
      /\ DocumentsTabled(rows, limit)
      /\ key \in Nat /\ rows[key].hash = new
      /\ \A i \in DOMAIN documents : i < key
  BY <1>1, EmplacedEffect
<1>4. edges' = {Moved(e, hash, new) : e \in edges} /\ EdgesTabled(edges')
  BY <1>1, ReplaceNodeEffect
<1>5. hash \in StoredIn(documents)
  BY <1>2 DEF StoredIn
<1> HIDE DEF new, rows, id, key
<1>6. /\ DOMAIN documents' = DOMAIN rows \ {id}
      /\ \A i \in DOMAIN rows \ {id} : documents'[i] = rows[i]
      /\ StoredIn(documents') = StoredIn(rows) \ {rows[id].hash}
      /\ DocumentsTabled(documents', limit)
  <2>1. id \in DOMAIN rows
    BY <1>2, <1>3
  <2>2. /\ DOMAIN Erase(rows, id) = DOMAIN rows \ {id}
        /\ \A i \in DOMAIN rows \ {id} : Erase(rows, id)[i] = rows[i]
        /\ StoredIn(Erase(rows, id)) = StoredIn(rows) \ {rows[id].hash}
        /\ DocumentsTabled(Erase(rows, id), limit)
    BY <1>3, <2>1, EraseEffect
  <2> QED BY <1>1, <2>2
<1>7. new # hash
  BY <1>3, <1>5
<1>8. StoredIn(documents') = (StoredIn(documents) \ {hash}) \cup {new}
  BY <1>2, <1>3, <1>6, <1>7
<1>9. id < key
  BY <1>2, <1>3
<1>10. id # key
  <2>1. ~(key < key)
    BY <1>3
  <2> QED BY <1>9, <2>1
<1> QED BY <1>3, <1>4, <1>5, <1>6, <1>8, <1>10 DEF Exchanged, new, rows, id, key

(* eraseDocument takes away one hash, and its edges if the caller says so. *)
LEMMA EraseDocumentEffect ==
  ASSUME NEW limit \in Nat, DocumentsTabled(documents, limit), EdgesTabled(edges),
         NEW hash, NEW include_edges \in BOOLEAN, EraseDocument(hash, include_edges)
  PROVE  /\ StoredIn(documents') = StoredIn(documents) \ {hash}
         /\ DocumentsTabled(documents', limit)
         /\ EdgesTabled(edges')
         /\ edges' = IF include_edges
                     THEN {e \in edges : e.from_node # hash /\ e.to_node # hash} ELSE edges
<1>1. /\ Exists(hash) /\ documents' = Erase(documents, IdOf(hash))
      /\ edges' = IF include_edges THEN RemoveEdges(edges, hash) ELSE edges
  BY DEF EraseDocument
<1>2. IdOf(hash) \in DOMAIN documents /\ documents[IdOf(hash)].hash = hash
  BY <1>1, IdOfStored
<1>3. StoredIn(documents') = StoredIn(documents) \ {hash} /\ DocumentsTabled(documents', limit)
  <2>1. /\ StoredIn(Erase(documents, IdOf(hash)))
             = StoredIn(documents) \ {documents[IdOf(hash)].hash}
        /\ DocumentsTabled(Erase(documents, IdOf(hash)), limit)
    BY <1>2, EraseEffect
  <2> QED BY <1>1, <1>2, <2>1
<1>4. RemoveEdges(edges, hash) = {e \in edges : e.from_node # hash /\ e.to_node # hash}
  BY DEF RemoveEdges, Leaving, Reaching
<1>5. edges' \subseteq edges
  BY <1>1, <1>4
<1>6. EdgesTabled(edges')
  BY <1>5, FewerEdges
<1> QED BY <1>1, <1>3, <1>4, <1>6
----------------------------------------------------------------------------
(* What documents say. *)

\* Any content, group and document.
ContentRow    == [label : STRING, value : FlexValue]
ContentGroup  == Seq(ContentRow)
ContentGroups == Seq(ContentGroup)

(* The first place where something is found, if it is. *)
LEMMA FirstFound ==
  ASSUME NEW n \in Nat, NEW found \in SUBSET (1..n), NEW i,
         i = IF found # {} THEN Min(found) ELSE 0
  PROVE  i \in 0..n /\ (i # 0 <=> found # {}) /\ (i # 0 => i \in found)
<1>1. CASE found = {}
  BY <1>1
<1>2. CASE found # {}
  <2>1. found \subseteq Nat
    OBVIOUS
  <2>2. Min(found) \in found
    BY <1>2, <2>1, MinIsLeast
  <2>3. i \in found /\ found \subseteq 0..n /\ 0 \notin found
    BY <1>2, <2>2
  <2> QED BY <1>2, <2>3
<1> QED BY <1>1, <1>2

LEMMA IndexOfFound ==
  ASSUME NEW S, NEW group \in Seq(S), NEW label
  PROVE  /\ IndexOf(group, label) \in 0..Len(group)
         /\ IndexOf(group, label) # 0 => group[IndexOf(group, label)].label = label
<1> DEFINE found == {i \in 1..Len(group) : group[i].label = label}
<1>1. IndexOf(group, label) = IF found # {} THEN Min(found) ELSE 0
  BY DEF IndexOf, SelectInSeq
<1>2. Len(group) \in Nat /\ found \in SUBSET (1..Len(group))
  BY LenProperties
<1> HIDE DEF found
<1>3. /\ IndexOf(group, label) \in 0..Len(group)
      /\ IndexOf(group, label) # 0 => IndexOf(group, label) \in found
  BY <1>1, <1>2, FirstFound
<1> QED BY <1>3 DEF found

LEMMA GroupIndexFound ==
  ASSUME NEW S, NEW groups \in Seq(S), NEW label
  PROVE  /\ GroupIndex(groups, label) \in 0..Len(groups)
         /\ GroupIndex(groups, label) # 0
              => String(label) \in Labels(groups[GroupIndex(groups, label)])
<1> DEFINE found == {i \in 1..Len(groups) : String(label) \in Labels(groups[i])}
<1>1. GroupIndex(groups, label) = IF found # {} THEN Min(found) ELSE 0
  BY DEF GroupIndex, SelectInSeq
<1>2. Len(groups) \in Nat /\ found \in SUBSET (1..Len(groups))
  BY LenProperties
<1> HIDE DEF found
<1>3. /\ GroupIndex(groups, label) \in 0..Len(groups)
      /\ GroupIndex(groups, label) # 0 => GroupIndex(groups, label) \in found
  BY <1>1, <1>2, FirstFound
<1> QED BY <1>3 DEF found

(* A sequence without the element at one place, element by element. *)
LEMMA RemoveAtElements ==
  ASSUME NEW S, NEW seq \in Seq(S), NEW i \in 1..Len(seq)
  PROVE  /\ RemoveAt(seq, i) \in Seq(S)
         /\ Len(RemoveAt(seq, i)) = Len(seq) - 1
         /\ \A k \in 1..(Len(seq) - 1) : RemoveAt(seq, i)[k] = IF k < i THEN seq[k] ELSE seq[k + 1]
<1> DEFINE before == SubSeq(seq, 1, i - 1)
           after == SubSeq(seq, i + 1, Len(seq))
<1>1. Len(seq) \in Nat /\ \A k \in 1..Len(seq) : seq[k] \in S
  BY ElementOfSeq, LenProperties
<1>2. before \in Seq(S) /\ Len(before) = i - 1 /\ \A k \in 1..(i - 1) : before[k] = seq[k]
  <2>1. \A k \in 1..(i - 1) : seq[k] \in S
    BY <1>1
  <2>2. 1 \in Int /\ i - 1 \in Int
    BY <1>1
  <2>3. /\ before \in Seq(S) /\ Len(before) = IF 1 <= i - 1 THEN (i - 1) - 1 + 1 ELSE 0
        /\ \A k \in 1..((i - 1) - 1 + 1) : before[k] = seq[1 + k - 1]
    BY <2>1, <2>2, SubSeqProperties
  <2> HIDE DEF before
  <2> QED BY <1>1, <2>3
<1>3. /\ after \in Seq(S) /\ Len(after) = Len(seq) - i
      /\ \A k \in 1..(Len(seq) - i) : after[k] = seq[k + i]
  <2>1. \A k \in (i + 1)..Len(seq) : seq[k] \in S
    BY <1>1
  <2>2. i + 1 \in Int /\ Len(seq) \in Int
    BY <1>1
  <2>3. /\ after \in Seq(S) /\ Len(after) = IF i + 1 <= Len(seq) THEN Len(seq) - (i + 1) + 1 ELSE 0
        /\ \A k \in 1..(Len(seq) - (i + 1) + 1) : after[k] = seq[(i + 1) + k - 1]
    BY <2>1, <2>2, SubSeqProperties
  <2> HIDE DEF after
  <2>4. \A k \in 1..(Len(seq) - i) : (i + 1) + k - 1 = k + i
    BY <1>1
  <2> QED BY <1>1, <2>3, <2>4
<1>4. RemoveAt(seq, i) = before \o after
  BY DEF RemoveAt
<1> HIDE DEF before, after
<1>5. /\ before \o after \in Seq(S) /\ Len(before \o after) = Len(seq) - 1
      /\ \A k \in 1..(Len(seq) - 1) :
           (before \o after)[k] = IF k <= i - 1 THEN before[k] ELSE after[k - (i - 1)]
  <2>1. before \in Seq(S) /\ after \in Seq(S)
    BY <1>2, <1>3
  <2>2. /\ before \o after \in Seq(S) /\ Len(before \o after) = Len(before) + Len(after)
        /\ \A k \in 1..(Len(before) + Len(after)) :
             (before \o after)[k] = IF k <= Len(before) THEN before[k] ELSE after[k - Len(before)]
    BY <2>1, ConcatProperties
  <2>3. Len(before) = i - 1 /\ Len(before) + Len(after) = Len(seq) - 1
    BY <1>1, <1>2, <1>3
  <2> QED BY <2>2, <2>3
<1>6. ASSUME NEW k \in 1..(Len(seq) - 1)
      PROVE  (before \o after)[k] = IF k < i THEN seq[k] ELSE seq[k + 1]
  <2>1. CASE k < i
    BY <1>1, <1>2, <1>5, <2>1
  <2>2. CASE ~(k < i)
    <3>1. k - (i - 1) \in 1..(Len(seq) - i) /\ (k - (i - 1)) + i = k + 1
      BY <1>1, <2>2
    <3> QED BY <1>1, <1>3, <1>5, <2>2, <3>1
  <2> QED BY <2>1, <2>2
<1> QED BY <1>1, <1>4, <1>5, <1>6

(* It is a sequence of the same kind. *)
LEMMA RemoveAtTyped ==
  ASSUME NEW S, NEW seq \in Seq(S), NEW i \in 1..Len(seq)
  PROVE  RemoveAt(seq, i) \in Seq(S)
BY RemoveAtElements

LEMMA ContentTyped ==
  /\ \A label \in STRING, value \in FlexValue : Content(label, value) \in ContentRow
  /\ \A text \in STRING : String(text) \in FlexValue /\ NameOf(text) \in FlexValue
BY DEF Content, ContentRow, String, NameOf, FlexValue

(* The text of a document is a document. *)
LEMMA HashTyped ==
  ASSUME NEW groups \in ContentGroups
  PROVE  Hash(groups) \in ContentGroups
<1>1. ASSUME NEW content \in ContentRow PROVE Written(content) \in ContentRow
  <2>1. NoText \in STRING
    BY TextAssumption
  <2>2. Nothing \in FlexValue
    BY <2>1 DEF Nothing, FlexValue
  <2>3. Content(NoText, Nothing) \in ContentRow
    BY <2>1, <2>2, ContentTyped
  <2> QED BY <2>3 DEF Written
<1>2. ASSUME NEW group \in ContentGroup PROVE WrittenGroup(group) \in ContentGroup
  <2>1. \A i \in 1..Len(group) : Written(group[i]) \in ContentRow
    BY <1>1, ElementOfSeq DEF ContentGroup
  <2>2. Len(group) \in Nat /\ DOMAIN group = 1..Len(group)
    BY LenProperties DEF ContentGroup
  <2>3. [i \in DOMAIN group |-> Written(group[i])] \in Seq(ContentRow)
    BY <2>1, <2>2, IsASeq
  <2>4. << >> \in Seq(ContentRow)
    BY EmptySeq
  <2> QED BY <2>3, <2>4 DEF WrittenGroup, ContentGroup
<1>3. \A i \in 1..Len(groups) : WrittenGroup(groups[i]) \in ContentGroup
  BY <1>2, ElementOfSeq DEF ContentGroups
<1>4. Len(groups) \in Nat /\ DOMAIN groups = 1..Len(groups)
  BY LenProperties DEF ContentGroups
<1>5. [i \in DOMAIN groups |-> WrittenGroup(groups[i])] \in Seq(ContentGroup)
  BY <1>3, <1>4, IsASeq
<1> QED BY <1>5 DEF Hash, ContentGroups

LEMMA InsertTyped ==
  ASSUME NEW group \in ContentGroup, NEW content \in ContentRow
  PROVE  InsertOrReplace(group, content) \in ContentGroup
<1> DEFINE i == IndexOf(group, content.label)
           row == [group[i] EXCEPT !.value = content.value]
<1>1. i \in 0..Len(group) /\ Len(group) \in Nat
  BY IndexOfFound, LenProperties DEF ContentGroup
<1>2. CASE i = 0
  BY <1>2, AppendProperties DEF InsertOrReplace, ContentGroup
<1>3. CASE i # 0
  <2>1. i \in 1..Len(group)
    BY <1>1, <1>3
  <2>2. group[i] \in ContentRow
    BY <2>1, ElementOfSeq DEF ContentGroup
  <2>3. row \in ContentRow
    BY <2>2 DEF ContentRow
  <2>4. InsertOrReplace(group, content) = [group EXCEPT ![i] = row]
    BY <1>3 DEF InsertOrReplace
  <2> HIDE DEF i, row
  <2> QED BY <2>1, <2>3, <2>4, ExceptSeq DEF ContentGroup
<1> QED BY <1>2, <1>3

(* One content removed from the group at a place. *)
LEMMA RemoveAtPlaceTyped ==
  ASSUME NEW groups \in ContentGroups, NEW place, NEW label, NEW changed \in RemoveAtPlace(groups, place, label)
  PROVE  /\ changed \in ContentGroups
         /\ place \in 1..Len(groups) /\ Len(changed) = Len(groups)
         /\ \A j \in 1..Len(groups) : j # place => changed[j] = groups[j]
<1>1. PICK i \in DOMAIN groups \cap {place} :
        /\ IndexOf(groups[i], label) # 0
        /\ changed = [groups EXCEPT ![i] = RemoveAt(@, IndexOf(@, label))]
  BY DEF RemoveAtPlace
<1>2. i \in 1..Len(groups) /\ i = place
  BY LenProperties DEF ContentGroups
<1> DEFINE group == groups[i]
           rest == RemoveAt(group, IndexOf(group, label))
<1>3. group \in ContentGroup
  BY <1>2, ElementOfSeq DEF ContentGroups
<1>4. IndexOf(group, label) \in 1..Len(group)
  <2>1. IndexOf(group, label) \in 0..Len(group) /\ Len(group) \in Nat
    BY <1>3, IndexOfFound, LenProperties DEF ContentGroup
  <2> QED BY <1>1, <2>1
<1>5. rest \in ContentGroup
  BY <1>3, <1>4, RemoveAtTyped DEF ContentGroup
<1>6. changed = [groups EXCEPT ![i] = rest]
  BY <1>1
<1> HIDE DEF group, rest
<1> QED BY <1>2, <1>5, <1>6, ExceptSeq DEF ContentGroups

LEMMA RemoveEqualTyped ==
  ASSUME NEW groups \in ContentGroups, NEW label, NEW content,
         NEW changed \in RemoveEqual(groups, label, content)
  PROVE  changed \in ContentGroups
<1>1. PICK i \in DOMAIN groups :
        /\ IndexOfEqual(groups[i], content) # 0
        /\ changed = [groups EXCEPT ![i] = RemoveAt(@, IndexOfEqual(@, content))]
  BY DEF RemoveEqual
<1>2. i \in 1..Len(groups)
  BY LenProperties DEF ContentGroups
<1> DEFINE group == groups[i]
           place == IndexOfEqual(group, content)
           found == {j \in 1..Len(group) : group[j] = content}
           rest == RemoveAt(group, place)
<1>3. group \in ContentGroup
  BY <1>2, ElementOfSeq DEF ContentGroups
<1>4. place \in 1..Len(group)
  <2>1. place = (IF found # {} THEN Min(found) ELSE 0) /\ place # 0
    BY <1>1 DEF IndexOfEqual, SelectInSeq
  <2>2. Len(group) \in Nat /\ found \in SUBSET (1..Len(group))
    BY <1>3, LenProperties DEF ContentGroup
  <2> HIDE DEF found, place, group
  <2>3. place \in 0..Len(group)
    BY <2>1, <2>2, FirstFound
  <2> QED BY <2>1, <2>2, <2>3
<1>5. rest \in ContentGroup
  <2> HIDE DEF place, group
  <2> QED BY <1>3, <1>4, RemoveAtTyped DEF ContentGroup
<1>6. changed = [groups EXCEPT ![i] = rest]
  BY <1>1
<1> HIDE DEF group, rest, place
<1> QED BY <1>2, <1>5, <1>6, ExceptSeq DEF ContentGroups

----------------------------------------------------------------------------
(* Groups that give each label once. *)

OneEach(group) == IsInjective([j \in DOMAIN group |-> group[j].label])

\* What stands under a label of a group.
Said(group, label) == {group[i].value : i \in {j \in DOMAIN group : group[j].label = label}}

LEMMA ContentOfGroup ==
  ASSUME NEW group \in ContentGroup
  PROVE  /\ Len(group) \in Nat /\ DOMAIN group = 1..Len(group)
         /\ \A i \in DOMAIN group : group[i] \in ContentRow
         /\ \A i \in DOMAIN group : group[i].label \in STRING /\ group[i].value \in FlexValue
         /\ OneEach(group) <=> \A i, j \in DOMAIN group : group[i].label = group[j].label => i = j
<1>1. /\ Len(group) \in Nat /\ DOMAIN group = 1..Len(group)
      /\ \A i \in DOMAIN group : group[i] \in ContentRow
  BY LenProperties, ElementOfSeq DEF ContentGroup
<1>2. OneEach(group) <=> \A i, j \in DOMAIN group : group[i].label = group[j].label => i = j
  BY DEF OneEach, IsInjective
<1> QED BY <1>1, <1>2 DEF ContentRow

LEMMA GroupOfGroups ==
  ASSUME NEW groups \in ContentGroups
  PROVE  /\ Len(groups) \in Nat /\ DOMAIN groups = 1..Len(groups)
         /\ \A i \in DOMAIN groups : groups[i] \in ContentGroup
BY LenProperties, ElementOfSeq DEF ContentGroups

LEMMA SaidOnce ==
  ASSUME NEW group \in ContentGroup, OneEach(group), NEW i \in DOMAIN group
  PROVE  Said(group, group[i].label) = {group[i].value}
BY ContentOfGroup DEF Said

LEMMA IndexOfExact ==
  ASSUME NEW group \in ContentGroup, NEW label
  PROVE  /\ IndexOf(group, label) = 0 <=> Said(group, label) = {}
         /\ IndexOf(group, label) # 0 =>
              /\ IndexOf(group, label) \in DOMAIN group
              /\ group[IndexOf(group, label)].label = label
<1> DEFINE found == {i \in 1..Len(group) : group[i].label = label}
<1>1. IndexOf(group, label) = IF found # {} THEN Min(found) ELSE 0
  BY DEF IndexOf, SelectInSeq
<1>2. Len(group) \in Nat /\ found \in SUBSET (1..Len(group)) /\ DOMAIN group = 1..Len(group)
  BY ContentOfGroup
<1>3. Said(group, label) = {} <=> found = {}
  BY <1>2 DEF Said
<1> HIDE DEF found
<1>4. /\ IndexOf(group, label) # 0 <=> found # {}
      /\ IndexOf(group, label) # 0 => IndexOf(group, label) \in found
  BY <1>1, <1>2, FirstFound
<1> QED BY <1>2, <1>3, <1>4 DEF found

(* The group's name stands under its label, or it has none. *)
LEMMA LabelSaid ==
  ASSUME NEW group \in ContentGroup, OneEach(group)
  PROVE  /\ LabelOf(group) \in FlexValue
         /\ Labels(group) = Said(group, GroupLabel)
         /\ \/ Said(group, GroupLabel) = {LabelOf(group)}
            \/ Said(group, GroupLabel) = {} /\ LabelOf(group) = String(NoText)
<1>1. Labels(group) = Said(group, GroupLabel)
  BY DEF Labels, Said
<1>2. CASE IndexOf(group, GroupLabel) = 0
  <2>1. Said(group, GroupLabel) = {} /\ LabelOf(group) = String(NoText)
    BY <1>2, IndexOfExact DEF LabelOf
  <2> QED BY <1>1, <2>1, ContentTyped, TextAssumption
<1>3. CASE IndexOf(group, GroupLabel) # 0
  <2> DEFINE i == IndexOf(group, GroupLabel)
  <2>1. i \in DOMAIN group /\ group[i].label = GroupLabel /\ LabelOf(group) = group[i].value
    BY <1>3, IndexOfExact DEF LabelOf
  <2> HIDE DEF i
  <2>2. Said(group, GroupLabel) = {group[i].value} /\ group[i].value \in FlexValue
    BY <2>1, SaidOnce, ContentOfGroup
  <2> QED BY <1>1, <2>1, <2>2
<1> QED BY <1>2, <1>3

(* insertOrReplace sets what one label says. *)
LEMMA InsertSaid ==
  ASSUME NEW group \in ContentGroup, OneEach(group), NEW content \in ContentRow
  PROVE  LET new == InsertOrReplace(group, content) IN
         /\ new \in ContentGroup /\ OneEach(new)
         /\ \A label : Said(new, label) = IF label = content.label THEN {content.value}
                                          ELSE Said(group, label)
<1> DEFINE i == IndexOf(group, content.label)
           new == InsertOrReplace(group, content)
           row == [group[i] EXCEPT !.value = content.value]
<1>1. new \in ContentGroup
  BY InsertTyped
<1>2. CASE i = 0
  <2>1. new = Append(group, content)
    BY <1>2 DEF InsertOrReplace
  <2>2. /\ Len(new) = Len(group) + 1
        /\ \A j \in 1..Len(group) : new[j] = group[j]
        /\ new[Len(group) + 1] = content
    BY <2>1, AppendProperties DEF ContentGroup
  <2>3. Said(group, content.label) = {}
    BY <1>2, IndexOfExact
  <2> HIDE DEF new, i
  <2>4. /\ DOMAIN new = DOMAIN group \cup {Len(group) + 1} /\ Len(group) + 1 \notin DOMAIN group
        /\ \A j \in DOMAIN group : new[j] = group[j]
    BY <1>1, <2>2, ContentOfGroup
  <2>5. \A j \in DOMAIN group : group[j].label # content.label
    BY <2>3 DEF Said
  <2>6. OneEach(new)
    BY <1>1, <2>2, <2>4, <2>5, ContentOfGroup
  <2>7. \A label : Said(new, label) = IF label = content.label THEN {content.value} ELSE Said(group, label)
    BY <2>2, <2>4, <2>5 DEF Said
  <2> QED BY <1>1, <2>6, <2>7 DEF new
<1>3. CASE i # 0
  <2>1. new = [group EXCEPT ![i] = row]
    BY <1>3 DEF InsertOrReplace
  <2>2. i \in DOMAIN group /\ group[i].label = content.label
    BY <1>3, IndexOfExact
  <2>3. row.label = content.label /\ row.value = content.value
    BY <2>2, ContentOfGroup DEF ContentRow
  <2> HIDE DEF new, i, row
  <2>4. /\ DOMAIN new = DOMAIN group
        /\ \A j \in DOMAIN group : new[j] = IF j = i THEN row ELSE group[j]
    BY <2>1
  <2>5. \A j \in DOMAIN group : new[j].label = group[j].label
    BY <2>2, <2>3, <2>4
  <2>6. OneEach(new)
    BY <1>1, <2>4, <2>5, ContentOfGroup
  <2>7. Said(new, content.label) = {content.value}
    BY <1>1, <2>2, <2>3, <2>4, <2>6, SaidOnce
  <2>8. \A label : label # content.label => Said(new, label) = Said(group, label)
    BY <2>2, <2>4, <2>5 DEF Said
  <2> QED BY <1>1, <2>6, <2>7, <2>8 DEF new
<1> QED BY <1>2, <1>3

(* Removing the content of a label. *)
LEMMA RemoveSaid ==
  ASSUME NEW group \in ContentGroup, OneEach(group), NEW gone, IndexOf(group, gone) # 0
  PROVE  LET new == RemoveAt(group, IndexOf(group, gone)) IN
         /\ new \in ContentGroup /\ OneEach(new)
         /\ \A label : Said(new, label) = IF label = gone THEN {} ELSE Said(group, label)
<1> DEFINE i == IndexOf(group, gone)
           new == RemoveAt(group, i)
           Old(k) == IF k < i THEN k ELSE k + 1
<1>1. /\ Len(group) \in Nat /\ DOMAIN group = 1..Len(group)
      /\ \A k, j \in DOMAIN group : group[k].label = group[j].label => k = j
  BY ContentOfGroup
<1>2. i \in 1..Len(group) /\ group[i].label = gone
  BY <1>1, IndexOfExact
<1> HIDE DEF i
<1>3. /\ new \in ContentGroup /\ Len(new) = Len(group) - 1
      /\ \A k \in 1..(Len(group) - 1) : new[k] = IF k < i THEN group[k] ELSE group[k + 1]
  BY <1>2, RemoveAtElements DEF ContentGroup
<1> HIDE DEF new
<1>4. DOMAIN new = 1..(Len(group) - 1)
  BY <1>1, <1>3, ContentOfGroup
<1>5. \A k \in DOMAIN new : Old(k) \in DOMAIN group \ {i} /\ new[k] = group[Old(k)]
  BY <1>1, <1>2, <1>3, <1>4
<1>6. \A k, j \in DOMAIN new : Old(k) = Old(j) => k = j
  BY <1>1, <1>2, <1>4
<1>7. \A j \in DOMAIN group \ {i} : \E k \in DOMAIN new : j = Old(k)
  <2> SUFFICES ASSUME NEW j \in DOMAIN group \ {i} PROVE \E k \in DOMAIN new : j = Old(k)
    OBVIOUS
  <2>1. CASE j < i
    BY <1>1, <1>2, <1>4, <2>1
  <2>2. CASE i < j
    <3>1. j - 1 \in DOMAIN new /\ j = Old(j - 1)
      BY <1>1, <1>2, <1>4, <2>2
    <3> QED BY <3>1
  <2> QED BY <1>1, <1>2, <2>1, <2>2
<1> HIDE DEF Old
<1>8. OneEach(new)
  BY <1>1, <1>3, <1>5, <1>6, ContentOfGroup
<1>9. ASSUME NEW label PROVE Said(new, label) = IF label = gone THEN {} ELSE Said(group, label)
  <2>1. Said(new, label) = {group[j].value : j \in {m \in DOMAIN group \ {i} : group[m].label = label}}
    BY <1>5, <1>7 DEF Said
  <2>2. label = gone => \A m \in DOMAIN group \ {i} : group[m].label # label
    BY <1>1, <1>2
  <2>3. label # gone => {m \in DOMAIN group \ {i} : group[m].label = label}
                          = {m \in DOMAIN group : group[m].label = label}
    BY <1>2
  <2> QED BY <2>1, <2>2, <2>3 DEF Said
<1> QED BY <1>3, <1>8, <1>9 DEF new, i

----------------------------------------------------------------------------
(* One group merged into another. *)

LEMMA InsertAtPlaceTyped ==
  ASSUME NEW groups \in ContentGroups, NEW place, NEW content \in ContentRow
  PROVE  InsertAtPlace(groups, place, content) \subseteq ContentGroups
<1> SUFFICES ASSUME NEW changed \in InsertAtPlace(groups, place, content)
             PROVE  changed \in ContentGroups
  OBVIOUS
<1>1. PICK i \in DOMAIN groups : changed = [groups EXCEPT ![i] = InsertOrReplace(groups[i], content)]
  BY DEF InsertAtPlace
<1>2. i \in 1..Len(groups) /\ InsertOrReplace(groups[i], content) \in ContentGroup
  BY GroupOfGroups, InsertTyped
<1> QED BY <1>1, <1>2, ExceptSeq DEF ContentGroups

LEMMA MergedContentTyped ==
  ASSUME NEW groups \in ContentGroups, NEW place, NEW content \in ContentRow
  PROVE  MergedContent(groups, place, content) \subseteq ContentGroups
BY InsertAtPlaceTyped, RemoveAtPlaceTyped DEF MergedContent

\* What one content of a delta makes of a label: no value takes away what is there.
Takes(group, content) == content.value = Nothing /\ Said(group, content.label) = {}

LEMMA MergedContentEffect ==
  ASSUME NEW groups \in ContentGroups, NEW place \in DOMAIN groups, OneEach(groups[place]),
         NEW content \in ContentRow
  PROVE  /\ Takes(groups[place], content) => MergedContent(groups, place, content) = {}
         /\ ~Takes(groups[place], content) =>
              \E new \in ContentGroup :
                /\ MergedContent(groups, place, content) = {[groups EXCEPT ![place] = new]}
                /\ OneEach(new)
                /\ \A label : Said(new, label) = IF label = content.label THEN {content.value} \ {Nothing}
                                                 ELSE Said(groups[place], label)
<1> DEFINE group == groups[place]
           i == IndexOf(group, content.label)
<1>1. group \in ContentGroup /\ content.label \in STRING
  BY GroupOfGroups DEF ContentRow
<1>2. i = 0 <=> Said(group, content.label) = {}
  BY <1>1, IndexOfExact
<1>3. CASE content.value = Nothing /\ i = 0
  <2>1. MergedContent(groups, place, content) = {}
    BY <1>3 DEF MergedContent, RemoveAtPlace
  <2> QED BY <1>2, <1>3, <2>1 DEF Takes
<1>4. CASE content.value = Nothing /\ i # 0
  <2> DEFINE new == RemoveAt(group, i)
  <2>1. MergedContent(groups, place, content) = {[groups EXCEPT ![place] = new]}
    BY <1>4 DEF MergedContent, RemoveAtPlace
  <2>2. /\ new \in ContentGroup /\ OneEach(new)
        /\ \A label : Said(new, label) = IF label = content.label THEN {} ELSE Said(group, label)
    BY <1>1, <1>4, RemoveSaid
  <2>3. ~Takes(group, content)
    BY <1>2, <1>4 DEF Takes
  <2> HIDE DEF new
  <2>4. \A label : Said(new, label) = IF label = content.label THEN {content.value} \ {Nothing}
                                      ELSE Said(group, label)
    BY <1>4, <2>2
  <2> QED BY <2>1, <2>2, <2>3, <2>4
<1>5. CASE content.value # Nothing
  <2> DEFINE new == InsertOrReplace(group, content)
  <2>1. MergedContent(groups, place, content) = {[groups EXCEPT ![place] = new]}
    BY <1>5 DEF MergedContent, InsertAtPlace
  <2>2. /\ new \in ContentGroup /\ OneEach(new)
        /\ \A label : Said(new, label) = IF label = content.label THEN {content.value} ELSE Said(group, label)
    BY <1>1, InsertSaid
  <2>3. ~Takes(group, content)
    BY <1>5 DEF Takes
  <2> HIDE DEF new
  <2>4. \A label : Said(new, label) = IF label = content.label THEN {content.value} \ {Nothing}
                                      ELSE Said(group, label)
    BY <1>5, <2>2
  <2> QED BY <2>1, <2>2, <2>3, <2>4
<1> QED BY <1>3, <1>4, <1>5

\* One content merged into every outcome there may be, at most one.
MergedAll(outcomes, place, content) == UNION {MergedContent(gs, place, content) : gs \in outcomes}

LEMMA MergedAllOne ==
  ASSUME NEW place, NEW content
  PROVE  /\ MergedAll({}, place, content) = {}
         /\ \A groups : MergedAll({groups}, place, content) = MergedContent(groups, place, content)
BY DEF MergedAll

IsMerging(f, n, groups, place, delta) ==
  f = [s \in SUBSET (1..n) |->
         IF s = {} THEN {groups}
         ELSE MergedAll(f[s \ {Max(s)}], place, delta[Max(s)])]

\* Groups into which the contents of a delta's group are merged one by one.
MergingRun(h, groups, place, delta) ==
  /\ h[0] = {groups}
  /\ \A i \in 1..Len(delta) : h[i] = MergedAll(h[i - 1], place, delta[i])
  /\ Merged(groups, place, delta) = h[Len(delta)]

(* The contents of a delta's group are merged one after the other. *)
LEMMA MergedRun ==
  ASSUME NEW groups \in ContentGroups, NEW place, NEW delta \in ContentGroup
  PROVE  \E h : MergingRun(h, groups, place, delta)
<1> DEFINE Sets == SUBSET ContentGroups
           F == [p \in Sets \X ContentRow |-> MergedAll(p[1], place, p[2])]
           n == Len(delta)
           f == CHOOSE g : IsMerging(g, n, groups, place, delta)
           h == [i \in 0..n |-> f[1..i]]
<1>1. \A some \in Sets, content \in ContentRow : MergedAll(some, place, content) \in Sets
  BY MergedContentTyped DEF MergedAll
<1>2. n \in Nat /\ DOMAIN delta = 1..n /\ delta \in [1..n -> ContentRow]
  BY LenProperties DEF ContentGroup
<1> HIDE DEF n
<1>3. Merged(groups, place, delta) = f[1..n]
  BY <1>2 DEF Merged, FoldLeft, MapThenFoldSet, IsMerging, MergedAll
<1>4. {groups} \in Sets
  OBVIOUS
<1> HIDE DEF Sets, f
<1>5. F \in [Sets \X ContentRow -> Sets]
  BY <1>1
<1>6. \A some \in Sets, content \in ContentRow : F[<<some, content>>] = MergedAll(some, place, content)
  OBVIOUS
<1> HIDE DEF F
<1>7. PICK g : Unfolds(g, Sets, ContentRow, {groups}, F, n, delta)
  BY <1>2, <1>4, <1>5, FoldUnfolds
<1>8. IsMerging(g, n, groups, place, delta)
  BY <1>6, <1>7 DEF Unfolds, IsMerging
<1>9. IsMerging(f, n, groups, place, delta)
  BY <1>8 DEF f
<1>10. f[{}] = {groups} /\ 1..0 = {}
  BY <1>9 DEF IsMerging
<1>11. ASSUME NEW i \in 1..n PROVE f[1..i] = MergedAll(f[1..(i - 1)], place, delta[i])
  <2>1. /\ 1..i \in SUBSET (1..n) /\ 1..i # {}
        /\ Max(1..i) = i /\ (1..i) \ {Max(1..i)} = 1..(i - 1)
    BY <1>2, PrefixOfFold
  <2> QED BY <1>9, <2>1 DEF IsMerging
<1>12. /\ h[0] = {groups} /\ h[n] = f[1..n]
       /\ \A i \in 1..n : h[i] = f[1..i] /\ h[i - 1] = f[1..(i - 1)]
  BY <1>2, <1>10
<1> HIDE DEF h
<1>13. MergingRun(h, groups, place, delta)
  BY <1>3, <1>11, <1>12 DEF n, MergingRun
<1> QED BY <1>13

(***************************************************************************)
(* A group merged into another: unless it takes away what is not there,    *)
(* each of its labels says afterwards what it says, and the others what    *)
(* they said.                                                              *)
(***************************************************************************)
LEMMA MergedEffect ==
  ASSUME NEW groups \in ContentGroups, NEW place \in DOMAIN groups, OneEach(groups[place]),
         NEW delta \in ContentGroup, OneEach(delta)
  PROVE  /\ (\E i \in DOMAIN delta : Takes(groups[place], delta[i])) => Merged(groups, place, delta) = {}
         /\ (\A i \in DOMAIN delta : ~Takes(groups[place], delta[i])) =>
              \E new \in ContentGroup :
                /\ Merged(groups, place, delta) = {[groups EXCEPT ![place] = new]}
                /\ OneEach(new)
                /\ \A label : Said(new, label) = IF Said(delta, label) # {} THEN Said(delta, label) \ {Nothing}
                                                 ELSE Said(groups[place], label)
<1> DEFINE old == groups[place]
           n == Len(delta)
           Fails(i) == \E j \in 1..i : Takes(old, delta[j])
           Changed(new, i) ==
             /\ new \in ContentGroup /\ OneEach(new)
             /\ \A j \in 1..i : Said(new, delta[j].label) = {delta[j].value} \ {Nothing}
             /\ \A label : (\A j \in 1..i : delta[j].label # label) => Said(new, label) = Said(old, label)
<1>1. /\ n \in Nat /\ DOMAIN delta = 1..n /\ \A i \in 1..n : delta[i] \in ContentRow
      /\ \A i, j \in 1..n : delta[i].label = delta[j].label => i = j
  BY ContentOfGroup
<1>2. PICK h : MergingRun(h, groups, place, delta)
  BY MergedRun
<1>3. /\ h[0] = {groups} /\ Merged(groups, place, delta) = h[n]
      /\ \A i \in 1..n : h[i] = MergedAll(h[i - 1], place, delta[i])
  BY <1>2 DEF MergingRun
<1> DEFINE Reached(i) == /\ Fails(i) => h[i] = {}
                         /\ ~Fails(i) => \E new : Changed(new, i) /\ h[i] = {[groups EXCEPT ![place] = new]}
           good == {i \in 0..n : Reached(i)}
<1> HIDE DEF n
<1>4. Reached(0)
  <2>1. old \in ContentGroup /\ groups = [groups EXCEPT ![place] = old]
    BY GroupOfGroups, LenProperties DEF ContentGroups
  <2>2. ~Fails(0) /\ Changed(old, 0)
    BY <2>1
  <2> HIDE DEF old, Fails, Changed
  <2> QED BY <1>3, <2>1, <2>2
<1>5. ASSUME NEW i \in 1..n, Reached(i - 1) PROVE Reached(i)
  <2>1. i \in Nat /\ i - 1 \in Nat /\ (\A j : j \in 1..i <=> j \in 1..(i - 1) \/ j = i)
    BY <1>1
  <2>2. CASE Fails(i - 1)
    <3>1. h[i - 1] = {} /\ Fails(i)
      BY <1>5, <2>1, <2>2
    <3> QED BY <1>3, <3>1, MergedAllOne
  <2>3. CASE ~Fails(i - 1)
    <3>1. PICK mid : Changed(mid, i - 1) /\ h[i - 1] = {[groups EXCEPT ![place] = mid]}
      BY <1>5, <2>3
    <3> DEFINE gs == [groups EXCEPT ![place] = mid]
    <3>2. /\ gs \in ContentGroups /\ place \in DOMAIN gs /\ gs[place] = mid
          /\ \A new : [gs EXCEPT ![place] = new] = [groups EXCEPT ![place] = new]
      <4>1. place \in 1..Len(groups)
        BY GroupOfGroups
      <4> QED BY <3>1, <4>1, ExceptSeq DEF ContentGroups
    <3>3. h[i] = MergedContent(gs, place, delta[i])
      <4>1. h[i] = MergedAll(h[i - 1], place, delta[i]) /\ h[i - 1] = {gs}
        BY <1>3, <3>1
      <4> HIDE DEF gs, Changed, Fails, old
      <4>2. MergedAll({gs}, place, delta[i]) = MergedContent(gs, place, delta[i])
        BY MergedAllOne
      <4> QED BY <4>1, <4>2
    <3>4. \A j \in 1..(i - 1) : delta[j].label # delta[i].label
      BY <1>1
    <3>5. Said(mid, delta[i].label) = Said(old, delta[i].label)
      BY <3>1, <3>4
    <3>6. Takes(mid, delta[i]) <=> Takes(old, delta[i])
      BY <3>5 DEF Takes
    <3>7. Fails(i) <=> Takes(old, delta[i])
      BY <2>1, <2>3
    <3> HIDE DEF gs, Fails
    <3>8. CASE Takes(old, delta[i])
      <4>1. h[i] = {}
        BY <1>1, <3>1, <3>2, <3>3, <3>6, <3>8, MergedContentEffect
      <4> QED BY <3>7, <3>8, <4>1
    <3>9. CASE ~Takes(old, delta[i])
      <4>1. PICK new \in ContentGroup :
              /\ MergedContent(gs, place, delta[i]) = {[gs EXCEPT ![place] = new]}
              /\ OneEach(new)
              /\ \A label : Said(new, label) = IF label = delta[i].label THEN {delta[i].value} \ {Nothing}
                                               ELSE Said(mid, label)
        <5>1. OneEach(gs[place]) /\ delta[i] \in ContentRow /\ ~Takes(gs[place], delta[i])
          BY <1>1, <3>1, <3>2, <3>6, <3>9
        <5>2. \E new \in ContentGroup :
                /\ MergedContent(gs, place, delta[i]) = {[gs EXCEPT ![place] = new]}
                /\ OneEach(new)
                /\ \A label : Said(new, label) = IF label = delta[i].label THEN {delta[i].value} \ {Nothing}
                                                 ELSE Said(gs[place], label)
          BY <3>2, <5>1, MergedContentEffect
        <5> QED BY <3>2, <5>2
      <4>2. \A j \in 1..i : Said(new, delta[j].label) = {delta[j].value} \ {Nothing}
        BY <2>1, <3>1, <3>4, <4>1
      <4>3. \A label : (\A j \in 1..i : delta[j].label # label) => Said(new, label) = Said(old, label)
        BY <2>1, <3>1, <4>1
      <4>4. Changed(new, i)
        BY <4>1, <4>2, <4>3
      <4>5. h[i] = {[groups EXCEPT ![place] = new]}
        BY <3>2, <3>3, <4>1
      <4> HIDE DEF Changed
      <4> QED BY <3>7, <3>9, <4>4, <4>5
    <3> QED BY <3>8, <3>9
  <2> QED BY <2>2, <2>3
<1> HIDE DEF Reached
<1>6. n \in good
  <2>1. 0 \in good /\ \A i \in 1..n : i - 1 \in good => i \in good
    BY <1>1, <1>4, <1>5
  <2>2. \A i \in 0..n : i \in good
    BY <1>1, <2>1, ReachedAll
  <2> QED BY <1>1, <2>2
<1>7. Reached(n)
  BY <1>6
<1>8. ASSUME NEW new, Changed(new, n), NEW label
      PROVE  Said(new, label) = IF Said(delta, label) # {} THEN Said(delta, label) \ {Nothing} ELSE Said(old, label)
  <2>1. CASE \E j \in 1..n : delta[j].label = label
    <3>1. PICK j \in 1..n : delta[j].label = label
      BY <2>1
    <3>2. Said(delta, label) = {delta[j].value}
      BY <1>1, <3>1, SaidOnce
    <3> QED BY <1>8, <3>1, <3>2
  <2>2. CASE \A j \in 1..n : delta[j].label # label
    <3>1. Said(delta, label) = {}
      BY <1>1, <2>2 DEF Said
    <3> QED BY <1>8, <2>2, <3>1
  <2> QED BY <2>1, <2>2
<1>9. CASE Fails(n)
  BY <1>1, <1>3, <1>7, <1>9 DEF Reached
<1>10. CASE ~Fails(n)
  <2>1. PICK new : Changed(new, n) /\ h[n] = {[groups EXCEPT ![place] = new]}
    BY <1>7, <1>10 DEF Reached
  <2> QED BY <1>1, <1>3, <1>8, <1>10, <2>1
<1> QED BY <1>9, <1>10
=============================================================================
