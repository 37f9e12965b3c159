-------------------------- MODULE GraphClientProofs -------------------------
(***************************************************************************)
(* A contract on the document graph: proofs for any documents and deltas,  *)
(* any number of them, and any keys the library may derive for edges,      *)
(* however often they are the same for different edges.                    *)
(*                                                                         *)
(* First the edges and documents as a graph, then what merging does: to    *)
(* what a name says and to the groups without one, group by group of the   *)
(* delta, and last to the meaning of the document as a whole.              *)
(***************************************************************************)
EXTENDS GraphClient, DocumentGraphProofs

(***************************************************************************)
(* NothingDangles says that a hash has one document, but a number of that  *)
(* document too is needed to know that the next one's is new.  That an     *)
(* edge is an Edge lets its ends be replaced.                              *)
(***************************************************************************)
GraphInv ==
  /\ DocumentsTabled(documents, MaxDocId)
  /\ EdgesTabled(edges)
  /\ EndsIn(edges, Nodes)

LEMMA NodesAreStored == Nodes = StoredIn(documents) /\ Nodes' = StoredIn(documents')
BY DEF Nodes, StoredIn

LEMMA GraphSound == GraphInv => NothingDangles
<1> SUFFICES ASSUME GraphInv PROVE NothingDangles
  OBVIOUS
<1>1. ASSUME NEW node \in Nodes PROVE Cardinality(IdsOf(node)) = 1
  <2>1. Exists(node)
    BY NodesAreStored, ExistsIsStored
  <2>2. IdsOf(node) = {IdOf(node)}
    BY <2>1, IdOfStored DEF GraphInv
  <2> QED BY <2>2, FS_Singleton
<1> QED BY <1>1 DEF GraphInv, NothingDangles, EdgesTabled, EndsIn

----------------------------------------------------------------------------
(* What the actions do.                                                    *)

\* A document is stored, or not, and an edge to it written, or not.
Adds(groups, from, name) ==
  LET e == Edge(from, Hash(groups), name) IN
  /\ \/ UNCHANGED documents /\ Hash(groups) \in Nodes
     \/ MayEmplace(groups) /\ documents' = Emplaced(groups)
  /\ \/ UNCHANGED edges
     \/ from \in Nodes /\ MayWrite(edges, e) /\ edges' = edges \cup {e}

Links(from, to, name) ==
  /\ from \in Nodes /\ to \in Nodes
  /\ MayWrite(edges, Edge(from, to, name))
  /\ edges' = edges \cup {Edge(from, to, name)}
  /\ UNCHANGED documents

LEMMA Attaches ==
  ASSUME NEW node \in Nodes, NEW groups, NEW name, Attach(node, groups, name)
  PROVE  Adds(groups, node, name)
BY NodesAreStored, ExistsIsStored DEF Attach, Adds, WithDocument, WithEdge

(* Every transaction is one of these. *)
LEMMA StepOfGraph ==
  ASSUME ClientNext
  PROVE  \/ \E groups, from, name : Adds(groups, from, name)
         \/ \E from, to, name : Links(from, to, name)
         \/ edges' \subseteq edges /\ UNCHANGED documents
         \/ \E node \in Nodes : \E groups : UpdateDocument(node, groups)
         \/ \E node \in Nodes : EraseDocument(node, TRUE)
         \/ \E node \in Nodes : ~HasEdges(node) /\ EraseDocument(node, FALSE)
<1> DEFINE Goal ==
      \/ \E groups, from, name : Adds(groups, from, name)
      \/ \E from, to, name : Links(from, to, name)
      \/ edges' \subseteq edges /\ UNCHANGED documents
      \/ \E node \in Nodes : \E groups : UpdateDocument(node, groups)
      \/ \E node \in Nodes : EraseDocument(node, TRUE)
      \/ \E node \in Nodes : ~HasEdges(node) /\ EraseDocument(node, FALSE)
<1>1. ASSUME NEW groups, Create(groups) PROVE Goal
  <2>1. \A from, name : Adds(groups, from, name)
    BY <1>1 DEF Create, Adds
  <2> QED BY <2>1
<1>2. ASSUME NEW node \in Nodes, NEW groups, NEW name, Attach(node, groups, name) PROVE Goal
  BY <1>2, Attaches
<1>3. ASSUME NEW node \in Nodes, NEW to \in Nodes, NEW name, Link(node, to, name) PROVE Goal
  BY <1>3 DEF Link, Links
<1>4. ASSUME NEW node, NEW to, NEW name, Unlink(node, to, name) PROVE Goal
  BY <1>4 DEF Unlink, EraseEdge
<1>5. ASSUME NEW node \in Nodes, NEW groups, Edit(node, groups) PROVE Goal
  BY <1>5 DEF Edit
<1>6. ASSUME NEW node, Isolate(node) PROVE Goal
  BY <1>6 DEF Isolate, RemoveEdges
<1>7. ASSUME NEW node \in Nodes, Discard(node) \/ DiscardIfLoose(node) PROVE Goal
  BY <1>7 DEF Discard, DiscardIfLoose
<1> HIDE DEF Goal
<1>8. ASSUME NEW node \in Nodes,
             \/ \E deltas : MergeInto(node, deltas)
             \/ \E label : Cut(node, label)
             \/ \E label, content : \/ Annotate(node, label, content)
                                  \/ Strip(node, label, content.label)
                                  \/ StripEqual(node, label, content)
      PROVE  Goal
  BY <1>5, <1>8 DEF MergeInto, Cut, Annotate, Strip, StripEqual
<1>9. Goal
  BY <1>1, <1>2, <1>3, <1>4, <1>5, <1>6, <1>7, <1>8 DEF ClientNext
<1> QED BY <1>9 DEF Goal

(* A document is stored for good measure before it is linked. *)
LEMMA AddsEffect ==
  ASSUME GraphInv, NEW groups, NEW from, NEW name, Adds(groups, from, name)
  PROVE  /\ GraphInv'
         /\ Nodes' = Nodes \cup {Hash(groups)}
         /\ \/ UNCHANGED edges
            \/ /\ Edge(from, Hash(groups), name) \notin edges /\ from \in Nodes
               /\ edges' = edges \cup {Edge(from, Hash(groups), name)}
<1> DEFINE new == Hash(groups)
           e == Edge(from, new, name)
<1>1. /\ Nodes' = Nodes \cup {new}
      /\ DocumentsTabled(documents', MaxDocId)
  <2>1. CASE UNCHANGED documents /\ new \in Nodes
    BY <2>1 DEF GraphInv, Nodes
  <2>2. CASE MayEmplace(groups) /\ documents' = Emplaced(groups)
    <3>1. /\ StoredIn(Emplaced(groups)) = StoredIn(documents) \cup {Hash(groups)}
          /\ DocumentsTabled(Emplaced(groups), MaxDocId)
      BY <2>2, EmplacedEffect, GraphAssumption DEF GraphInv
    <3> QED BY <2>2, <3>1, NodesAreStored
  <2> QED BY <2>1, <2>2 DEF Adds
<1>2. CASE UNCHANGED edges
  BY <1>1, <1>2 DEF GraphInv, EdgesTabled, EndsIn, EdgeId
<1>3. CASE from \in Nodes /\ MayWrite(edges, e) /\ edges' = edges \cup {e}
  <2>1. e \notin edges /\ EdgesTabled(edges \cup {e})
    BY <1>3, WriteEffect DEF GraphInv
  <2>2. EdgesTabled(edges)'
    BY <1>3, <2>1 DEF EdgesTabled, EdgeId
  <2>3. e.from_node = from /\ e.to_node = new
    BY DEF Edge
  <2> HIDE DEF e, new
  <2>4. EndsIn(edges', Nodes')
    BY <1>1, <1>3, <2>3 DEF GraphInv, EndsIn
  <2> QED BY <1>1, <1>3, <2>1, <2>2, <2>4 DEF GraphInv, e, new
<1> QED BY <1>2, <1>3 DEF Adds

LEMMA LinksEffect ==
  ASSUME GraphInv, NEW from, NEW to, NEW name, Links(from, to, name)
  PROVE  /\ GraphInv' /\ Nodes' = Nodes
         /\ from \in Nodes /\ to \in Nodes
         /\ Edge(from, to, name) \notin edges
         /\ edges' = edges \cup {Edge(from, to, name)}
<1> DEFINE e == Edge(from, to, name)
<1>1. /\ from \in Nodes /\ to \in Nodes
      /\ MayWrite(edges, e) /\ edges' = edges \cup {e} /\ UNCHANGED documents
  BY DEF Links
<1>2. Nodes' = Nodes
  BY <1>1 DEF Nodes
<1>3. e \notin edges /\ EdgesTabled(edges \cup {e})
  BY <1>1, WriteEffect DEF GraphInv
<1>4. e.from_node = from /\ e.to_node = to
  BY DEF Edge
<1> HIDE DEF e
<1>5. EndsIn(edges', Nodes')
  BY <1>1, <1>2, <1>4 DEF GraphInv, EndsIn
<1>6. EdgesTabled(edges')
  BY <1>1, <1>3
<1> QED BY <1>1, <1>2, <1>3, <1>5, <1>6 DEF GraphInv, e

LEMMA DropsEffect ==
  ASSUME GraphInv, edges' \subseteq edges, UNCHANGED documents
  PROVE  GraphInv' /\ Nodes' = Nodes
<1>1. Nodes' = Nodes
  BY DEF Nodes
<1>2. EdgesTabled(edges')
  BY FewerEdges DEF GraphInv
<1> QED BY <1>1, <1>2 DEF GraphInv, EndsIn

LEMMA UpdatesEffect ==
  ASSUME GraphInv, NEW node, NEW groups, UpdateDocument(node, groups)
  PROVE  /\ GraphInv'
         /\ node \in Nodes /\ Hash(groups) \notin Nodes
         /\ Nodes' = (Nodes \ {node}) \cup {Hash(groups)}
         /\ edges' = {Moved(e, node, Hash(groups)) : e \in edges}
<1> DEFINE new == Hash(groups)
<1>1. /\ node \in Nodes /\ new \notin Nodes
      /\ Nodes' = (Nodes \ {node}) \cup {new}
      /\ DocumentsTabled(documents', MaxDocId)
      /\ edges' = {Moved(e, node, new) : e \in edges}
      /\ EdgesTabled(edges')
  <2>1. MaxDocId \in Nat /\ MaxDocId <= MaxDocId
    BY GraphAssumption
  <2>2. DocumentsTabled(documents, MaxDocId) /\ EdgesTabled(edges)
    BY DEF GraphInv
  <2>3. Exchanged(MaxDocId, node, new)
    BY <2>1, <2>2, UpdateEffect
  <2> QED BY <2>3, NodesAreStored DEF Exchanged
<1> HIDE DEF new
<1>2. \A e : /\ Moved(e, node, new).from_node = IF e.from_node = node THEN new ELSE e.from_node
             /\ Moved(e, node, new).to_node = IF e.to_node = node THEN new ELSE e.to_node
  BY DEF Moved, Edge
<1>3. EndsIn(edges', Nodes')
  BY <1>1, <1>2 DEF GraphInv, EndsIn
<1> QED BY <1>1, <1>3 DEF GraphInv, new

LEMMA ErasesEffect ==
  ASSUME GraphInv, NEW node,
         EraseDocument(node, TRUE) \/ (~HasEdges(node) /\ EraseDocument(node, FALSE))
  PROVE  /\ GraphInv'
         /\ Nodes' = Nodes \ {node}
         /\ edges' = {e \in edges : e.from_node # node /\ e.to_node # node}
<1>1. ASSUME NEW include_edges \in BOOLEAN, EraseDocument(node, include_edges)
      PROVE  /\ Nodes' = Nodes \ {node}
             /\ DocumentsTabled(documents', MaxDocId)
             /\ EdgesTabled(edges')
             /\ edges' = IF include_edges
                         THEN {e \in edges : e.from_node # node /\ e.to_node # node} ELSE edges
  BY <1>1, EraseDocumentEffect, GraphAssumption, NodesAreStored DEF GraphInv
<1>2. ~HasEdges(node) => edges = {e \in edges : e.from_node # node /\ e.to_node # node}
  BY DEF HasEdges, Leaving, Reaching
<1>3. edges' = {e \in edges : e.from_node # node /\ e.to_node # node}
  BY <1>1, <1>2
<1>4. EndsIn(edges', Nodes')
  BY <1>1, <1>3 DEF GraphInv, EndsIn
<1> QED BY <1>1, <1>3, <1>4 DEF GraphInv

----------------------------------------------------------------------------

LEMMA GraphInvInit == ClientInit => GraphInv
BY DEF ClientInit, NoRows, GraphInv, DocumentsTabled, EdgesTabled, EndsIn

LEMMA GraphInvStep == GraphInv /\ [ClientNext]_graphVars => GraphInv'
<1> SUFFICES ASSUME GraphInv, [ClientNext]_graphVars PROVE GraphInv'
  OBVIOUS
<1>1. CASE ClientNext
  BY <1>1, StepOfGraph, AddsEffect, LinksEffect, DropsEffect, UpdatesEffect, ErasesEffect
<1>2. CASE UNCHANGED graphVars
  BY <1>2, DropsEffect DEF graphVars
<1> QED BY <1>1, <1>2

LEMMA GraphInvariant == ClientSpec => []GraphInv
<1> QED BY GraphInvInit, GraphInvStep, PTL DEF ClientSpec

(***************************************************************************)
(* Whatever is stored, linked, edited, merged and erased, no hash has two  *)
(* documents, no key two edges, and no edge an end without a document.     *)
(***************************************************************************)
THEOREM GraphNothingDangles == ClientSpec => []NothingDangles
<1> QED BY GraphInvariant, GraphSound, PTL
----------------------------------------------------------------------------
(* The documents and edges are a graph. *)

LEMMA BothEnds ==
  ASSUME NEW l, l = Edge(l.from_node, l.to_node, l.edge_name), NEW x, NEW y
  PROVE  [l EXCEPT !.from_node = x, !.to_node = y] = Edge(x, y, l.edge_name)
<1> DEFINE half == [l EXCEPT !.from_node = x]
<1>1. half = Edge(x, l.to_node, l.edge_name)
  BY DEF Edge
<1>2. [l EXCEPT !.from_node = x, !.to_node = y] = [half EXCEPT !.to_node = y]
  OBVIOUS
<1> HIDE DEF half
<1>3. [half EXCEPT !.to_node = y] = Edge(x, y, l.edge_name)
  BY <1>1 DEF Edge
<1> QED BY <1>2, <1>3

(* An edit is an exchange of nodes: every link moves both its ends at once. *)
LEMMA UpdateIsExchange ==
  ASSUME GraphInv, NEW node, NEW groups, UpdateDocument(node, groups)
  PROVE  TheGraph!Next
<1> DEFINE new == Hash(groups)
           Place(n) == IF n = node THEN new ELSE n
           Replaced(l) == [l EXCEPT !.from_node = Place(@), !.to_node = Place(@)]
<1>1. /\ node \in Nodes /\ new \notin Nodes
      /\ Nodes' = (Nodes \ {node}) \cup {new}
      /\ edges' = {Moved(e, node, new) : e \in edges}
  BY UpdatesEffect
<1>2. ASSUME NEW l \in edges PROVE Replaced(l) = Moved(l, node, new)
  <2> DEFINE x == Place(l.from_node)
             y == Place(l.to_node)
  <2>1. l = Edge(l.from_node, l.to_node, l.edge_name)
    BY <1>2 DEF GraphInv, EdgesTabled
  <2>2. Replaced(l) = [l EXCEPT !.from_node = x, !.to_node = y]
    OBVIOUS
  <2>3. Moved(l, node, new) = Edge(x, y, l.edge_name)
    BY DEF Moved
  <2> HIDE DEF x, y, Replaced
  <2> QED BY <2>1, <2>2, <2>3, BothEnds
<1>3. edges' = {Replaced(l) : l \in edges}
  <2> HIDE DEF Replaced, new
  <2> QED BY <1>1, <1>2
<1>4. TheGraph!Exchange(node, new)
  BY <1>1, <1>3 DEF TheGraph!Exchange
<1> HIDE DEF new
<1>5. new \in Nodes'
  BY <1>1
<1> QED BY <1>1, <1>4, <1>5 DEF TheGraph!Next

LEMMA AddIsStep ==
  ASSUME GraphInv, NEW groups, NEW from, NEW name, Adds(groups, from, name)
  PROVE  TheGraph!Next \/ UNCHANGED <<Nodes, edges>>
<1> DEFINE new == Hash(groups)
           e == Edge(from, new, name)
<1>1. /\ Nodes' = Nodes \cup {new}
      /\ UNCHANGED edges \/ (e \notin edges /\ from \in Nodes /\ edges' = edges \cup {e})
  BY AddsEffect
<1>2. e.from_node = from /\ e.to_node = new
  BY DEF Edge
<1> HIDE DEF e, new
<1>3. CASE UNCHANGED edges /\ new \in Nodes
  BY <1>1, <1>3
<1>4. CASE UNCHANGED edges /\ new \notin Nodes
  <2>1. TheGraph!AddNode
    BY <1>1, <1>4 DEF TheGraph!AddNode
  <2> QED BY <1>4, <2>1 DEF TheGraph!Next
<1>5. CASE e \notin edges /\ from \in Nodes /\ edges' = edges \cup {e}
  <2>1. TheGraph!AddLink
    BY <1>1, <1>2, <1>5 DEF TheGraph!AddLink
  <2> QED BY <2>1 DEF TheGraph!Next
<1> QED BY <1>1, <1>3, <1>4, <1>5

LEMMA LinkIsStep ==
  ASSUME GraphInv, NEW from, NEW to, NEW name, Links(from, to, name)
  PROVE  TheGraph!Next
<1> DEFINE e == Edge(from, to, name)
<1>1. /\ Nodes' = Nodes /\ from \in Nodes /\ to \in Nodes
      /\ e \notin edges /\ edges' = edges \cup {e}
  BY LinksEffect
<1>2. e.from_node = from /\ e.to_node = to
  BY DEF Edge
<1> HIDE DEF e
<1>3. TheGraph!AddLink
  BY <1>1, <1>2 DEF TheGraph!AddLink
<1> QED BY <1>3 DEF TheGraph!Next

LEMMA EraseIsDrop ==
  ASSUME GraphInv, NEW node \in Nodes,
         EraseDocument(node, TRUE) \/ (~HasEdges(node) /\ EraseDocument(node, FALSE))
  PROVE  TheGraph!Next
<1>1. /\ Nodes' = Nodes \ {node}
      /\ edges' = {e \in edges : e.from_node # node /\ e.to_node # node}
  BY ErasesEffect
<1>2. TheGraph!DropNode(node)
  BY <1>1 DEF TheGraph!DropNode, TheGraph!Touching
<1> QED BY <1>2 DEF TheGraph!Next

LEMMA InitIsGraphInit == ClientInit => TheGraph!Init
BY DEF ClientInit, NoRows, Nodes, TheGraph!Init

LEMMA StepIsGraphStep ==
  GraphInv /\ [ClientNext]_graphVars => [TheGraph!Next]_<<Nodes, edges>>
<1> SUFFICES ASSUME GraphInv, [ClientNext]_graphVars
             PROVE  TheGraph!Next \/ UNCHANGED <<Nodes, edges>>
  OBVIOUS
<1>1. CASE edges' \subseteq edges /\ UNCHANGED documents
  <2>1. TheGraph!DropLinks
    BY <1>1, DropsEffect DEF TheGraph!DropLinks
  <2> QED BY <2>1 DEF TheGraph!Next
<1>2. CASE UNCHANGED graphVars
  BY <1>2, DropsEffect DEF graphVars
<1>3. CASE ClientNext
  BY <1>1, <1>3, StepOfGraph, AddIsStep, LinkIsStep, UpdateIsExchange, EraseIsDrop
<1> QED BY <1>2, <1>3

(***************************************************************************)
(* The library's documents and edges are the nodes and links of a graph,   *)
(* whatever its keys: the two documents there are during an edit and the   *)
(* edges rewritten one by one are never seen.                              *)
(***************************************************************************)
THEOREM GraphIsImplemented == ClientSpec => ImplementsGraph
<1> QED BY GraphInvariant, InitIsGraphInit, StepIsGraphStep, PTL
        DEF ClientSpec, ImplementsGraph, TheGraph!Spec

----------------------------------------------------------------------------
(* What groups say. *)

\* Groups whose meaning can be read off them.
Clear(groups) == groups \in ContentGroups /\ TextLabelled(groups) /\ SaysOnce(groups)

\* What the groups of a name say.
Heard(groups, name) == {Says(groups[i]) : i \in {j \in DOMAIN groups : LabelOf(groups[j]) = String(name)}}

(* What a group says and what its contents with a label say is the same. *)
LEMMA SaysSaid ==
  ASSUME NEW group \in ContentGroup, OneEach(group)
  PROVE  /\ Says(group) = [label \in DOMAIN Says(group) |-> Says(group)[label]]
         /\ \A label : label \in DOMAIN Says(group) <=> Said(group, label) # {}
         /\ \A label \in DOMAIN Says(group) : Said(group, label) = {Says(group)[label]}
<1>1. Says(group) = [label \in DOMAIN Says(group) |-> Says(group)[label]]
  BY DEF Says
<1>2. \A label : label \in DOMAIN Says(group) <=> Said(group, label) # {}
  BY DEF Says, Said
<1>3. ASSUME NEW label \in DOMAIN Says(group) PROVE Said(group, label) = {Says(group)[label]}
  <2> DEFINE i == IndexOf(group, label)
  <2>1. Says(group)[label] = group[i].value
    BY DEF Says
  <2>2. i \in DOMAIN group /\ group[i].label = label
    BY <1>2, IndexOfExact
  <2> HIDE DEF i
  <2> QED BY <2>1, <2>2, SaidOnce
<1> QED BY <1>1, <1>2, <1>3

(* Merging changes what a group says as Updated does. *)
LEMMA SaysUpdated ==
  ASSUME NEW old \in ContentGroup, OneEach(old), NEW delta \in ContentGroup, OneEach(delta),
         NEW new \in ContentGroup, OneEach(new),
         \A label : Said(new, label) = IF Said(delta, label) # {} THEN Said(delta, label) \ {Nothing}
                                       ELSE Said(old, label)
  PROVE  Says(new) = Updated(Says(old), Says(delta))
<1> DEFINE updated == Updated(Says(old), Says(delta))
           said == {l \in DOMAIN Says(old) \cup DOMAIN Says(delta) :
                      l \notin DOMAIN Says(delta) \/ Says(delta)[l] # Nothing}
<1>1. updated = [label \in said |->
                   IF label \in DOMAIN Says(delta) THEN Says(delta)[label] ELSE Says(old)[label]]
  BY DEF Updated
<1>2. ASSUME NEW label
      PROVE  /\ label \in DOMAIN Says(new) <=> label \in said
             /\ label \in said => Says(new)[label] = updated[label]
  <2>1. CASE Said(delta, label) = {}
    <3>1. label \notin DOMAIN Says(delta) /\ Said(new, label) = Said(old, label)
      BY <2>1, SaysSaid
    <3>2. label \in said <=> label \in DOMAIN Says(old)
      BY <3>1
    <3>3. label \in DOMAIN Says(new) <=> label \in DOMAIN Says(old)
      BY <3>1, SaysSaid
    <3>4. ASSUME label \in DOMAIN Says(old) PROVE Says(new)[label] = Says(old)[label]
      BY <3>1, <3>3, <3>4, SaysSaid
    <3> HIDE DEF said, updated
    <3> QED BY <1>1, <3>1, <3>2, <3>3, <3>4
  <2>2. CASE Said(delta, label) # {}
    <3>1. /\ label \in DOMAIN Says(delta) /\ Said(delta, label) = {Says(delta)[label]}
          /\ Said(new, label) = {Says(delta)[label]} \ {Nothing}
      BY <2>2, SaysSaid
    <3>2. label \in said <=> Says(delta)[label] # Nothing
      BY <3>1
    <3>3. label \in DOMAIN Says(new) <=> Says(delta)[label] # Nothing
      BY <3>1, SaysSaid
    <3>4. ASSUME Says(delta)[label] # Nothing PROVE Says(new)[label] = Says(delta)[label]
      BY <3>1, <3>3, <3>4, SaysSaid
    <3> HIDE DEF said, updated
    <3> QED BY <1>1, <3>1, <3>2, <3>3, <3>4
  <2> QED BY <2>1, <2>2
<1>3. Says(new) = [label \in DOMAIN Says(new) |-> Says(new)[label]]
  BY SaysSaid
<1>4. DOMAIN Says(new) = said
  BY <1>2
<1> HIDE DEF said, updated
<1>5. Says(new) = updated
  BY <1>1, <1>2, <1>3, <1>4
<1> QED BY <1>5 DEF updated

(* The groups of clear ones, each with one name or none. *)
LEMMA ClearGroups ==
  ASSUME NEW groups, Clear(groups)
  PROVE  /\ Len(groups) \in Nat /\ DOMAIN groups = 1..Len(groups)
         /\ \A i \in DOMAIN groups :
              /\ groups[i] \in ContentGroup /\ OneEach(groups[i])
              /\ LabelOf(groups[i]).text \in STRING
              /\ LabelOf(groups[i]) = String(LabelOf(groups[i]).text)
         /\ \A i, j \in DOMAIN groups :
              LabelOf(groups[i]) = LabelOf(groups[j]) => i = j \/ LabelOf(groups[i]) = String(NoText)
<1>1. /\ groups \in ContentGroups /\ Len(groups) \in Nat /\ DOMAIN groups = 1..Len(groups)
      /\ \A i \in DOMAIN groups : groups[i] \in ContentGroup
  BY GroupOfGroups DEF Clear
<1>2. ASSUME NEW i \in DOMAIN groups
      PROVE  /\ OneEach(groups[i]) /\ LabelOf(groups[i]).text \in STRING
             /\ LabelOf(groups[i]) = String(LabelOf(groups[i]).text)
  <2>1. OneEach(groups[i]) /\ LabelOf(groups[i]).kind = "string"
    BY DEF Clear, SaysOnce, TextLabelled, OneEach
  <2>2. LabelOf(groups[i]) \in FlexValue
    BY <1>1, <2>1, LabelSaid
  <2> QED BY <2>1, <2>2 DEF FlexValue, String
<1> QED BY <1>1, <1>2 DEF Clear, SaysOnce

LEMMA ClearWhen ==
  ASSUME NEW groups \in ContentGroups,
         \A i \in DOMAIN groups : OneEach(groups[i]) /\ LabelOf(groups[i]).kind = "string",
         \A i, j \in DOMAIN groups :
           LabelOf(groups[i]) = LabelOf(groups[j]) => i = j \/ LabelOf(groups[i]) = String(NoText)
  PROVE  Clear(groups)
BY DEF Clear, SaysOnce, TextLabelled, OneEach

(* Looking for a group by its name finds the one there is. *)
LEMMA GroupNamed ==
  ASSUME NEW groups, Clear(groups), NEW name, name # NoText
  PROVE  /\ GroupIndex(groups, name) = 0 <=> Heard(groups, name) = {}
         /\ GroupIndex(groups, name) # 0 =>
              /\ GroupIndex(groups, name) \in DOMAIN groups
              /\ LabelOf(groups[GroupIndex(groups, name)]) = String(name)
         /\ HasGroup(groups, name) <=> GroupIndex(groups, name) # 0
         /\ \A i \in DOMAIN groups : LabelOf(groups[i]) = String(name) => Heard(groups, name) = {Says(groups[i])}
         /\ name \in Named(groups) <=> Heard(groups, name) # {}
<1> DEFINE found == {i \in 1..Len(groups) : String(name) \in Labels(groups[i])}
           place == GroupIndex(groups, name)
<1>1. String(name) # String(NoText) /\ String(name).text = name
  BY DEF String
<1>2. /\ Len(groups) \in Nat /\ DOMAIN groups = 1..Len(groups)
      /\ \A i \in DOMAIN groups :
           /\ groups[i] \in ContentGroup /\ OneEach(groups[i])
           /\ LabelOf(groups[i]) = String(LabelOf(groups[i]).text)
      /\ \A i, j \in DOMAIN groups :
           LabelOf(groups[i]) = LabelOf(groups[j]) => i = j \/ LabelOf(groups[i]) = String(NoText)
  BY ClearGroups
<1>3. ASSUME NEW i \in DOMAIN groups
      PROVE  /\ String(name) \in Labels(groups[i]) <=> LabelOf(groups[i]) = String(name)
             /\ \A v \in Labels(groups[i]) : v = LabelOf(groups[i])
  <2> DEFINE group == groups[i]
  <2>1. group \in ContentGroup /\ OneEach(group)
    BY <1>2
  <2>2. \/ Labels(group) = {LabelOf(group)}
        \/ Labels(group) = {} /\ LabelOf(group) = String(NoText)
    BY <2>1, LabelSaid
  <2> HIDE DEF group
  <2>3. /\ String(name) \in Labels(group) <=> LabelOf(group) = String(name)
        /\ \A v \in Labels(group) : v = LabelOf(group)
    BY <1>1, <2>2
  <2> QED BY <2>3 DEF group
<1>4. place = IF found # {} THEN Min(found) ELSE 0
  BY DEF GroupIndex, SelectInSeq
<1>5. found \in SUBSET (1..Len(groups))
  OBVIOUS
<1>6. found = {i \in DOMAIN groups : LabelOf(groups[i]) = String(name)}
  BY <1>2, <1>3
<1>7. found = {} <=> Heard(groups, name) = {}
  BY <1>6 DEF Heard
<1> HIDE DEF found
<1>8. (place # 0 <=> found # {}) /\ (place # 0 => place \in found) /\ place \in 0..Len(groups)
  BY <1>2, <1>4, <1>5, FirstFound
<1> HIDE DEF place
<1>9. ReadableTo(groups, name, place)
  <2>1. \A i \in DOMAIN groups : LabelOf(groups[i]).kind = "string"
    BY DEF Clear, TextLabelled
  <2>2. \A i \in 1..place : i \in DOMAIN groups
    BY <1>2, <1>8
  <2>3. ASSUME NEW i \in DOMAIN groups PROVE Readable(groups[i], name)
    <3>1. \A v \in Labels(groups[i]) : v.kind = "string"
      BY <1>3, <2>1
    <3> QED BY <3>1 DEF Readable, Labels
  <2> QED BY <2>2, <2>3 DEF ReadableTo
<1>10. ASSUME NEW i \in DOMAIN groups, LabelOf(groups[i]) = String(name)
       PROVE  Heard(groups, name) = {Says(groups[i])}
  BY <1>1, <1>2, <1>10 DEF Heard
<1>11. name \in Named(groups) <=> found # {}
  <2>1. \A i \in DOMAIN groups : LabelOf(groups[i]) = String(name) <=> LabelOf(groups[i]).text = name
    BY <1>1, <1>2
  <2> QED BY <1>6, <2>1 DEF Named
<1> QED BY <1>6, <1>7, <1>8, <1>9, <1>10, <1>11 DEF HasGroup, place

(* Where merge looks for the group of a label. *)
LEMMA PlaceFound ==
  ASSUME NEW groups, Clear(groups), NEW label
  PROVE  /\ PlaceOf(groups, label) = 0 <=> \A i \in DOMAIN groups : LabelOf(groups[i]) # label
         /\ PlaceOf(groups, label) # 0 =>
              PlaceOf(groups, label) \in DOMAIN groups /\ LabelOf(groups[PlaceOf(groups, label)]) = label
<1> DEFINE found == {i \in 1..Len(groups) : LabelOf(groups[i]) = label}
<1>1. Len(groups) \in Nat /\ DOMAIN groups = 1..Len(groups)
  BY ClearGroups
<1>2. PlaceOf(groups, label) = IF found # {} THEN Max(found) ELSE 0
  BY DEF PlaceOf, SelectLastInSeq
<1>3. found \in SUBSET (1..(Len(groups) + 1)) /\ 0 \notin found
  BY <1>1
<1>4. found # {} => Max(found) \in found
  <2> HIDE DEF found
  <2> QED BY <1>1, <1>3, WithoutMax
<1> QED BY <1>1, <1>2, <1>3, <1>4

----------------------------------------------------------------------------
(* The groups without a name, in order. *)

IsGathering(f, n, groups) ==
  f = [s \in SUBSET (1..n) |->
         IF s = {} THEN << >> ELSE WithUnnamed(f[s \ {Max(s)}], groups[Max(s)])]

\* The groups without a name among the first i groups.
GatheringRun(h, groups) ==
  /\ h[0] = << >>
  /\ \A i \in 1..Len(groups) : h[i] = WithUnnamed(h[i - 1], groups[i])
  /\ \A i \in 0..Len(groups) : h[i] \in ContentGroups
  /\ Unnamed(groups) = h[Len(groups)]

LEMMA WithUnnamedTyped ==
  ASSUME NEW found \in ContentGroups, NEW group \in ContentGroup
  PROVE  WithUnnamed(found, group) \in ContentGroups
BY AppendProperties DEF WithUnnamed, ContentGroups

(* Unnamed goes through the groups one by one. *)
LEMMA UnnamedRun ==
  ASSUME NEW groups \in ContentGroups
  PROVE  \E h : GatheringRun(h, groups)
<1> DEFINE F == [p \in ContentGroups \X ContentGroup |-> WithUnnamed(p[1], p[2])]
           n == Len(groups)
           f == CHOOSE g : IsGathering(g, n, groups)
           h == [i \in 0..n |-> f[1..i]]
           good == {i \in 0..n : h[i] \in ContentGroups}
<1>1. n \in Nat /\ DOMAIN groups = 1..n /\ groups \in [1..n -> ContentGroup]
  BY LenProperties DEF ContentGroups
<1> HIDE DEF n
<1>2. Unnamed(groups) = f[1..n]
  BY <1>1 DEF Unnamed, FoldLeft, MapThenFoldSet, IsGathering
<1>3. << >> \in ContentGroups
  BY EmptySeq DEF ContentGroups
<1> HIDE DEF f
<1>4. F \in [ContentGroups \X ContentGroup -> ContentGroups]
  BY WithUnnamedTyped
<1>5. \A some \in ContentGroups, group \in ContentGroup : F[<<some, group>>] = WithUnnamed(some, group)
  OBVIOUS
<1> HIDE DEF F
<1>6. PICK g : Unfolds(g, ContentGroups, ContentGroup, << >>, F, n, groups)
  BY <1>1, <1>3, <1>4, FoldUnfolds
<1>7. IsGathering(g, n, groups)
  BY <1>5, <1>6 DEF Unfolds, IsGathering
<1>8. IsGathering(f, n, groups)
  BY <1>7 DEF f
<1>9. f[{}] = << >> /\ 1..0 = {}
  BY <1>8 DEF IsGathering
<1>10. ASSUME NEW i \in 1..n PROVE f[1..i] = WithUnnamed(f[1..(i - 1)], groups[i])
  <2>1. /\ 1..i \in SUBSET (1..n) /\ 1..i # {}
        /\ Max(1..i) = i /\ (1..i) \ {Max(1..i)} = 1..(i - 1)
    BY <1>1, PrefixOfFold
  <2> QED BY <1>8, <2>1 DEF IsGathering
<1>11. /\ h[0] = << >> /\ h[n] = f[1..n]
       /\ \A i \in 1..n : h[i] = WithUnnamed(h[i - 1], groups[i])
  BY <1>1, <1>9, <1>10
<1> HIDE DEF h
<1>12. \A i \in 0..n : h[i] \in ContentGroups
  <2>1. 0 \in good /\ \A i \in 1..n : i - 1 \in good => i \in good
    BY <1>1, <1>3, <1>11, WithUnnamedTyped
  <2> HIDE DEF good
  <2>2. \A i \in 0..n : i \in good
    BY <1>1, <2>1, ReachedAll
  <2> QED BY <2>2 DEF good
<1>13. GatheringRun(h, groups)
  BY <1>2, <1>11, <1>12 DEF n, GatheringRun
<1> QED BY <1>13

(* A group appended adds itself if it has no name. *)
LEMMA UnnamedAppend ==
  ASSUME NEW groups \in ContentGroups, NEW group \in ContentGroup
  PROVE  Unnamed(Append(groups, group)) = WithUnnamed(Unnamed(groups), group)
<1> DEFINE n == Len(groups)
           more == Append(groups, group)
<1>1. /\ n \in Nat /\ more \in ContentGroups /\ Len(more) = n + 1
      /\ \A i \in 1..n : more[i] = groups[i]
      /\ more[n + 1] = group
  BY AppendProperties, LenProperties DEF ContentGroups
<1> HIDE DEF n, more
<1>2. PICK h : GatheringRun(h, groups)
  BY UnnamedRun
<1>3. PICK k : GatheringRun(k, more)
  BY <1>1, UnnamedRun
<1>4. /\ h[0] = << >> /\ Unnamed(groups) = h[n]
      /\ \A i \in 1..n : h[i] = WithUnnamed(h[i - 1], groups[i])
  BY <1>2 DEF GatheringRun, n
<1>5. /\ k[0] = << >> /\ Unnamed(more) = k[n + 1]
      /\ \A i \in 1..(n + 1) : k[i] = WithUnnamed(k[i - 1], more[i])
  BY <1>1, <1>3 DEF GatheringRun
<1> DEFINE good == {i \in 0..n : h[i] = k[i]}
<1>6. \A i \in 1..n : i - 1 \in good => i \in good
  BY <1>1, <1>4, <1>5
<1>7. 0 \in good
  BY <1>1, <1>4, <1>5
<1>8. n \in good
  <2> HIDE DEF good
  <2>1. \A i \in 0..n : i \in good
    BY <1>1, <1>6, <1>7, ReachedAll
  <2> QED BY <1>1, <2>1
<1>9. n + 1 \in 1..(n + 1) /\ (n + 1) - 1 = n
  BY <1>1
<1>10. k[n + 1] = WithUnnamed(k[n], more[n + 1])
  BY <1>5, <1>9
<1> QED BY <1>1, <1>4, <1>5, <1>8, <1>10 DEF more

(* A named group changed without losing its name leaves them as they are. *)
LEMMA UnnamedChange ==
  ASSUME NEW groups \in ContentGroups, NEW changed \in ContentGroups, Len(changed) = Len(groups),
         \A i \in 1..Len(groups) :
           changed[i] = groups[i] \/ (LabelOf(changed[i]) # String(NoText) /\ LabelOf(groups[i]) # String(NoText))
  PROVE  Unnamed(changed) = Unnamed(groups)
<1> DEFINE n == Len(groups)
<1>1. n \in Nat
  BY LenProperties DEF ContentGroups
<1> HIDE DEF n
<1>2. PICK h : GatheringRun(h, groups)
  BY UnnamedRun
<1>3. PICK k : GatheringRun(k, changed)
  BY UnnamedRun
<1>4. /\ h[0] = << >> /\ Unnamed(groups) = h[n]
      /\ \A i \in 1..n : h[i] = WithUnnamed(h[i - 1], groups[i])
  BY <1>2 DEF GatheringRun, n
<1>5. /\ k[0] = << >> /\ Unnamed(changed) = k[n]
      /\ \A i \in 1..n : k[i] = WithUnnamed(k[i - 1], changed[i])
  BY <1>3 DEF GatheringRun, n
<1> DEFINE good == {i \in 0..n : h[i] = k[i]}
<1>6. ASSUME NEW i \in 1..n, i - 1 \in good PROVE i \in good
  <2>1. h[i - 1] = k[i - 1] /\ i \in 0..n
    BY <1>1, <1>6
  <2>2. WithUnnamed(h[i - 1], changed[i]) = WithUnnamed(h[i - 1], groups[i])
    BY DEF WithUnnamed, n
  <2> QED BY <1>4, <1>5, <2>1, <2>2
<1>7. 0 \in good
  BY <1>1, <1>4, <1>5
<1>8. n \in good
  <2> HIDE DEF good
  <2>1. \A i \in 0..n : i \in good
    BY <1>1, <1>6, <1>7, ReachedAll
  <2> QED BY <1>1, <2>1
<1> QED BY <1>4, <1>5, <1>8

(* A named group removed leaves them as they are. *)
LEMMA UnnamedRemove ==
  ASSUME NEW groups \in ContentGroups, NEW p \in 1..Len(groups), LabelOf(groups[p]) # String(NoText)
  PROVE  Unnamed(RemoveAt(groups, p)) = Unnamed(groups)
<1> DEFINE n == Len(groups)
           rest == RemoveAt(groups, p)
<1>1. n \in Nat /\ p \in 1..n
  BY LenProperties DEF ContentGroups
<1>2. /\ rest \in ContentGroups /\ Len(rest) = n - 1
      /\ \A i \in 1..(n - 1) : rest[i] = IF i < p THEN groups[i] ELSE groups[i + 1]
  BY RemoveAtElements DEF ContentGroups
<1>3. PICK h : GatheringRun(h, groups)
  BY UnnamedRun
<1> HIDE DEF rest
<1>4. PICK k : GatheringRun(k, rest)
  BY <1>2, UnnamedRun
<1>5. /\ h[0] = << >> /\ Unnamed(groups) = h[n]
      /\ \A i \in 1..n : h[i] = WithUnnamed(h[i - 1], groups[i])
  BY <1>3 DEF GatheringRun
<1>6. /\ k[0] = << >> /\ Unnamed(rest) = k[n - 1]
      /\ \A i \in 1..(n - 1) : k[i] = WithUnnamed(k[i - 1], rest[i])
  BY <1>2, <1>4 DEF GatheringRun
<1>7. h[p] = h[p - 1]
  <2>1. h[p] = WithUnnamed(h[p - 1], groups[p])
    BY <1>1, <1>5
  <2> QED BY <2>1 DEF WithUnnamed
<1> HIDE DEF n
<1> DEFINE Same(i) == k[i] = IF i < p THEN h[i] ELSE h[i + 1]
           good == {i \in 0..(n - 1) : Same(i)}
<1>8. ASSUME NEW i \in 1..(n - 1), Same(i - 1) PROVE Same(i)
  <2>1. k[i] = WithUnnamed(k[i - 1], rest[i]) /\ i \in 1..n /\ i + 1 \in 1..n /\ (i + 1) - 1 = i
    BY <1>1, <1>6
  <2>2. h[i] = WithUnnamed(h[i - 1], groups[i]) /\ h[i + 1] = WithUnnamed(h[i], groups[i + 1])
    BY <1>5, <2>1
  <2>3. CASE i < p
    BY <1>1, <1>2, <1>8, <2>1, <2>2, <2>3
  <2>4. CASE i = p
    <3>1. k[i - 1] = h[i] /\ rest[i] = groups[i + 1]
      BY <1>1, <1>2, <1>7, <1>8, <2>4
    <3> QED BY <1>1, <2>1, <2>2, <2>4, <3>1
  <2>5. CASE p < i
    <3>1. k[i - 1] = h[i] /\ rest[i] = groups[i + 1]
      BY <1>1, <1>2, <1>8, <2>5
    <3> QED BY <1>1, <2>1, <2>2, <2>5, <3>1
  <2> QED BY <1>1, <2>3, <2>4, <2>5
<1>9. Same(0)
  BY <1>1, <1>5, <1>6
<1>10. Same(n - 1)
  <2> HIDE DEF Same
  <2>1. n - 1 \in Nat /\ 0 \in good /\ \A i \in 1..(n - 1) : i - 1 \in good => i \in good
    BY <1>1, <1>8, <1>9
  <2>2. \A i \in 0..(n - 1) : i \in good
    <3> HIDE DEF good
    <3> QED BY <2>1, ReachedAll
  <2> QED BY <2>1, <2>2
<1>11. k[n - 1] = h[n]
  <2>1. CASE n - 1 < p
    <3>1. n = p /\ k[n - 1] = h[p - 1]
      BY <1>1, <1>10, <2>1
    <3> QED BY <1>7, <3>1
  <2>2. CASE ~(n - 1 < p)
    BY <1>1, <1>10, <2>2
  <2> QED BY <2>1, <2>2
<1> QED BY <1>5, <1>6, <1>11 DEF rest

----------------------------------------------------------------------------
(* What one group of a delta makes of groups. *)

LEMMA NamesDiffer ==
  \A name, other : (String(name) = String(other) => name = other) /\ String(name).kind = "string"
BY DEF String

(* A group appended, without a name or with one nothing has. *)
LEMMA AppendTold ==
  ASSUME NEW groups, Clear(groups), NEW group \in ContentGroup, OneEach(group),
         NEW name, LabelOf(group) = String(name), name = NoText \/ Heard(groups, name) = {}
  PROVE  LET new == Append(groups, group) IN
         /\ Clear(new)
         /\ \A i \in DOMAIN groups : i \in DOMAIN new /\ LabelOf(new[i]) = LabelOf(groups[i])
         /\ \A other : other # NoText =>
              Heard(new, other) = IF other = name THEN {Says(group)} ELSE Heard(groups, other)
<1> DEFINE new == Append(groups, group)
           n == Len(groups)
<1>1. /\ groups \in ContentGroups /\ n \in Nat /\ DOMAIN groups = 1..n
      /\ \A i \in 1..n : OneEach(groups[i]) /\ LabelOf(groups[i]) = String(LabelOf(groups[i]).text)
      /\ \A i, j \in 1..n : LabelOf(groups[i]) = LabelOf(groups[j]) => i = j \/ LabelOf(groups[i]) = String(NoText)
  BY ClearGroups DEF Clear
<1>2. /\ new \in ContentGroups /\ Len(new) = n + 1
      /\ \A i \in 1..n : new[i] = groups[i]
      /\ new[n + 1] = group
  BY <1>1, AppendProperties DEF ContentGroups
<1> HIDE DEF new, n
<1>3. DOMAIN new = 1..(n + 1) /\ \A i \in DOMAIN new : i \in 1..n \/ i = n + 1
  BY <1>1, <1>2, GroupOfGroups
<1>4. name = NoText \/ \A i \in 1..n : LabelOf(groups[i]) # String(name)
  BY <1>1 DEF Heard
<1>5. \A i \in DOMAIN new : OneEach(new[i]) /\ LabelOf(new[i]).kind = "string"
  BY <1>1, <1>2, <1>3, NamesDiffer
<1>6. \A i, j \in DOMAIN new : LabelOf(new[i]) = LabelOf(new[j]) => i = j \/ LabelOf(new[i]) = String(NoText)
  BY <1>1, <1>2, <1>3, <1>4
<1>7. Clear(new)
  BY <1>2, <1>5, <1>6, ClearWhen
<1>8. ASSUME NEW other, other # NoText
      PROVE  Heard(new, other) = IF other = name THEN {Says(group)} ELSE Heard(groups, other)
  <2>1. DOMAIN new = DOMAIN groups \cup {n + 1}
    BY <1>1, <1>3
  <2>2. CASE other = name
    BY <1>1, <1>2, <1>4, <1>8, <2>1, <2>2 DEF Heard
  <2>3. CASE other # name
    <3>1. LabelOf(new[n + 1]) # String(other)
      BY <1>2, <2>3, NamesDiffer
    <3>2. {j \in DOMAIN new : LabelOf(new[j]) = String(other)}
            = {j \in DOMAIN groups : LabelOf(groups[j]) = String(other)}
      BY <1>1, <1>2, <2>1, <3>1
    <3> QED BY <1>1, <1>2, <2>3, <3>2 DEF Heard
  <2> QED BY <2>2, <2>3
<1>9. \A i \in DOMAIN groups : i \in DOMAIN new /\ LabelOf(new[i]) = LabelOf(groups[i])
  BY <1>1, <1>2, <1>3
<1> QED BY <1>7, <1>8, <1>9 DEF new

Replaces(new, groups, p, group) == new = [groups EXCEPT ![p] = group]

(* A named group put in the place of another of its name. *)
LEMMA ChangeTold ==
  ASSUME NEW groups, Clear(groups), NEW p \in DOMAIN groups, NEW group \in ContentGroup, OneEach(group),
         NEW name, name # NoText, LabelOf(groups[p]) = String(name), LabelOf(group) = String(name),
         NEW new, Replaces(new, groups, p, group)
  PROVE  /\ Clear(new) /\ Unnamed(new) = Unnamed(groups)
         /\ \A i \in DOMAIN groups : i \in DOMAIN new /\ LabelOf(new[i]) = LabelOf(groups[i])
         /\ \A other : other # NoText =>
              Heard(new, other) = IF other = name THEN {Says(group)} ELSE Heard(groups, other)
<1> DEFINE n == Len(groups)
<1>1. /\ groups \in ContentGroups /\ n \in Nat /\ DOMAIN groups = 1..n
      /\ \A i \in 1..n : OneEach(groups[i]) /\ LabelOf(groups[i]) = String(LabelOf(groups[i]).text)
      /\ \A i, j \in 1..n : LabelOf(groups[i]) = LabelOf(groups[j]) => i = j \/ LabelOf(groups[i]) = String(NoText)
  BY ClearGroups DEF Clear
<1>2. /\ new \in ContentGroups /\ Len(new) = n
      /\ \A i \in 1..n : new[i] = IF i = p THEN group ELSE groups[i]
  BY <1>1, ExceptSeq DEF ContentGroups, Replaces
<1>3. DOMAIN new = 1..n /\ p \in 1..n
  BY <1>1, <1>2, GroupOfGroups
<1>4. \A i \in 1..n : LabelOf(new[i]) = LabelOf(groups[i])
  BY <1>2
<1>5. \A i \in DOMAIN new : OneEach(new[i]) /\ LabelOf(new[i]).kind = "string"
  BY <1>1, <1>2, <1>3, NamesDiffer
<1>6. \A i, j \in DOMAIN new : LabelOf(new[i]) = LabelOf(new[j]) => i = j \/ LabelOf(new[i]) = String(NoText)
  BY <1>1, <1>3, <1>4
<1>7. Clear(new)
  BY <1>2, <1>5, <1>6, ClearWhen
<1>8. String(name) # String(NoText)
  BY NamesDiffer
<1>9. Unnamed(new) = Unnamed(groups)
  <2>1. \A i \in 1..n : \/ new[i] = groups[i]
                        \/ LabelOf(new[i]) # String(NoText) /\ LabelOf(groups[i]) # String(NoText)
    BY <1>2, <1>4, <1>8
  <2> QED BY <1>1, <1>2, <2>1, UnnamedChange
<1> HIDE DEF n
<1>10. ASSUME NEW other, other # NoText
      PROVE  Heard(new, other) = IF other = name THEN {Says(group)} ELSE Heard(groups, other)
  <2>1. CASE other = name
    <3>1. Heard(new, other) = {Says(new[p])}
      BY <1>3, <1>4, <1>7, <1>10, <2>1, GroupNamed
    <3> QED BY <1>2, <1>3, <2>1, <3>1
  <2>2. CASE other # name
    <3>1. \A i \in 1..n : LabelOf(groups[i]) = String(other) => new[i] = groups[i]
      BY <1>2, <2>2, NamesDiffer
    <3>2. {j \in DOMAIN new : LabelOf(new[j]) = String(other)}
            = {j \in DOMAIN groups : LabelOf(groups[j]) = String(other)}
      BY <1>1, <1>3, <1>4
    <3>3. Heard(new, other) = Heard(groups, other)
      BY <1>1, <3>1, <3>2 DEF Heard
    <3> QED BY <2>2, <3>3
  <2> QED BY <2>1, <2>2
<1>11. \A i \in DOMAIN groups : i \in DOMAIN new /\ LabelOf(new[i]) = LabelOf(groups[i])
  BY <1>1, <1>3, <1>4
<1> QED BY <1>7, <1>9, <1>10, <1>11

(* A named group removed. *)
LEMMA RemoveTold ==
  ASSUME NEW groups, Clear(groups), NEW p \in DOMAIN groups,
         NEW name, name # NoText, LabelOf(groups[p]) = String(name)
  PROVE  LET new == RemoveAt(groups, p) IN
         /\ Clear(new) /\ Unnamed(new) = Unnamed(groups)
         /\ \A other : other # NoText =>
              Heard(new, other) = IF other = name THEN {} ELSE Heard(groups, other)
<1> DEFINE new == RemoveAt(groups, p)
           n == Len(groups)
           Old(k) == IF k < p THEN k ELSE k + 1
<1>1. /\ groups \in ContentGroups /\ n \in Nat /\ DOMAIN groups = 1..n /\ p \in 1..n
      /\ \A i \in 1..n : OneEach(groups[i]) /\ LabelOf(groups[i]) = String(LabelOf(groups[i]).text)
      /\ \A i, j \in 1..n : LabelOf(groups[i]) = LabelOf(groups[j]) => i = j \/ LabelOf(groups[i]) = String(NoText)
  BY ClearGroups DEF Clear
<1>2. /\ new \in ContentGroups /\ Len(new) = n - 1
      /\ \A k \in 1..(n - 1) : new[k] = IF k < p THEN groups[k] ELSE groups[k + 1]
  BY <1>1, RemoveAtElements DEF ContentGroups
<1>3. String(name) # String(NoText)
  BY NamesDiffer
<1>4. Unnamed(new) = Unnamed(groups)
  BY <1>1, <1>3, UnnamedRemove
<1> HIDE DEF new, n
<1>5. DOMAIN new = 1..(n - 1)
  BY <1>2, GroupOfGroups
<1>6. \A k \in DOMAIN new : Old(k) \in (1..n) \ {p} /\ new[k] = groups[Old(k)]
  BY <1>1, <1>2, <1>5
<1>7. \A k, j \in DOMAIN new : Old(k) = Old(j) => k = j
  BY <1>1, <1>5
<1>8. \A j \in (1..n) \ {p} : \E k \in DOMAIN new : j = Old(k)
  <2> SUFFICES ASSUME NEW j \in (1..n) \ {p} PROVE \E k \in DOMAIN new : j = Old(k)
    OBVIOUS
  <2>1. CASE j < p
    BY <1>1, <1>5, <2>1
  <2>2. CASE p < j
    <3>1. j - 1 \in DOMAIN new /\ j = Old(j - 1)
      BY <1>1, <1>5, <2>2
    <3> QED BY <3>1
  <2> QED BY <1>1, <2>1, <2>2
<1> HIDE DEF Old
<1>9. \A i \in DOMAIN new : OneEach(new[i]) /\ LabelOf(new[i]).kind = "string"
  BY <1>1, <1>6, NamesDiffer
<1>10. \A i, j \in DOMAIN new : LabelOf(new[i]) = LabelOf(new[j]) => i = j \/ LabelOf(new[i]) = String(NoText)
  BY <1>1, <1>6, <1>7
<1>11. Clear(new)
  BY <1>2, <1>9, <1>10, ClearWhen
<1>12. ASSUME NEW other, other # NoText
       PROVE  Heard(new, other) = IF other = name THEN {} ELSE Heard(groups, other)
  <2>1. Heard(new, other) = {Says(groups[j]) : j \in {m \in (1..n) \ {p} : LabelOf(groups[m]) = String(other)}}
    BY <1>6, <1>8 DEF Heard
  <2>2. other = name => \A m \in (1..n) \ {p} : LabelOf(groups[m]) # String(other)
    BY <1>1, <1>3
  <2>3. other # name => {m \in (1..n) \ {p} : LabelOf(groups[m]) = String(other)}
                          = {m \in DOMAIN groups : LabelOf(groups[m]) = String(other)}
    BY <1>1, NamesDiffer
  <2>4. CASE other = name
    BY <2>1, <2>2, <2>4
  <2>5. CASE other # name
    BY <2>1, <2>3, <2>5 DEF Heard
  <2> QED BY <2>4, <2>5
<1> QED BY <1>4, <1>11, <1>12 DEF new

\* The tags of a group of a delta.
Deletes(delta) == IndexOf(delta, "delete_group") # 0
Skips(delta)   == IndexOf(delta, "skip_from_merge") # 0

\* What a group of a delta makes of what its name said, and when it cannot.
Retold(heard, delta) ==
  IF Deletes(delta) THEN {} ELSE IF Skips(delta) THEN heard
  ELSE IF heard = {} THEN {Says(delta)} ELSE {Updated(said, Says(delta)) : said \in heard}

TakesFrom(said, delta) == \E label \in DOMAIN Says(delta) : Says(delta)[label] = Nothing /\ label \notin DOMAIN said

Refused(heard, delta) ==
  IF Deletes(delta) THEN heard = {} ELSE ~Skips(delta) /\ \E said \in heard : TakesFrom(said, delta)

(* A delta takes away what is not there content by content as it does label by label. *)
LEMMA TakesWhatIsSaid ==
  ASSUME NEW group \in ContentGroup, OneEach(group), NEW delta \in ContentGroup, OneEach(delta)
  PROVE  (\E i \in DOMAIN delta : Takes(group, delta[i])) <=> TakesFrom(Says(group), delta)
<1>1. ASSUME NEW i \in DOMAIN delta, Takes(group, delta[i]) PROVE TakesFrom(Says(group), delta)
  <2> DEFINE label == delta[i].label
  <2>1. Said(delta, label) = {Nothing} /\ Said(group, label) = {}
    BY <1>1, SaidOnce DEF Takes
  <2> HIDE DEF label
  <2>2. label \in DOMAIN Says(delta) /\ Says(delta)[label] = Nothing /\ label \notin DOMAIN Says(group)
    BY <2>1, SaysSaid
  <2> QED BY <2>2 DEF TakesFrom
<1>2. ASSUME NEW label \in DOMAIN Says(delta), Says(delta)[label] = Nothing, label \notin DOMAIN Says(group)
      PROVE  \E i \in DOMAIN delta : Takes(group, delta[i])
  <2>1. Said(delta, label) = {Nothing} /\ Said(group, label) = {}
    BY <1>2, SaysSaid
  <2>2. PICK i \in DOMAIN delta : delta[i].label = label /\ delta[i].value = Nothing
    BY <2>1 DEF Said
  <2> QED BY <2>1, <2>2 DEF Takes
<1> QED BY <1>1, <1>2 DEF TakesFrom

(* A group of a delta merged into the group of its name. *)
LEMMA MergedTold ==
  ASSUME NEW groups, Clear(groups), NEW place \in DOMAIN groups,
         NEW delta \in ContentGroup, OneEach(delta),
         NEW name, name # NoText, LabelOf(groups[place]) = String(name), LabelOf(delta) = String(name)
  PROVE  /\ TakesFrom(Says(groups[place]), delta) => Merged(groups, place, delta) = {}
         /\ ~TakesFrom(Says(groups[place]), delta) =>
              \E new :
                /\ Merged(groups, place, delta) = {new}
                /\ Clear(new) /\ Unnamed(new) = Unnamed(groups)
                /\ \A i \in DOMAIN groups : i \in DOMAIN new /\ LabelOf(new[i]) = LabelOf(groups[i])
                /\ \A other : other # NoText =>
                     Heard(new, other) = IF other = name THEN {Updated(Says(groups[place]), Says(delta))}
                                         ELSE Heard(groups, other)
<1> DEFINE old == groups[place]
<1>1. groups \in ContentGroups /\ old \in ContentGroup /\ OneEach(old)
  BY ClearGroups DEF Clear
<1>2. (\E i \in DOMAIN delta : Takes(old, delta[i])) <=> TakesFrom(Says(old), delta)
  BY <1>1, TakesWhatIsSaid
<1>3. CASE TakesFrom(Says(old), delta)
  <2>1. Merged(groups, place, delta) = {}
    BY <1>1, <1>2, <1>3, MergedEffect
  <2> QED BY <1>3, <2>1
<1>4. CASE ~TakesFrom(Says(old), delta)
  <2>1. PICK group \in ContentGroup :
          /\ Merged(groups, place, delta) = {[groups EXCEPT ![place] = group]}
          /\ OneEach(group)
          /\ \A label : Said(group, label) = IF Said(delta, label) # {} THEN Said(delta, label) \ {Nothing}
                                             ELSE Said(old, label)
    BY <1>1, <1>2, <1>4, MergedEffect
  <2>2. Says(group) = Updated(Says(old), Says(delta))
    BY <1>1, <2>1, SaysUpdated
  <2>3. LabelOf(group) = String(name)
    <3>1. String(name) # Nothing /\ String(name) # String(NoText)
      BY DEF String, Nothing
    <3>2. \/ Said(delta, GroupLabel) = {LabelOf(delta)}
          \/ Said(delta, GroupLabel) = {} /\ LabelOf(delta) = String(NoText)
      BY LabelSaid
    <3>3. Said(delta, GroupLabel) = {String(name)}
      BY <3>1, <3>2
    <3>4. Said(group, GroupLabel) = {String(name)}
      BY <2>1, <3>1, <3>3
    <3>5. \/ Said(group, GroupLabel) = {LabelOf(group)}
          \/ Said(group, GroupLabel) = {}
      BY <2>1, LabelSaid
    <3> QED BY <3>4, <3>5
  <2> DEFINE new == [groups EXCEPT ![place] = group]
  <2>4. /\ Clear(new) /\ Unnamed(new) = Unnamed(groups)
        /\ \A i \in DOMAIN groups : i \in DOMAIN new /\ LabelOf(new[i]) = LabelOf(groups[i])
        /\ \A other : other # NoText =>
             Heard(new, other) = IF other = name THEN {Says(group)} ELSE Heard(groups, other)
    <3>1. OneEach(group)
      BY <2>1
    <3>2. Replaces(new, groups, place, group)
      BY DEF Replaces
    <3> HIDE DEF new
    <3> QED BY <2>3, <3>1, <3>2, ChangeTold
  <2>5. Merged(groups, place, delta) = {new}
    BY <2>1
  <2> HIDE DEF new, old
  <2> QED BY <1>4, <2>2, <2>4, <2>5 DEF old
<1> QED BY <1>3, <1>4

\* After a group of a delta, with this name, the groups are new.
Told(groups, name, delta, new) ==
  /\ Clear(new)
  /\ Unnamed(new) = WithUnnamed(Unnamed(groups), delta)
  /\ \A other : other # NoText =>
       Heard(new, other) = IF other = name THEN Retold(Heard(groups, name), delta) ELSE Heard(groups, other)
  /\ ~Deletes(delta) => \A i \in DOMAIN groups : i \in DOMAIN new /\ LabelOf(new[i]) = LabelOf(groups[i])

\* A place where the group of a name is, or zero when there is none.
Places(groups, place, name) ==
  /\ place = 0 => Heard(groups, name) = {}
  /\ place # 0 => place \in DOMAIN groups /\ LabelOf(groups[place]) = String(name)

(* One group of a delta, whatever it asks for. *)
LEMMA MergedGroupTold ==
  ASSUME NEW groups, Clear(groups), NEW delta \in ContentGroup, OneEach(delta),
         NEW name, LabelOf(delta) = String(name), NEW place,
         name # NoText /\ ~Deletes(delta) => Places(groups, place, name)
  PROVE  /\ name # NoText /\ Refused(Heard(groups, name), delta) => MergedGroup(groups, place, delta) = {}
         /\ name = NoText \/ ~Refused(Heard(groups, name), delta) =>
              \E new : MergedGroup(groups, place, delta) = {new} /\ Told(groups, name, delta, new)
<1> DEFINE heard == Heard(groups, name)
           outcome == MergedGroup(groups, place, delta)
<1>1. LabelOf(delta).kind = "string" /\ LabelOf(delta).text = name
  BY DEF String
<1>2. groups \in ContentGroups
  BY DEF Clear
<1>3. Unnamed(Append(groups, delta)) = WithUnnamed(Unnamed(groups), delta)
  BY <1>2, UnnamedAppend
<1>4. name # NoText => WithUnnamed(Unnamed(groups), delta) = Unnamed(groups)
  BY NamesDiffer DEF WithUnnamed
<1>5. CASE name = NoText
  <2> DEFINE new == Append(groups, delta)
  <2>1. outcome = {new}
    BY <1>1, <1>5 DEF MergedGroup
  <2>2. /\ Clear(new)
        /\ \A i \in DOMAIN groups : i \in DOMAIN new /\ LabelOf(new[i]) = LabelOf(groups[i])
        /\ \A other : other # NoText =>
             Heard(new, other) = IF other = name THEN {Says(delta)} ELSE Heard(groups, other)
    BY <1>5, AppendTold
  <2>3. Unnamed(new) = WithUnnamed(Unnamed(groups), delta)
    BY <1>3
  <2> HIDE DEF new, outcome
  <2>4. Told(groups, name, delta, new)
    BY <1>5, <2>2, <2>3 DEF Told
  <2> QED BY <1>5, <2>1, <2>4 DEF outcome
<1>6. CASE name # NoText /\ Deletes(delta)
  <2>1. outcome = RemoveGroup(groups, name)
    BY <1>1, <1>6 DEF MergedGroup, Deletes
  <2> DEFINE p == GroupIndex(groups, name)
             new == RemoveAt(groups, p)
  <2>2. /\ p = 0 <=> heard = {}
        /\ p # 0 => p \in DOMAIN groups /\ LabelOf(groups[p]) = String(name)
        /\ HasGroup(groups, name) <=> p # 0
    BY <1>6, GroupNamed
  <2>3. Refused(heard, delta) <=> heard = {}
    BY <1>6 DEF Refused
  <2>4. outcome = IF heard = {} THEN {} ELSE {new}
    BY <2>1, <2>2 DEF RemoveGroup
  <2>5. ASSUME heard # {} PROVE Told(groups, name, delta, new)
    <3>1. /\ Clear(new) /\ Unnamed(new) = Unnamed(groups)
          /\ \A other : other # NoText =>
               Heard(new, other) = IF other = name THEN {} ELSE Heard(groups, other)
      BY <1>6, <2>2, <2>5, RemoveTold
    <3>2. Retold(heard, delta) = {}
      BY <1>6 DEF Retold
    <3> HIDE DEF new
    <3> QED BY <1>4, <1>6, <3>1, <3>2 DEF Told
  <2> HIDE DEF new, outcome, heard
  <2> QED BY <1>6, <2>3, <2>4, <2>5 DEF outcome, heard
<1>7. CASE name # NoText /\ ~Deletes(delta) /\ Skips(delta)
  <2>1. outcome = {groups}
    BY <1>1, <1>7 DEF MergedGroup, Deletes, Skips
  <2>2. ~Refused(heard, delta) /\ Retold(heard, delta) = heard
    BY <1>7 DEF Refused, Retold
  <2> HIDE DEF outcome
  <2>3. Told(groups, name, delta, groups)
    BY <1>4, <1>7, <2>2 DEF Told
  <2> QED BY <1>7, <2>1, <2>2, <2>3 DEF outcome
<1>8. CASE name # NoText /\ ~Deletes(delta) /\ ~Skips(delta) /\ place = 0
  <2> DEFINE new == Append(groups, delta)
  <2>1. outcome = {new}
    BY <1>1, <1>8 DEF MergedGroup, Deletes, Skips
  <2>2. heard = {}
    BY <1>8 DEF Places
  <2>3. /\ Clear(new)
        /\ \A i \in DOMAIN groups : i \in DOMAIN new /\ LabelOf(new[i]) = LabelOf(groups[i])
        /\ \A other : other # NoText =>
             Heard(new, other) = IF other = name THEN {Says(delta)} ELSE Heard(groups, other)
    BY <2>2, AppendTold
  <2>4. Unnamed(new) = WithUnnamed(Unnamed(groups), delta)
    BY <1>3
  <2>5. ~Refused(heard, delta) /\ Retold(heard, delta) = {Says(delta)}
    BY <1>8, <2>2 DEF Refused, Retold
  <2> HIDE DEF new, outcome
  <2>6. Told(groups, name, delta, new)
    BY <2>3, <2>4, <2>5 DEF Told
  <2> QED BY <1>8, <2>1, <2>5, <2>6 DEF outcome
<1>9. CASE name # NoText /\ ~Deletes(delta) /\ ~Skips(delta) /\ place # 0
  <2>1. outcome = Merged(groups, place, delta)
    BY <1>1, <1>9 DEF MergedGroup, Deletes, Skips
  <2>2. place \in DOMAIN groups /\ LabelOf(groups[place]) = String(name)
    BY <1>9 DEF Places
  <2> DEFINE said == Says(groups[place])
  <2>3. heard = {said}
    BY <1>9, <2>2, GroupNamed
  <2>4. Refused(heard, delta) <=> TakesFrom(said, delta)
    BY <1>9, <2>3 DEF Refused
  <2>5. Retold(heard, delta) = {Updated(said, Says(delta))}
    BY <1>9, <2>3 DEF Retold
  <2>6. /\ TakesFrom(said, delta) => outcome = {}
        /\ ~TakesFrom(said, delta) =>
             \E new : /\ outcome = {new}
                      /\ Clear(new) /\ Unnamed(new) = Unnamed(groups)
                      /\ \A i \in DOMAIN groups : i \in DOMAIN new /\ LabelOf(new[i]) = LabelOf(groups[i])
                      /\ \A other : other # NoText =>
                           Heard(new, other) = IF other = name THEN {Updated(said, Says(delta))}
                                               ELSE Heard(groups, other)
    BY <1>9, <2>1, <2>2, MergedTold
  <2> HIDE DEF outcome, said
  <2>7. ASSUME ~TakesFrom(said, delta) PROVE \E new : outcome = {new} /\ Told(groups, name, delta, new)
    BY <1>4, <1>9, <2>5, <2>6, <2>7 DEF Told
  <2> QED BY <1>9, <2>4, <2>6, <2>7 DEF outcome
<1> QED BY <1>5, <1>6, <1>7, <1>8, <1>9

----------------------------------------------------------------------------
(* All groups of a delta, one after the other. *)

LEMMA MergedTyped ==
  ASSUME NEW groups \in ContentGroups, NEW place, NEW delta \in ContentGroup
  PROVE  Merged(groups, place, delta) \subseteq ContentGroups
<1> DEFINE n == Len(delta)
<1>1. n \in Nat /\ \A i \in 1..n : delta[i] \in ContentRow
  BY ContentOfGroup
<1>2. PICK h : MergingRun(h, groups, place, delta)
  BY MergedRun
<1>3. /\ h[0] = {groups} /\ Merged(groups, place, delta) = h[n]
      /\ \A i \in 1..n : h[i] = MergedAll(h[i - 1], place, delta[i])
  BY <1>2 DEF MergingRun
<1> DEFINE good == {i \in 0..n : h[i] \subseteq ContentGroups}
<1> HIDE DEF n
<1>4. ASSUME NEW i \in 1..n, i - 1 \in good PROVE i \in good
  <2>1. h[i - 1] \subseteq ContentGroups /\ delta[i] \in ContentRow /\ i \in 0..n
    BY <1>1, <1>4
  <2>2. MergedAll(h[i - 1], place, delta[i]) \subseteq ContentGroups
    BY <2>1, MergedContentTyped DEF MergedAll
  <2> QED BY <1>3, <2>1, <2>2
<1>5. 0 \in good
  BY <1>1, <1>3
<1>6. \A i \in 0..n : i \in good
  <2> HIDE DEF good
  <2> QED BY <1>1, <1>4, <1>5, ReachedAll
<1> QED BY <1>1, <1>3, <1>6

LEMMA RemoveGroupTyped ==
  ASSUME NEW groups \in ContentGroups, NEW name
  PROVE  RemoveGroup(groups, name) \subseteq ContentGroups
<1> DEFINE p == GroupIndex(groups, name)
<1>1. p \in 0..Len(groups) /\ Len(groups) \in Nat
  BY GroupIndexFound, LenProperties DEF ContentGroups
<1>2. ASSUME p # 0 PROVE RemoveAt(groups, p) \in ContentGroups
  <2>1. p \in 1..Len(groups)
    BY <1>1, <1>2
  <2> HIDE DEF p
  <2> QED BY <2>1, RemoveAtTyped DEF ContentGroups
<1> QED BY <1>2 DEF RemoveGroup, HasGroup

LEMMA MergedGroupTyped ==
  ASSUME NEW groups \in ContentGroups, NEW place, NEW delta \in ContentGroup
  PROVE  MergedGroup(groups, place, delta) \subseteq ContentGroups
<1>1. Append(groups, delta) \in ContentGroups
  BY AppendProperties DEF ContentGroups
<1>2. /\ RemoveGroup(groups, LabelOf(delta).text) \subseteq ContentGroups
      /\ Merged(groups, place, delta) \subseteq ContentGroups
  BY RemoveGroupTyped, MergedTyped
<1> QED BY <1>1, <1>2 DEF MergedGroup

\* One group of a delta merged into every outcome there may be, at most one.
DeltaAll(outcomes, original, delta) ==
  UNION {MergedGroup(gs, PlaceOf(original, LabelOf(delta)), delta) : gs \in outcomes}

LEMMA DeltaAllOne ==
  ASSUME NEW original, NEW delta
  PROVE  /\ DeltaAll({}, original, delta) = {}
         /\ \A groups : DeltaAll({groups}, original, delta)
                          = MergedGroup(groups, PlaceOf(original, LabelOf(delta)), delta)
BY DEF DeltaAll

Startable(original) == {gs \in {original} : \A i \in DOMAIN gs : LabelOf(gs[i]).kind = "string"}

LEMMA StartableWhen ==
  ASSUME NEW original
  PROVE  Startable(original) = IF TextLabelled(original) THEN {original} ELSE {}
BY DEF Startable, TextLabelled

IsFollowing(f, n, original, deltas) ==
  f = [s \in SUBSET (1..n) |->
         IF s = {} THEN Startable(original) ELSE DeltaAll(f[s \ {Max(s)}], original, deltas[Max(s)])]

\* The groups into which those of a delta are merged one by one.
MergeRun(h, original, deltas) ==
  /\ h[0] = Startable(original)
  /\ \A i \in 1..Len(deltas) : h[i] = DeltaAll(h[i - 1], original, deltas[i])
  /\ \A i \in 0..Len(deltas) : h[i] \subseteq ContentGroups
  /\ Merge(original, deltas) = h[Len(deltas)]

(* Merge goes through the groups of the delta one by one. *)
LEMMA MergeRuns ==
  ASSUME NEW original \in ContentGroups, NEW deltas \in ContentGroups
  PROVE  \E h : MergeRun(h, original, deltas)
<1> DEFINE Sets == SUBSET ContentGroups
           F == [p \in Sets \X ContentGroup |-> DeltaAll(p[1], original, p[2])]
           n == Len(deltas)
           f == CHOOSE g : IsFollowing(g, n, original, deltas)
           h == [i \in 0..n |-> f[1..i]]
           good == {i \in 0..n : h[i] \in Sets}
<1>1. \A some \in Sets, delta \in ContentGroup : DeltaAll(some, original, delta) \in Sets
  BY MergedGroupTyped DEF DeltaAll
<1>2. n \in Nat /\ DOMAIN deltas = 1..n /\ deltas \in [1..n -> ContentGroup]
  BY LenProperties DEF ContentGroups
<1> HIDE DEF n
<1>3. Merge(original, deltas) = f[1..n]
  BY <1>2 DEF Merge, FoldLeft, MapThenFoldSet, IsFollowing, DeltaAll, Startable
<1>4. Startable(original) \in Sets
  BY DEF Startable
<1> HIDE DEF Sets, f
<1>5. F \in [Sets \X ContentGroup -> Sets]
  BY <1>1
<1>6. \A some \in Sets, delta \in ContentGroup : F[<<some, delta>>] = DeltaAll(some, original, delta)
  OBVIOUS
<1> HIDE DEF F
<1>7. PICK g : Unfolds(g, Sets, ContentGroup, Startable(original), F, n, deltas)
  BY <1>2, <1>4, <1>5, FoldUnfolds
<1>8. IsFollowing(g, n, original, deltas)
  BY <1>6, <1>7 DEF Unfolds, IsFollowing
<1>9. IsFollowing(f, n, original, deltas)
  BY <1>8 DEF f
<1>10. f[{}] = Startable(original) /\ 1..0 = {}
  BY <1>9 DEF IsFollowing
<1>11. ASSUME NEW i \in 1..n PROVE f[1..i] = DeltaAll(f[1..(i - 1)], original, deltas[i])
  <2>1. /\ 1..i \in SUBSET (1..n) /\ 1..i # {}
        /\ Max(1..i) = i /\ (1..i) \ {Max(1..i)} = 1..(i - 1)
    BY <1>2, PrefixOfFold
  <2> QED BY <1>9, <2>1 DEF IsFollowing
<1>12. /\ h[0] = Startable(original) /\ h[n] = f[1..n]
       /\ \A i \in 1..n : h[i] = f[1..i] /\ h[i - 1] = f[1..(i - 1)]
  BY <1>2, <1>10
<1> HIDE DEF h
<1>13. \A i \in 1..n : h[i] = DeltaAll(h[i - 1], original, deltas[i])
  BY <1>11, <1>12
<1>14. ASSUME NEW i \in 0..n PROVE h[i] \in Sets
  <2>1. 0 \in good /\ \A j \in 1..n : j - 1 \in good => j \in good
    BY <1>1, <1>2, <1>4, <1>12, <1>13
  <2> HIDE DEF good
  <2>2. i \in good
    BY <1>2, <2>1, ReachedAll
  <2> QED BY <2>2 DEF good
<1>15. MergeRun(h, original, deltas)
  BY <1>3, <1>12, <1>13, <1>14 DEF n, MergeRun, Sets
<1> QED BY <1>15

LEMMA DeltaGroups ==
  ASSUME NEW deltas \in ContentGroups, SaysOnce(deltas)
  PROVE  /\ Len(deltas) \in Nat /\ DOMAIN deltas = 1..Len(deltas)
         /\ \A i \in 1..Len(deltas) :
              /\ deltas[i] \in ContentGroup /\ OneEach(deltas[i])
              /\ LabelOf(deltas[i]).kind = "string" => LabelOf(deltas[i]) = String(LabelOf(deltas[i]).text)
         /\ \A i, j \in 1..Len(deltas) :
              LabelOf(deltas[i]) = LabelOf(deltas[j]) => i = j \/ LabelOf(deltas[i]) = String(NoText)
<1>1. /\ Len(deltas) \in Nat /\ DOMAIN deltas = 1..Len(deltas)
      /\ \A i \in 1..Len(deltas) : deltas[i] \in ContentGroup /\ OneEach(deltas[i])
  BY GroupOfGroups DEF SaysOnce, OneEach
<1>2. ASSUME NEW i \in 1..Len(deltas), LabelOf(deltas[i]).kind = "string"
      PROVE  LabelOf(deltas[i]) = String(LabelOf(deltas[i]).text)
  <2>1. LabelOf(deltas[i]) \in FlexValue
    BY <1>1, LabelSaid
  <2> QED BY <1>2, <2>1 DEF FlexValue, String
<1> QED BY <1>1, <1>2 DEF SaysOnce

(* Groups without a name are added after those of the original. *)
LEMMA AppendAtEnd ==
  ASSUME NEW s \in ContentGroups, NEW t \in ContentGroups, NEW group \in ContentGroup
  PROVE  WithUnnamed(s \o t, group) = s \o WithUnnamed(t, group)
<1>1. s \o t \in ContentGroups /\ <<group>> \in ContentGroups
  BY ConcatProperties DEF ContentGroups
<1>2. Append(s \o t, group) = (s \o t) \o <<group>> /\ Append(t, group) = t \o <<group>>
  BY <1>1, AppendIsConcat DEF ContentGroups
<1>3. (s \o t) \o <<group>> = s \o (t \o <<group>>)
  BY <1>1, ConcatAssociative DEF ContentGroups
<1> QED BY <1>2, <1>3 DEF WithUnnamed

LEMMA UnnamedTyped == \A groups \in ContentGroups : Unnamed(groups) \in ContentGroups
<1> SUFFICES ASSUME NEW groups \in ContentGroups PROVE Unnamed(groups) \in ContentGroups
  OBVIOUS
<1>1. PICK h : GatheringRun(h, groups)
  BY UnnamedRun
<1>2. Len(groups) \in 0..Len(groups)
  BY GroupOfGroups
<1> QED BY <1>1, <1>2 DEF GatheringRun

\* A group of a delta that cannot be merged into this original.
Stops(original, delta) ==
  \/ LabelOf(delta).kind # "string"
  \/ LabelOf(delta).text # NoText /\ Refused(Heard(original, LabelOf(delta).text), delta)

(***************************************************************************)
(* What the groups are after the first i of a delta.  That a label stays   *)
(* at its place in the original is why the places may be looked up before; *)
(* a deletion ends it.                                                     *)
(***************************************************************************)
Followed(groups, i, original, deltas, unnamed) ==
  /\ Clear(groups)
  /\ Unnamed(groups) = Unnamed(original) \o unnamed[i]
  /\ (\A j \in 1..i : ~Deletes(deltas[j])) =>
       \A k \in DOMAIN original : k \in DOMAIN groups /\ LabelOf(groups[k]) = LabelOf(original[k])
  /\ \A name : name # NoText =>
       /\ \A j \in 1..i : LabelOf(deltas[j]) = String(name) =>
            Heard(groups, name) = Retold(Heard(original, name), deltas[j])
       /\ (\A j \in 1..i : LabelOf(deltas[j]) # String(name)) => Heard(groups, name) = Heard(original, name)

(* Until something is deleted, the place looked up at the start is that of the group. *)
LEMMA PlaceStays ==
  ASSUME NEW original, Clear(original), NEW deltas \in ContentGroups, SaysOnce(deltas), DeletesLast(deltas),
         NEW unnamed, NEW i \in 1..Len(deltas), NEW mid, Followed(mid, i - 1, original, deltas, unnamed),
         NEW name, name # NoText, LabelOf(deltas[i]) = String(name)
  PROVE  /\ Heard(mid, name) = Heard(original, name)
         /\ ~Deletes(deltas[i]) => Places(mid, PlaceOf(original, String(name)), name)
<1> DEFINE n == Len(deltas)
           place == PlaceOf(original, String(name))
<1>1. /\ n \in Nat /\ DOMAIN deltas = 1..n
      /\ \A k, j \in 1..n : LabelOf(deltas[k]) = LabelOf(deltas[j]) => k = j \/ LabelOf(deltas[k]) = String(NoText)
  BY DeltaGroups
<1>2. \A j \in 1..(i - 1) : j \in 1..n /\ j < i
  BY <1>1
<1> HIDE DEF n
<1>3. \A j \in 1..(i - 1) : LabelOf(deltas[j]) # String(name)
  <2>1. i \in 1..n /\ String(name) # String(NoText)
    BY NamesDiffer DEF n
  <2>2. \A j \in 1..(i - 1) : j # i
    BY <1>1, <2>1
  <2> QED BY <1>1, <1>2, <2>1, <2>2
<1>4. Heard(mid, name) = Heard(original, name)
  BY <1>3 DEF Followed
<1>5. ASSUME ~Deletes(deltas[i])
      PROVE  Places(mid, place, name)
  <2>1. i \in DOMAIN deltas
    BY <1>1 DEF n
  <2>2. \A j \in 1..(i - 1) : ~Deletes(deltas[j])
    BY <1>1, <1>2, <1>5, <2>1 DEF DeletesLast, Deletes
  <2>3. \A k \in DOMAIN original : k \in DOMAIN mid /\ LabelOf(mid[k]) = LabelOf(original[k])
    BY <2>2 DEF Followed
  <2>4. /\ place = 0 <=> \A k \in DOMAIN original : LabelOf(original[k]) # String(name)
        /\ place # 0 => place \in DOMAIN original /\ LabelOf(original[place]) = String(name)
    BY PlaceFound
  <2> HIDE DEF place
  <2>5. place = 0 => Heard(original, name) = {}
    BY <2>4 DEF Heard
  <2> QED BY <1>4, <2>3, <2>4, <2>5 DEF Places
<1> QED BY <1>4, <1>5 DEF place

(* The next group of the delta stops the merge or is followed. *)
LEMMA FollowOne ==
  ASSUME NEW original, Clear(original), NEW deltas \in ContentGroups, SaysOnce(deltas), DeletesLast(deltas),
         NEW unnamed, GatheringRun(unnamed, deltas),
         NEW i \in 1..Len(deltas), NEW mid, Followed(mid, i - 1, original, deltas, unnamed)
  PROVE  /\ Stops(original, deltas[i]) => DeltaAll({mid}, original, deltas[i]) = {}
         /\ ~Stops(original, deltas[i]) =>
              \E new : /\ DeltaAll({mid}, original, deltas[i]) = {new}
                       /\ Followed(new, i, original, deltas, unnamed)
<1> DEFINE n == Len(deltas)
           delta == deltas[i]
           name == LabelOf(delta).text
           place == PlaceOf(original, LabelOf(delta))
<1>1. /\ n \in Nat /\ DOMAIN deltas = 1..n /\ i \in 1..n
      /\ delta \in ContentGroup /\ OneEach(delta)
      /\ \A k, j \in 1..n : LabelOf(deltas[k]) = LabelOf(deltas[j]) => k = j \/ LabelOf(deltas[k]) = String(NoText)
      /\ LabelOf(delta).kind = "string" => LabelOf(delta) = String(name)
  BY DeltaGroups
<1>2. DeltaAll({mid}, original, delta) = MergedGroup(mid, place, delta)
  BY DeltaAllOne
<1>3. Clear(mid)
  BY DEF Followed
<1>4. CASE LabelOf(delta).kind # "string"
  <2>1. MergedGroup(mid, place, delta) = {}
    BY <1>4 DEF MergedGroup
  <2> QED BY <1>2, <1>4, <2>1 DEF Stops
<1>5. CASE LabelOf(delta).kind = "string"
  <2>1. LabelOf(delta) = String(name)
    BY <1>1, <1>5
  <2> HIDE DEF name
  <2>2. name # NoText =>
          /\ Heard(mid, name) = Heard(original, name)
          /\ ~Deletes(delta) => Places(mid, place, name)
    <3>1. place = PlaceOf(original, String(name))
      BY <2>1
    <3> HIDE DEF place
    <3>2. ASSUME name # NoText
          PROVE  /\ Heard(mid, name) = Heard(original, name)
                 /\ ~Deletes(deltas[i]) => Places(mid, PlaceOf(original, String(name)), name)
      BY <2>1, <3>2, PlaceStays
    <3> QED BY <3>1, <3>2
  <2>3. Stops(original, delta) <=> name # NoText /\ Refused(Heard(mid, name), delta)
    BY <1>5, <2>2 DEF Stops, name
  <2> HIDE DEF place
  <2>4. /\ name # NoText /\ Refused(Heard(mid, name), delta) => MergedGroup(mid, place, delta) = {}
        /\ name = NoText \/ ~Refused(Heard(mid, name), delta) =>
             \E new : MergedGroup(mid, place, delta) = {new} /\ Told(mid, name, delta, new)
    <3> HIDE DEF delta
    <3> QED BY <1>1, <1>3, <2>1, <2>2, MergedGroupTold
  <2>5. ASSUME NEW new, Told(mid, name, delta, new) PROVE Followed(new, i, original, deltas, unnamed)
    <3>1. Unnamed(new) = Unnamed(original) \o unnamed[i]
      <4>1. Unnamed(new) = WithUnnamed(Unnamed(original) \o unnamed[i - 1], delta)
        BY <2>5 DEF Told, Followed
      <4>2. i - 1 \in 0..n
        BY <1>1
      <4>3. unnamed[i - 1] \in ContentGroups /\ unnamed[i] = WithUnnamed(unnamed[i - 1], delta)
        BY <4>2 DEF GatheringRun
      <4>4. Unnamed(original) \in ContentGroups
        BY UnnamedTyped DEF Clear
      <4> HIDE DEF delta
      <4>5. WithUnnamed(Unnamed(original) \o unnamed[i - 1], delta)
              = Unnamed(original) \o WithUnnamed(unnamed[i - 1], delta)
        BY <1>1, <4>3, <4>4, AppendAtEnd
      <4> QED BY <4>1, <4>3, <4>5
    <3>2. i \in Nat /\ (\A j : j \in 1..i <=> j \in 1..(i - 1) \/ j = i)
      BY <1>1
    <3>3. ASSUME \A j \in 1..i : ~Deletes(deltas[j])
          PROVE  \A k \in DOMAIN original : k \in DOMAIN new /\ LabelOf(new[k]) = LabelOf(original[k])
      <4>1. \A k \in DOMAIN original : k \in DOMAIN mid /\ LabelOf(mid[k]) = LabelOf(original[k])
        BY <3>2, <3>3 DEF Followed
      <4>2. \A k \in DOMAIN mid : k \in DOMAIN new /\ LabelOf(new[k]) = LabelOf(mid[k])
        BY <2>5, <3>2, <3>3 DEF Told
      <4> QED BY <4>1, <4>2
    <3>4. ASSUME NEW other, other # NoText
          PROVE  /\ \A j \in 1..i : LabelOf(deltas[j]) = String(other) =>
                      Heard(new, other) = Retold(Heard(original, other), deltas[j])
                 /\ (\A j \in 1..i : LabelOf(deltas[j]) # String(other)) => Heard(new, other) = Heard(original, other)
      <4>1. Heard(new, other) = IF other = name THEN Retold(Heard(mid, name), delta) ELSE Heard(mid, other)
        BY <2>5, <3>4 DEF Told
      <4>2. CASE other = name
        <5>1. Heard(new, other) = Retold(Heard(original, other), deltas[i])
          BY <2>2, <3>4, <4>1, <4>2
        <5>2. \A j \in 1..i : LabelOf(deltas[j]) = String(other) => j = i
          <6>1. String(other) # String(NoText) /\ LabelOf(deltas[i]) = String(other)
            BY <2>1, <3>4, <4>2, NamesDiffer
          <6>2. \A j \in 1..i : j \in 1..n
            BY <1>1
          <6> QED BY <1>1, <6>1, <6>2
        <5>3. LabelOf(deltas[i]) = String(other) /\ i \in 1..i
          BY <2>1, <3>2, <4>2
        <5> QED BY <5>1, <5>2, <5>3
      <4>3. CASE other # name
        <5>1. LabelOf(deltas[i]) # String(other)
          BY <2>1, <4>3, NamesDiffer
        <5>2. /\ \A j \in 1..(i - 1) : LabelOf(deltas[j]) = String(other) =>
                   Heard(mid, other) = Retold(Heard(original, other), deltas[j])
              /\ (\A j \in 1..(i - 1) : LabelOf(deltas[j]) # String(other)) =>
                   Heard(mid, other) = Heard(original, other)
          BY <3>4 DEF Followed
        <5> QED BY <3>2, <4>1, <4>3, <5>1, <5>2
      <4> QED BY <4>2, <4>3
    <3>5. Clear(new)
      BY <2>5 DEF Told
    <3> QED BY <3>1, <3>3, <3>4, <3>5 DEF Followed
  <2> HIDE DEF delta
  <2> QED BY <1>2, <2>3, <2>4, <2>5 DEF delta
<1> QED BY <1>4, <1>5

(* A merge has no outcome if a group stops it, and one if none does. *)
LEMMA MergeFollows ==
  ASSUME NEW original, Clear(original), NEW deltas \in ContentGroups, SaysOnce(deltas), DeletesLast(deltas),
         NEW unnamed, GatheringRun(unnamed, deltas)
  PROVE  /\ (\E i \in 1..Len(deltas) : Stops(original, deltas[i])) => Merge(original, deltas) = {}
         /\ (\A i \in 1..Len(deltas) : ~Stops(original, deltas[i])) =>
              \E new : /\ Merge(original, deltas) = {new}
                       /\ Followed(new, Len(deltas), original, deltas, unnamed)
<1> DEFINE n == Len(deltas)
           Fails(i) == \E j \in 1..i : Stops(original, deltas[j])
           Follows(gs, i) == Followed(gs, i, original, deltas, unnamed)
<1>1. n \in Nat /\ original \in ContentGroups
  BY DeltaGroups DEF Clear
<1>2. PICK h : MergeRun(h, original, deltas)
  BY <1>1, MergeRuns
<1>3. /\ h[0] = Startable(original) /\ Merge(original, deltas) = h[n]
      /\ \A i \in 1..n : h[i] = DeltaAll(h[i - 1], original, deltas[i])
  BY <1>2 DEF MergeRun
<1> DEFINE Reached(i) == /\ Fails(i) => h[i] = {}
                         /\ ~Fails(i) => \E gs : h[i] = {gs} /\ Follows(gs, i)
           good == {i \in 0..n : Reached(i)}
<1>4. \A i \in 1..n : \A gs : Follows(gs, i - 1) =>
        /\ Stops(original, deltas[i]) => DeltaAll({gs}, original, deltas[i]) = {}
        /\ ~Stops(original, deltas[i]) =>
             \E new : DeltaAll({gs}, original, deltas[i]) = {new} /\ Follows(new, i)
  BY FollowOne
<1> HIDE DEF n
<1>5. Reached(0)
  <2>1. h[0] = {original}
    BY <1>3, StartableWhen DEF Clear
  <2>2. Unnamed(original) = Unnamed(original) \o << >>
    BY <1>1, UnnamedTyped, ConcatEmptySeq DEF ContentGroups
  <2>3. unnamed[0] = << >>
    BY DEF GatheringRun
  <2>4. Follows(original, 0)
    BY <2>2, <2>3 DEF Followed
  <2>5. ~Fails(0)
    OBVIOUS
  <2> HIDE DEF Follows, Fails
  <2> QED BY <2>1, <2>4, <2>5
<1> HIDE DEF Follows
<1>6. ASSUME NEW i \in 1..n, Reached(i - 1) PROVE Reached(i)
  <2>1. \A j : j \in 1..i <=> j \in 1..(i - 1) \/ j = i
    BY <1>1
  <2>2. Fails(i) <=> Fails(i - 1) \/ Stops(original, deltas[i])
    BY <2>1
  <2> HIDE DEF Fails
  <2>3. CASE Fails(i - 1)
    BY <1>3, <1>6, <2>2, <2>3, DeltaAllOne
  <2>4. CASE ~Fails(i - 1)
    <3>1. PICK gs : h[i - 1] = {gs} /\ Follows(gs, i - 1)
      BY <1>6, <2>4
    <3>2. h[i] = DeltaAll({gs}, original, deltas[i])
      BY <1>3, <3>1
    <3> QED BY <1>4, <2>2, <2>4, <3>1, <3>2
  <2> QED BY <2>3, <2>4
<1> HIDE DEF Reached
<1>7. n \in good
  <2>1. 0 \in good /\ \A i \in 1..n : i - 1 \in good => i \in good
    BY <1>1, <1>5, <1>6
  <2> HIDE DEF good
  <2>2. \A i \in 0..n : i \in good
    BY <1>1, <2>1, ReachedAll
  <2> QED BY <1>1, <2>2
<1>8. Reached(n)
  BY <1>7
<1> QED BY <1>3, <1>8 DEF Reached, Follows, n

----------------------------------------------------------------------------
(* What a merge means. *)

LEMMA MeaningParts ==
  ASSUME NEW groups
  PROVE  /\ Meaning(groups).named = [label \in Named(groups) |-> Meaning(groups).named[label]]
         /\ DOMAIN Meaning(groups).named = Named(groups)
         /\ \A name \in Named(groups) : Meaning(groups).named[name] = Says(groups[GroupIndex(groups, name)])
         /\ Meaning(groups) = [named |-> Meaning(groups).named, loose |-> Unnamed(groups)]
BY DEF Meaning

(* The meaning of a name is what its groups say. *)
LEMMA MeaningHeard ==
  ASSUME NEW groups, Clear(groups), NEW name
  PROVE  /\ name \in Named(groups) <=> name # NoText /\ Heard(groups, name) # {}
         /\ name \in Named(groups) => Heard(groups, name) = {Meaning(groups).named[name]}
<1>1. NoText \notin Named(groups)
  BY DEF Named
<1>2. CASE name # NoText
  <2>1. name \in Named(groups) <=> Heard(groups, name) # {}
    BY <1>2, GroupNamed
  <2>2. ASSUME name \in Named(groups) PROVE Heard(groups, name) = {Meaning(groups).named[name]}
    <3>1. Heard(groups, name) = {Says(groups[GroupIndex(groups, name)])}
      BY <1>2, <2>1, <2>2, GroupNamed
    <3>2. Meaning(groups).named[name] = Says(groups[GroupIndex(groups, name)])
      BY <2>2, MeaningParts
    <3> QED BY <3>1, <3>2
  <2> QED BY <1>2, <2>1, <2>2
<1> QED BY <1>1, <1>2

(* The group of a delta that has a name. *)
LEMMA DeltaNamed ==
  ASSUME NEW deltas, Clear(deltas), NEW name, name # NoText,
         NEW i \in DOMAIN deltas, LabelOf(deltas[i]) = String(name)
  PROVE  /\ name \in Named(deltas) /\ Meaning(deltas).named[name] = Says(deltas[i])
         /\ name \in Tagged(deltas, "delete_group") <=> Deletes(deltas[i])
         /\ name \in Tagged(deltas, "skip_from_merge") <=> Skips(deltas[i])
<1>1. Heard(deltas, name) = {Says(deltas[i])}
  BY GroupNamed
<1>2. name \in Named(deltas) /\ Meaning(deltas).named[name] = Says(deltas[i])
  <2>1. name \in Named(deltas)
    BY <1>1, MeaningHeard
  <2>2. Heard(deltas, name) = {Meaning(deltas).named[name]}
    BY <2>1, MeaningHeard
  <2> QED BY <1>1, <2>1, <2>2
<1>3. GroupIndex(deltas, name) = i
  <2>1. /\ GroupIndex(deltas, name) \in DOMAIN deltas
        /\ LabelOf(deltas[GroupIndex(deltas, name)]) = String(name)
    BY <1>1, GroupNamed
  <2>2. String(name) # String(NoText)
    BY NamesDiffer
  <2> QED BY <2>1, <2>2, ClearGroups
<1> QED BY <1>2, <1>3 DEF Tagged, Deletes, Skips

LEMMA NamedHasGroup ==
  ASSUME NEW groups, Clear(groups), NEW name \in Named(groups)
  PROVE  name # NoText /\ \E i \in DOMAIN groups : LabelOf(groups[i]) = String(name)
<1>1. name # NoText /\ Heard(groups, name) # {}
  BY MeaningHeard
<1> QED BY <1>1 DEF Heard

(* A merge is refused when what it deletes or takes away is not there. *)
LEMMA MergeableWhen ==
  ASSUME NEW original, Clear(original), NEW deltas, Clear(deltas)
  PROVE  Mergeable(Meaning(original), deltas) <=> \A i \in DOMAIN deltas : ~Stops(original, deltas[i])
<1> DEFINE named == Meaning(original).named
           said == Meaning(deltas).named
           deleted == Tagged(deltas, "delete_group")
           skipped == Tagged(deltas, "skip_from_merge")
           Missing(label) == {l \in DOMAIN said[label] : said[label][l] = Nothing} \ DOMAIN named[label]
           Stopping(label) == \/ label \in deleted /\ label \notin Named(original)
                              \/ /\ label \notin deleted \cup skipped
                                 /\ label \in Named(original) /\ Missing(label) # {}
<1>1. DOMAIN named = Named(original) /\ DOMAIN said = Named(deltas)
  BY DEF Meaning
<1>2. deleted \subseteq Named(deltas)
  BY DEF Tagged
<1>3. Mergeable(Meaning(original), deltas) <=> \A label \in Named(deltas) : ~Stopping(label)
  <2>1. Mergeable(Meaning(original), deltas) <=>
          /\ deleted \subseteq DOMAIN named
          /\ \A label \in DOMAIN said \ (deleted \cup skipped) :
               label \in DOMAIN named =>
                 {l \in DOMAIN said[label] : said[label][l] = Nothing} \subseteq DOMAIN named[label]
    BY DEF Mergeable
  <2> HIDE DEF named, said, deleted, skipped
  <2> QED BY <1>1, <1>2, <2>1
<1>4. ASSUME NEW name, name # NoText, NEW i \in DOMAIN deltas, LabelOf(deltas[i]) = String(name)
      PROVE  name \in Named(deltas) /\ (Stopping(name) <=> Stops(original, deltas[i]))
  <2>1. /\ name \in Named(deltas) /\ said[name] = Says(deltas[i])
        /\ name \in deleted <=> Deletes(deltas[i])
        /\ name \in skipped <=> Skips(deltas[i])
    BY <1>4, DeltaNamed
  <2>2. /\ name \in Named(original) <=> Heard(original, name) # {}
        /\ name \in Named(original) => Heard(original, name) = {named[name]}
    BY <1>4, MeaningHeard
  <2>3. Stops(original, deltas[i]) <=> Refused(Heard(original, name), deltas[i])
    BY <1>4 DEF Stops, String
  <2>4. Missing(name) # {} <=> TakesFrom(named[name], deltas[i])
    BY <2>1 DEF TakesFrom
  <2> HIDE DEF named, said, deleted, skipped, Missing
  <2> QED BY <2>1, <2>2, <2>3, <2>4 DEF Refused
<1>5. ASSUME NEW i \in DOMAIN deltas
      PROVE  /\ LabelOf(deltas[i]) = String(LabelOf(deltas[i]).text)
             /\ LabelOf(deltas[i]).text = NoText => ~Stops(original, deltas[i])
  BY ClearGroups, NamesDiffer DEF Stops, Clear, TextLabelled
<1> HIDE DEF Stopping
<1> QED BY <1>3, <1>4, <1>5, NamedHasGroup

\* The names in a merged meaning and what they say.
MeansAt(merged, named, said, deleted, skipped, name) ==
  /\ name \in DOMAIN merged <=>
       /\ name \in DOMAIN named \/ name \in DOMAIN said
       /\ name \notin deleted
       /\ name \in skipped => name \in DOMAIN named
  /\ name \in DOMAIN merged =>
       merged[name] =
         IF name \in skipped \/ (name \in DOMAIN named /\ name \notin DOMAIN said) THEN named[name]
         ELSE IF name \in DOMAIN named THEN Updated(named[name], said[name])
         ELSE said[name]

LEMMA MergedMeaningParts ==
  ASSUME NEW original, NEW deltas
  PROVE  LET merged == MergedMeaning(Meaning(original), deltas) IN
         /\ merged = [named |-> merged.named, loose |-> Unnamed(original) \o Unnamed(deltas)]
         /\ merged.named = [name \in DOMAIN merged.named |-> merged.named[name]]
         /\ \A name : MeansAt(merged.named, Meaning(original).named, Meaning(deltas).named,
                              Tagged(deltas, "delete_group"), Tagged(deltas, "skip_from_merge"), name)
<1> DEFINE named   == Meaning(original).named
           said    == Meaning(deltas).named
           deleted == Tagged(deltas, "delete_group")
           skipped == Tagged(deltas, "skip_from_merge")
           merged  == MergedMeaning(Meaning(original), deltas)
           labels  == ((DOMAIN named \cup DOMAIN said) \ deleted) \ (skipped \ DOMAIN named)
           Of(name) == IF name \in skipped \cup (DOMAIN named \ DOMAIN said) THEN named[name]
                       ELSE IF name \in DOMAIN named THEN Updated(named[name], said[name])
                       ELSE said[name]
<1>1. Meaning(original).loose = Unnamed(original) /\ Meaning(deltas).loose = Unnamed(deltas)
  BY DEF Meaning
<1>2. merged = [named |-> [name \in labels |-> Of(name)], loose |-> Unnamed(original) \o Unnamed(deltas)]
  BY <1>1 DEF MergedMeaning
<1>3. merged.named = [name \in labels |-> Of(name)]
  BY <1>2
<1>4. merged = [named |-> merged.named, loose |-> Unnamed(original) \o Unnamed(deltas)]
  BY <1>2
<1>5. merged.named = [name \in DOMAIN merged.named |-> merged.named[name]]
  BY <1>3
<1>6. DOMAIN merged.named = labels /\ \A name \in labels : merged.named[name] = Of(name)
  BY <1>3
<1> HIDE DEF named, said, deleted, skipped, merged
<1>7. \A name : MeansAt(merged.named, named, said, deleted, skipped, name)
  BY <1>6 DEF MeansAt
<1> QED BY <1>4, <1>5, <1>7 DEF named, said, deleted, skipped, merged

\* What a name says after a merge, in the groups and in the meaning.
Agrees(heard, named, name) ==
  /\ name \in DOMAIN named <=> heard # {}
  /\ name \in DOMAIN named => heard = {named[name]}

(* A name the delta does not mention means what it meant. *)
LEMMA NamesNotMerged ==
  ASSUME NEW original, Clear(original), NEW deltas, Clear(deltas), NEW name, name # NoText,
         \A i \in DOMAIN deltas : LabelOf(deltas[i]) # String(name)
  PROVE  Agrees(Heard(original, name), MergedMeaning(Meaning(original), deltas).named, name)
<1> DEFINE named   == Meaning(original).named
           said    == Meaning(deltas).named
           deleted == Tagged(deltas, "delete_group")
           skipped == Tagged(deltas, "skip_from_merge")
           merged  == MergedMeaning(Meaning(original), deltas)
<1>1. name \notin Named(deltas)
  BY NamedHasGroup
<1>2. DOMAIN named = Named(original) /\ DOMAIN said = Named(deltas)
  BY MeaningParts
<1>3. name \notin deleted /\ name \notin skipped
  BY <1>1 DEF Tagged
<1>4. /\ name \in DOMAIN named <=> Heard(original, name) # {}
      /\ name \in DOMAIN named => Heard(original, name) = {named[name]}
  BY <1>2, MeaningHeard
<1>5. MeansAt(merged.named, named, said, deleted, skipped, name)
  BY MergedMeaningParts
<1> HIDE DEF named, said, deleted, skipped, merged
<1>6. /\ name \in DOMAIN merged.named <=> name \in DOMAIN named
      /\ name \in DOMAIN merged.named => merged.named[name] = named[name]
  BY <1>1, <1>2, <1>3, <1>5 DEF MeansAt
<1> QED BY <1>4, <1>6 DEF Agrees, merged

(* A name the delta mentions means what its group makes of it. *)
LEMMA NamesMerged ==
  ASSUME NEW original, Clear(original), NEW deltas, Clear(deltas), NEW name, name # NoText,
         NEW i \in DOMAIN deltas, LabelOf(deltas[i]) = String(name)
  PROVE  Agrees(Retold(Heard(original, name), deltas[i]), MergedMeaning(Meaning(original), deltas).named, name)
<1> DEFINE named   == Meaning(original).named
           said    == Meaning(deltas).named
           deleted == Tagged(deltas, "delete_group")
           skipped == Tagged(deltas, "skip_from_merge")
           merged  == MergedMeaning(Meaning(original), deltas)
           heard   == Heard(original, name)
           delta   == deltas[i]
<1>1. /\ name \in DOMAIN said /\ said[name] = Says(delta)
      /\ name \in deleted <=> Deletes(delta)
      /\ name \in skipped <=> Skips(delta)
  BY DeltaNamed, MeaningParts
<1>2. /\ name \in DOMAIN named <=> heard # {}
      /\ name \in DOMAIN named => heard = {named[name]}
  <2>1. DOMAIN named = Named(original)
    BY MeaningParts
  <2> QED BY <2>1, MeaningHeard
<1>3. MeansAt(merged.named, named, said, deleted, skipped, name)
  BY MergedMeaningParts
<1> HIDE DEF named, said, deleted, skipped, merged, heard, delta
<1>4. Retold(heard, delta) =
        IF Deletes(delta) THEN {} ELSE IF Skips(delta) THEN heard
        ELSE IF heard = {} THEN {Says(delta)} ELSE {Updated(old, Says(delta)) : old \in heard}
  BY DEF Retold
<1>5. CASE Deletes(delta) \/ Skips(delta)
  BY <1>1, <1>2, <1>3, <1>4, <1>5 DEF MeansAt, Agrees, merged, heard, delta
<1>6. CASE ~Deletes(delta) /\ ~Skips(delta) /\ heard = {}
  BY <1>1, <1>2, <1>3, <1>4, <1>6 DEF MeansAt, Agrees, merged, heard, delta
<1>7. CASE ~Deletes(delta) /\ ~Skips(delta) /\ heard # {}
  <2>1. Retold(heard, delta) = {Updated(named[name], Says(delta))}
    BY <1>2, <1>4, <1>7
  <2>2. name \in DOMAIN merged.named /\ merged.named[name] = Updated(named[name], Says(delta))
    BY <1>1, <1>2, <1>3, <1>7 DEF MeansAt
  <2> QED BY <2>1, <2>2 DEF Agrees, merged, heard, delta
<1> QED BY <1>5, <1>6, <1>7

(* Groups in which every name says what it should mean what they should. *)
LEMMA MeaningMerged ==
  ASSUME NEW original, Clear(original), NEW deltas, Clear(deltas), DeletesLast(deltas),
         NEW unnamed, GatheringRun(unnamed, deltas),
         NEW new, Followed(new, Len(deltas), original, deltas, unnamed)
  PROVE  Meaning(new) = MergedMeaning(Meaning(original), deltas)
<1> DEFINE merged == MergedMeaning(Meaning(original), deltas)
           named  == Meaning(new).named
<1>1. Clear(new) /\ Unnamed(new) = Unnamed(original) \o Unnamed(deltas)
  BY DEF Followed, GatheringRun
<1>2. /\ merged = [named |-> merged.named, loose |-> Unnamed(original) \o Unnamed(deltas)]
      /\ merged.named = [name \in DOMAIN merged.named |-> merged.named[name]]
      /\ NoText \notin DOMAIN merged.named
  <2>1. NoText \notin Named(original) /\ NoText \notin Named(deltas)
    BY DEF Named
  <2>2. DOMAIN Meaning(original).named = Named(original) /\ DOMAIN Meaning(deltas).named = Named(deltas)
    BY MeaningParts
  <2>3. NoText \notin DOMAIN merged.named
    <3>1. MeansAt(merged.named, Meaning(original).named, Meaning(deltas).named,
                  Tagged(deltas, "delete_group"), Tagged(deltas, "skip_from_merge"), NoText)
      BY MergedMeaningParts
    <3> HIDE DEF merged
    <3> QED BY <2>1, <2>2, <3>1 DEF MeansAt
  <2>4. /\ merged = [named |-> merged.named, loose |-> Unnamed(original) \o Unnamed(deltas)]
        /\ merged.named = [name \in DOMAIN merged.named |-> merged.named[name]]
    BY MergedMeaningParts
  <2> QED BY <2>3, <2>4
<1>3. /\ Meaning(new) = [named |-> named, loose |-> Unnamed(new)]
      /\ named = [name \in DOMAIN named |-> named[name]]
      /\ DOMAIN named = Named(new) /\ NoText \notin Named(new)
  BY MeaningParts DEF Named
<1> HIDE DEF merged, named
<1>4. ASSUME NEW name, name # NoText PROVE Agrees(Heard(new, name), merged.named, name)
  <2>1. DOMAIN deltas = 1..Len(deltas)
    BY ClearGroups
  <2>2. CASE \A i \in DOMAIN deltas : LabelOf(deltas[i]) # String(name)
    <3>1. Heard(new, name) = Heard(original, name)
      BY <1>4, <2>1, <2>2 DEF Followed
    <3> QED BY <1>4, <2>2, <3>1, NamesNotMerged DEF merged
  <2>3. CASE \E i \in DOMAIN deltas : LabelOf(deltas[i]) = String(name)
    <3>1. PICK i \in DOMAIN deltas : LabelOf(deltas[i]) = String(name)
      BY <2>3
    <3>2. Heard(new, name) = Retold(Heard(original, name), deltas[i])
      BY <1>4, <2>1, <3>1 DEF Followed
    <3> QED BY <1>4, <3>1, <3>2, NamesMerged DEF merged
  <2> QED BY <2>2, <2>3
<1>5. ASSUME NEW name, name # NoText PROVE Agrees(Heard(new, name), named, name)
  BY <1>1, <1>3, <1>5, MeaningHeard DEF Agrees, named
<1>6. ASSUME NEW name
      PROVE  /\ name \in DOMAIN named <=> name \in DOMAIN merged.named
             /\ name \in DOMAIN named => named[name] = merged.named[name]
  <2>1. CASE name = NoText
    BY <1>2, <1>3, <2>1
  <2>2. CASE name # NoText
    BY <1>4, <1>5, <2>2 DEF Agrees
  <2> QED BY <2>1, <2>2
<1>7. DOMAIN named = DOMAIN merged.named
  BY <1>6
<1>8. named = merged.named
  BY <1>2, <1>3, <1>6, <1>7
<1> QED BY <1>1, <1>2, <1>3, <1>8 DEF merged

(* A delta with a group whose label is not a text stops every merge. *)
LEMMA UnreadableStops ==
  ASSUME NEW original, NEW deltas, ~TextLabelled(deltas)
  PROVE  \E i \in DOMAIN deltas : Stops(original, deltas[i])
BY DEF TextLabelled, Stops

(* So does a document with one. *)
LEMMA UnreadableOriginal ==
  ASSUME NEW original \in ContentGroups, ~TextLabelled(original), NEW deltas \in ContentGroups
  PROVE  Merge(original, deltas) = {}
<1> DEFINE n == Len(deltas)
<1>1. PICK h : MergeRun(h, original, deltas)
  BY MergeRuns
<1>2. /\ n \in Nat /\ h[0] = {} /\ Merge(original, deltas) = h[n]
      /\ \A i \in 1..n : h[i] = DeltaAll(h[i - 1], original, deltas[i])
  BY <1>1, StartableWhen, GroupOfGroups DEF MergeRun
<1> DEFINE good == {i \in 0..n : h[i] = {}}
<1> HIDE DEF n
<1>3. 0 \in good
  BY <1>2
<1>4. ASSUME NEW i \in 1..n, i - 1 \in good PROVE i \in good
  <2>1. h[i] = DeltaAll({}, original, deltas[i]) /\ i \in 0..n
    BY <1>2, <1>4
  <2> QED BY <2>1, DeltaAllOne
<1>5. n \in good
  <2> HIDE DEF good
  <2>1. \A i \in 0..n : i \in good
    BY <1>2, <1>3, <1>4, ReachedAll
  <2> QED BY <1>2, <2>1
<1> QED BY <1>2, <1>5

(* Merging does what it means. *)
LEMMA MergeMeansIt ==
  ASSUME NEW original \in ContentGroups, SaysOnce(original),
         NEW deltas \in ContentGroups, SaysOnce(deltas), DeletesLast(deltas)
  PROVE  MergeMeans(original, deltas)
<1> DEFINE meanings == {Meaning(merged) : merged \in Merge(original, deltas)}
           allowed  == TextLabelled(original) /\ TextLabelled(deltas) /\ Mergeable(Meaning(original), deltas)
<1>1. DOMAIN deltas = 1..Len(deltas)
  BY DeltaGroups
<1>2. PICK unnamed : GatheringRun(unnamed, deltas)
  BY UnnamedRun
<1>3. CASE ~TextLabelled(original)
  BY <1>3, UnreadableOriginal DEF MergeMeans
<1>4. CASE TextLabelled(original)
  <2>1. Clear(original)
    BY <1>4 DEF Clear
  <2>2. /\ (\E i \in 1..Len(deltas) : Stops(original, deltas[i])) => Merge(original, deltas) = {}
        /\ (\A i \in 1..Len(deltas) : ~Stops(original, deltas[i])) =>
             \E new : /\ Merge(original, deltas) = {new}
                      /\ Followed(new, Len(deltas), original, deltas, unnamed)
    BY <1>2, <2>1, MergeFollows
  <2>3. CASE ~TextLabelled(deltas)
    BY <1>1, <2>2, <2>3, UnreadableStops DEF MergeMeans
  <2>4. CASE TextLabelled(deltas)
    <3>1. Clear(deltas)
      BY <2>4 DEF Clear
    <3>2. Mergeable(Meaning(original), deltas) <=> \A i \in DOMAIN deltas : ~Stops(original, deltas[i])
      BY <2>1, <3>1, MergeableWhen
    <3>3. CASE Mergeable(Meaning(original), deltas)
      <4>1. PICK new : /\ Merge(original, deltas) = {new}
                       /\ Followed(new, Len(deltas), original, deltas, unnamed)
        BY <1>1, <2>2, <3>2, <3>3
      <4>2. Meaning(new) = MergedMeaning(Meaning(original), deltas)
        BY <1>2, <2>1, <3>1, <4>1, MeaningMerged
      <4> QED BY <1>4, <2>4, <3>3, <4>1, <4>2 DEF MergeMeans
    <3>4. CASE ~Mergeable(Meaning(original), deltas)
      BY <1>1, <2>2, <3>2, <3>4 DEF MergeMeans
    <3> QED BY <3>3, <3>4
  <2> QED BY <2>3, <2>4
<1> QED BY <1>3, <1>4

----------------------------------------------------------------------------
(* The documents there are: what is said of them is about groups of labelled values. *)

DocumentsSay == \A id \in DOMAIN documents : documents[id].content_groups \in ContentGroups

LEMMA GroupsOfTyped ==
  ASSUME GraphInv, DocumentsSay, NEW node \in Nodes
  PROVE  GroupsOf(node) \in ContentGroups
<1>1. Exists(node)
  BY NodesAreStored, ExistsIsStored
<1>2. IdOf(node) \in DOMAIN documents
  BY <1>1, IdOfStored DEF GraphInv
<1> QED BY <1>2 DEF DocumentsSay, GroupsOf

LEMMA EmplacedSays ==
  ASSUME DocumentsSay, NEW groups \in ContentGroups
  PROVE  \A id \in DOMAIN Emplaced(groups) : Emplaced(groups)[id].content_groups \in ContentGroups
<1>1. Document(groups).content_groups = groups
  BY DEF Document
<1>2. Emplaced(groups) = Put(documents, NextKey(documents), Document(groups))
  BY DEF Emplaced
<1> QED BY <1>1, <1>2 DEF DocumentsSay, Put

LEMMA EditSays ==
  ASSUME DocumentsSay, NEW groups \in ContentGroups, NEW node, Edit(node, groups)
  PROVE  DocumentsSay'
<1>1. documents' = Erase(Emplaced(groups), IdOf(node))
  BY DEF Edit, UpdateDocument
<1>2. \A id \in DOMAIN Emplaced(groups) : Emplaced(groups)[id].content_groups \in ContentGroups
  BY EmplacedSays
<1>3. \A id \in DOMAIN documents' : id \in DOMAIN Emplaced(groups) /\ documents'[id] = Emplaced(groups)[id]
  BY <1>1 DEF Erase, Restrict
<1> QED BY <1>2, <1>3 DEF DocumentsSay

LEMMA EraseSays ==
  ASSUME DocumentsSay, NEW node, NEW include_edges, EraseDocument(node, include_edges)
  PROVE  DocumentsSay'
<1>1. documents' = Erase(documents, IdOf(node))
  BY DEF EraseDocument
<1>2. \A id \in DOMAIN documents' : id \in DOMAIN documents /\ documents'[id] = documents[id]
  BY <1>1 DEF Erase, Restrict
<1> QED BY <1>2 DEF DocumentsSay

LEMMA DraftsTyped ==
  /\ Draft \subseteq ContentGroups /\ Delta \subseteq ContentGroups
  /\ \A group \in DraftGroup :
       /\ LabelOf(group).text \in STRING
       /\ \A content \in ToSet(group) : content \in ContentRow
<1>1. Draft \subseteq ContentGroups /\ Delta \subseteq ContentGroups
  BY ClientAssumption DEF ContentGroups, ContentGroup, ContentRow
<1>2. ASSUME NEW group \in DraftGroup PROVE group \in ContentGroup
  <2>1. PICK groups \in Draft : group \in ToSet(groups)
    BY DEF DraftGroup
  <2>2. PICK i \in DOMAIN groups : group = groups[i]
    BY <2>1 DEF ToSet
  <2> QED BY <1>1, <2>2, GroupOfGroups
<1>3. ASSUME NEW group \in ContentGroup
      PROVE  /\ LabelOf(group).text \in STRING
             /\ \A content \in ToSet(group) : content \in ContentRow
  <2>1. /\ Len(group) \in Nat /\ DOMAIN group = 1..Len(group)
        /\ \A i \in DOMAIN group : group[i] \in ContentRow /\ group[i].value \in FlexValue
    BY ContentOfGroup
  <2>2. IndexOf(group, GroupLabel) \in 0..Len(group)
    BY IndexOfFound DEF ContentGroup
  <2> DEFINE i == IndexOf(group, GroupLabel)
  <2>3. LabelOf(group).text \in STRING
    <3>1. CASE i = 0
      BY <3>1, TextAssumption DEF LabelOf, String
    <3>2. CASE i # 0
      <4>1. i \in DOMAIN group /\ LabelOf(group) = group[i].value
        BY <2>1, <2>2, <3>2 DEF LabelOf
      <4> HIDE DEF i
      <4>2. LabelOf(group) \in FlexValue
        BY <2>1, <4>1
      <4> QED BY <4>2 DEF FlexValue
    <3> QED BY <3>1, <3>2
  <2> QED BY <2>1, <2>3 DEF ToSet
<1> QED BY <1>1, <1>2, <1>3

(* What Annotate makes of groups. *)
LEMMA AnnotatedTyped ==
  ASSUME NEW original \in ContentGroups, NEW label \in STRING, NEW content \in ContentRow,
         NEW groups \in WithGroup(original, label), NEW place, NEW changed \in InsertAtPlace(groups, place, content)
  PROVE  changed \in ContentGroups
<1> DEFINE title == <<Content(GroupLabel, String(label))>>
<1>1. title \in ContentGroup
  <2>1. Content(GroupLabel, String(label)) \in ContentRow
    BY TextAssumption DEF Content, ContentRow, String, FlexValue
  <2>2. \A row \in ContentRow : <<row>> \in ContentGroup
    BY DEF ContentGroup
  <2> QED BY <2>1, <2>2
<1>2. groups = original \/ groups = Append(original, title)
  BY DEF WithGroup
<1> HIDE DEF title
<1>3. groups \in ContentGroups
  BY <1>1, <1>2, AppendProperties DEF ContentGroups
<1> QED BY <1>3, InsertAtPlaceTyped

LEMMA DocumentsSayInit == ClientInit => DocumentsSay
BY DEF ClientInit, NoRows, DocumentsSay

LEMMA DocumentsSayStep == GraphInv /\ DocumentsSay /\ [ClientNext]_graphVars => DocumentsSay'
<1> SUFFICES ASSUME GraphInv, DocumentsSay, [ClientNext]_graphVars PROVE DocumentsSay'
  OBVIOUS
<1>1. ASSUME UNCHANGED documents PROVE DocumentsSay'
  BY <1>1 DEF DocumentsSay
<1>2. ASSUME NEW groups \in ContentGroups, documents' = Emplaced(groups) PROVE DocumentsSay'
  BY <1>2, EmplacedSays DEF DocumentsSay
<1>3. ASSUME NEW groups \in Draft, Create(groups) PROVE DocumentsSay'
  BY <1>2, <1>3, DraftsTyped DEF Create
<1>4. ASSUME NEW node, NEW groups \in Draft, NEW name, Attach(node, groups, name) PROVE DocumentsSay'
  BY <1>1, <1>2, <1>4, DraftsTyped DEF Attach, WithDocument
<1>5. ASSUME NEW node, NEW groups \in Draft, Edit(node, groups) PROVE DocumentsSay'
  BY <1>5, DraftsTyped, EditSays
<1>6. ASSUME NEW node \in Nodes, NEW deltas \in Delta, MergeInto(node, deltas) PROVE DocumentsSay'
  <2>1. PICK merged \in Merge(GroupsOf(node), deltas) : Edit(node, merged)
    BY <1>6 DEF MergeInto
  <2>2. GroupsOf(node) \in ContentGroups /\ deltas \in ContentGroups
    BY GroupsOfTyped, DraftsTyped
  <2>3. Len(deltas) \in 0..Len(deltas)
    BY <2>2, GroupOfGroups
  <2>4. PICK h : MergeRun(h, GroupsOf(node), deltas)
    BY <2>2, MergeRuns
  <2>5. merged \in ContentGroups
    BY <2>3, <2>4 DEF MergeRun
  <2> QED BY <2>1, <2>5, EditSays
<1>7. ASSUME NEW node \in Nodes, NEW label, Cut(node, label) PROVE DocumentsSay'
  BY <1>7, GroupsOfTyped, RemoveGroupTyped, EditSays DEF Cut
<1>8. ASSUME NEW node \in Nodes, NEW label \in STRING, NEW content \in ContentRow, Annotate(node, label, content)
      PROVE  DocumentsSay'
  <2>1. PICK groups \in WithGroup(GroupsOf(node), label) :
          \E changed \in InsertAtPlace(groups, GroupIndex(groups, label), content) : Edit(node, changed)
    BY <1>8 DEF Annotate
  <2>2. PICK changed \in InsertAtPlace(groups, GroupIndex(groups, label), content) : Edit(node, changed)
    BY <2>1
  <2>3. changed \in ContentGroups
    BY GroupsOfTyped, AnnotatedTyped
  <2> QED BY <2>2, <2>3, EditSays
<1>9. ASSUME NEW node \in Nodes, NEW label, NEW content,
             Strip(node, label, content.label) \/ StripEqual(node, label, content)
      PROVE  DocumentsSay'
  <2>1. ASSUME NEW changed \in RemoveContent(GroupsOf(node), label, content.label), Edit(node, changed)
        PROVE  DocumentsSay'
    <3>1. changed \in RemoveAtPlace(GroupsOf(node), GroupIndex(GroupsOf(node), label), content.label)
      BY <2>1 DEF RemoveContent
    <3>2. changed \in ContentGroups
      BY <3>1, GroupsOfTyped, RemoveAtPlaceTyped
    <3> QED BY <2>1, <3>2, EditSays
  <2>2. ASSUME NEW changed \in RemoveEqual(GroupsOf(node), label, content), Edit(node, changed)
        PROVE  DocumentsSay'
    BY <2>2, GroupsOfTyped, RemoveEqualTyped, EditSays
  <2> QED BY <1>9, <2>1, <2>2 DEF Strip, StripEqual
<1>10. ASSUME NEW node, Discard(node) \/ DiscardIfLoose(node) PROVE DocumentsSay'
  BY <1>10, EraseSays DEF Discard, DiscardIfLoose
<1>11. ASSUME NEW node, \/ Isolate(node)
                        \/ \E to, name : Link(node, to, name) \/ Unlink(node, to, name)
       PROVE  DocumentsSay'
  BY <1>1, <1>11 DEF Isolate, Link, Unlink
<1>12. CASE UNCHANGED graphVars
  BY <1>1, <1>12 DEF graphVars
<1>13. ASSUME NEW node \in Nodes, NEW group \in DraftGroup, NEW content \in ToSet(group),
              Annotate(node, LabelOf(group).text, content)
       PROVE  DocumentsSay'
  <2>1. LabelOf(group).text \in STRING /\ content \in ContentRow
    BY DraftsTyped
  <2> QED BY <1>8, <1>13, <2>1
<1>14. CASE ClientNext
  BY <1>3, <1>4, <1>5, <1>6, <1>7, <1>9, <1>10, <1>11, <1>13, <1>14 DEF ClientNext
<1> QED BY <1>12, <1>14

LEMMA MergesMean == GraphInv /\ DocumentsSay => MergeMeaning
<1> SUFFICES ASSUME GraphInv, DocumentsSay, NEW node \in Nodes, NEW deltas \in Delta,
                    SaysOnce(GroupsOf(node)), SaysOnce(deltas), DeletesLast(deltas)
             PROVE  MergeMeans(GroupsOf(node), deltas)
  BY DEF MergeMeaning
<1>1. GroupsOf(node) \in ContentGroups /\ deltas \in ContentGroups
  BY GroupsOfTyped, DraftsTyped
<1> QED BY <1>1, MergeMeansIt

(***************************************************************************)
(* Whatever documents a contract has come to store, and whatever delta it  *)
(* merges into one: if neither says a thing twice and deletions come last, *)
(* the document says afterwards what it said before, changed as the delta  *)
(* says, and the merge aborts exactly when that cannot be done.            *)
(***************************************************************************)
THEOREM GraphMergeMeaning == ClientSpec => []MergeMeaning
<1>1. ClientSpec => []DocumentsSay
  BY GraphInvariant, DocumentsSayInit, DocumentsSayStep, PTL DEF ClientSpec
<1> QED BY <1>1, GraphInvariant, MergesMean, PTL
=============================================================================
