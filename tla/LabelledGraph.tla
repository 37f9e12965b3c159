--------------------------- MODULE LabelledGraph ---------------------------
(***************************************************************************)
(* What the document graph is to those who use it: a set of nodes and a    *)
(* set of named links between them.  A node can be exchanged for a new     *)
(* one, which takes over all its links, at both ends and all at once.      *)
(***************************************************************************)
VARIABLES nodes, links

Init == nodes = {} /\ links = {}

Touching(node) == {l \in links : node \in {l.from_node, l.to_node}}

AddNode == \E n \in nodes' \ nodes : nodes' = nodes \cup {n}

\* One link is added, to a node that is there or comes with it.
AddLink ==
  \E l \in links' \ links :
    /\ links' = links \cup {l}
    /\ l.from_node \in nodes /\ l.to_node \in nodes'
    /\ nodes' = nodes \cup {l.to_node}

DropLinks == links' \subseteq links /\ UNCHANGED nodes

Exchange(old, new) ==
  LET At(n) == IF n = old THEN new ELSE n IN
  /\ new \notin nodes
  /\ nodes' = (nodes \ {old}) \cup {new}
  /\ links' = {[l EXCEPT !.from_node = At(@), !.to_node = At(@)] : l \in links}

DropNode(n) == nodes' = nodes \ {n} /\ links' = links \ Touching(n)

Next ==
  \/ AddNode /\ UNCHANGED links
  \/ AddLink
  \/ DropLinks
  \/ \E n \in nodes : DropNode(n) \/ \E new \in nodes' : Exchange(n, new)

Spec == Init /\ [][Next]_<<nodes, links>>
=============================================================================
