--------------------------- MODULE DaoInfoProofs ----------------------------
(***************************************************************************)
(* What organizations say about themselves: the graph of their documents,  *)
(* for any number of organizations, any labels and values; and what each  *)
(* of these documents says, as a profile.                                  *)
(***************************************************************************)
EXTENDS DaoInfo, DocumentGraphProofs, SequenceTheorems

----------------------------------------------------------------------------
(* The two documents the contract starts with. *)

LEMMA ThreeInARow ==
  ASSUME NEW a, NEW b, NEW c
  PROVE  <<a>> \o <<b>> \o <<c>> = <<a, b, c>>
<1> DEFINE S == {a, b, c}
<1>1. <<a>> \in Seq(S) /\ <<b>> \in Seq(S) /\ <<c>> \in Seq(S)
  OBVIOUS
<1>2. <<a, b>> \in Seq(S) /\ <<a, b, c>> \in Seq(S)
  OBVIOUS
<1>3. <<a>> \o <<b>> = <<a, b>>
  <2> DEFINE s == <<a>> \o <<b>>
  <2>1. /\ s \in Seq(S) /\ Len(s) = 2
        /\ \A i \in 1..2 : s[i] = IF i <= 1 THEN <<a>>[i] ELSE <<b>>[i - 1]
    BY <1>1, ConcatProperties
  <2> HIDE DEF s
  <2>2. \A i \in 1..2 : s[i] = <<a, b>>[i]
    BY <2>1
  <2>3. s = <<a, b>>
    BY <1>2, <2>1, <2>2, SeqEqual
  <2> QED BY <2>3 DEF s
<1>4. <<a, b>> \o <<c>> = <<a, b, c>>
  <2> DEFINE s == <<a, b>> \o <<c>>
  <2>1. /\ s \in Seq(S) /\ Len(s) = 3
        /\ \A i \in 1..3 : s[i] = IF i <= 2 THEN <<a, b>>[i] ELSE <<c>>[i - 2]
    BY <1>1, <1>2, ConcatProperties
  <2> HIDE DEF s
  <2>2. \A i \in 1..3 : s[i] = <<a, b, c>>[i]
    BY <2>1
  <2>3. s = <<a, b, c>>
    BY <1>2, <2>1, <2>2, SeqEqual
  <2> QED BY <2>3 DEF s
<1> QED BY <1>3, <1>4

LEMMA ThreeContents ==
  ASSUME NEW label, NEW content
  PROVE  Details(label, <<content>>)
           = <<Content(GroupLabel, String(label)), content, Content(OWNER, NameOf(Self))>>
BY ThreeInARow DEF Details

LEMMA WrittenThree ==
  ASSUME NEW a, NEW b, NEW c
  PROVE  WrittenGroup(<<a, b, c>>) = <<Written(a), Written(b), Written(c)>>
<1>1. Len(<<a, b, c>>) = 3
  OBVIOUS
<1>2. DOMAIN <<a, b, c>> = 1..3
  OBVIOUS
<1>3. WrittenGroup(<<a, b, c>>) = [i \in 1..3 |-> Written(<<a, b, c>>[i])]
  BY <1>1, <1>2 DEF WrittenGroup
<1> QED BY <1>3
\* The group of the root document and of the one below it.
KindGroup(kind) == <<Content(GroupLabel, String(FIXED_DETAILS)), Content(TYPE, NameOf(kind)),
                     Content(OWNER, NameOf(Self))>>

LEMMA KindGroups == RootGroups = <<KindGroup("root")>> /\ DaosGroups = <<KindGroup("daosnode")>>
BY ThreeContents DEF RootGroups, DaosGroups, KindGroup

RootHash == Hash(RootGroups)
DaosHash == Hash(DaosGroups)

(* The two documents are kept apart by the type they state. *)
LEMMA HashesDiffer == RootHash # DaosHash
<1>1. ASSUME NEW kind PROVE Hash(<<KindGroup(kind)>>)[1][2] = Content(TYPE, NameOf(kind))
  <2>1. Hash(<<KindGroup(kind)>>)[1] = WrittenGroup(KindGroup(kind))
    <3>1. DOMAIN <<KindGroup(kind)>> = 1..1
      OBVIOUS
    <3> QED BY <3>1 DEF Hash
  <2>2. WrittenGroup(KindGroup(kind))[2] = Written(Content(TYPE, NameOf(kind)))
    BY WrittenThree DEF KindGroup
  <2>3. Written(Content(TYPE, NameOf(kind))) = Content(TYPE, NameOf(kind))
    BY DEF Written, Content, NameOf, Nothing
  <2> QED BY <2>1, <2>2, <2>3
<1>2. Content(TYPE, NameOf("root")) # Content(TYPE, NameOf("daosnode"))
  BY DEF Content, NameOf
<1> QED BY <1>1, <1>2, KindGroups DEF RootHash, DaosHash

(* Nobody may change the document of all organizations: it names no creator. *)
LEMMA DaosNotChanged ==
  ASSUME NEW signer, MayChange(signer, DaosGroups)
  PROVE  FALSE
<1> DEFINE group == KindGroup("daosnode")
           i == GroupIndex(DaosGroups, FIXED_DETAILS)
<1>1. i # 0 /\ IndexOf(DaosGroups[i], CREATOR) # 0
  BY DEF MayChange, HasContent, HasGroup
<1>2. DaosGroups = <<group>>
  BY KindGroups
<1>3. i = 1
  <2> DEFINE found == {k \in 1..Len(DaosGroups) : String(FIXED_DETAILS) \in Labels(DaosGroups[k])}
  <2>1. i = IF found # {} THEN Min(found) ELSE 0
    BY DEF GroupIndex, SelectInSeq
  <2>2. Len(DaosGroups) = 1
    BY <1>2
  <2>3. \A k \in found : k = 1
    BY <2>2
  <2> HIDE DEF found, i
  <2>4. found # {} /\ found \subseteq Nat
    BY <1>1, <2>1, <2>3
  <2>5. Min(found) \in found
    BY <2>4, MinIsLeast
  <2> QED BY <2>1, <2>3, <2>4, <2>5
<1>4. IndexOf(group, CREATOR) # 0
  BY <1>1, <1>2, <1>3
<1>5. {k \in 1..Len(group) : group[k].label = CREATOR} = {}
  BY DEF KindGroup, Content, GroupLabel, TYPE, OWNER, CREATOR
<1> QED BY <1>4, <1>5 DEF IndexOf, SelectInSeq
----------------------------------------------------------------------------
(* The tree. *)

\* The edge between the first two documents, written by reset.
RootLink == Edge(RootHash, DaosHash, HAS_DAOS)

\* The hashes of the organizations' documents.
InfoHashes == {documents[id].hash : id \in InfoIds}

\* The documents: those of reset and the organizations'.
TreeDocuments ==
  /\ DocumentsTabled(documents, MaxDocId + 1)
  /\ 0 \in DOMAIN documents /\ documents[0].hash = RootHash
  /\ 1 \in DOMAIN documents /\ documents[1] = Document(DaosGroups)

\* The ids the edges are named after, and "daos" and "hasdaos".
EdgeNames == {e.edge_name : e \in edges}

\* The edges: that of reset and two for each organization.
TreeEdges ==
  /\ EdgesTabled(edges)
  /\ RootLink \in edges
  /\ \A e \in edges : e = RootLink \/ (e.from_node = DaosHash /\ e.to_node \in InfoHashes)
  /\ \A hash \in InfoHashes : \E name \in EdgeNames : name # DAOS /\
       Reaching(edges, hash) = {Edge(DaosHash, hash, name), Edge(DaosHash, hash, DAOS)}

(***************************************************************************)
(* GraphIsTree does not say which documents the root and the one below it  *)
(* are.  That they stay where reset puts them, and that the latter says    *)
(* what it did, is needed to know that nobody replaces it.                 *)
(***************************************************************************)
InfoInv == (documents = NoRows /\ edges = {}) \/ (TreeDocuments /\ TreeEdges)

(***************************************************************************)
(* Lookups go by 32 bits of a hash.  The way from the root to the document *)
(* of all organizations is found by one of these numbers, and no edge of   *)
(* an organization may have the same.                                      *)
(***************************************************************************)
RootLinkTold ==
  \A e \in edges : NameKey(e.from_node, e.edge_name) = NameKey(RootHash, HAS_DAOS)
                     => e.from_node = RootHash

(* The documents have hashes of their own. *)
LEMMA TreeHashes ==
  ASSUME TreeDocuments
  PROVE  /\ StoredIn(documents) = InfoHashes \cup {RootHash, DaosHash}
         /\ RootHash \notin InfoHashes /\ DaosHash \notin InfoHashes
         /\ IdOf(DaosHash) = 1
         /\ documents # NoRows
<1>1. documents[1].hash = DaosHash
  BY DEF TreeDocuments, Document, DaosHash
<1>2. DOMAIN documents = InfoIds \cup {0, 1} /\ 0 \notin InfoIds /\ 1 \notin InfoIds
  BY DEF TreeDocuments, InfoIds
<1>3. StoredIn(documents) = InfoHashes \cup {RootHash, DaosHash}
  BY <1>1, <1>2 DEF TreeDocuments, StoredIn, InfoHashes
<1>4. RootHash \notin InfoHashes /\ DaosHash \notin InfoHashes
  BY <1>1, <1>2 DEF TreeDocuments, DocumentsTabled, InfoHashes
<1>5. Exists(DaosHash)
  BY <1>3, ExistsIsStored
<1>6. IdOf(DaosHash) \in DOMAIN documents /\ documents[IdOf(DaosHash)].hash = DaosHash
  BY <1>5, IdOfStored DEF TreeDocuments
<1>7. IdOf(DaosHash) = 1
  BY <1>1, <1>6 DEF TreeDocuments, DocumentsTabled
<1>8. documents # NoRows
  BY DEF TreeDocuments, NoRows
<1> QED BY <1>3, <1>4, <1>7, <1>8

(* The way down from the root. *)
LEMMA OneDaosNode ==
  ASSUME TreeDocuments, TreeEdges, RootLinkTold
  PROVE  DaoNodes = {DaosHash}
<1>1. RootId = 0
  <2>1. \A id \in DOMAIN documents : id \in Nat
    BY DEF TreeDocuments, DocumentsTabled
  <2>2. 0 \in DOMAIN documents /\ \A id \in DOMAIN documents : 0 <= id /\ (id <= 0 => id = 0)
    BY <2>1 DEF TreeDocuments
  <2> QED BY <2>2 DEF RootId
<1>2. documents # NoRows /\ documents[0].hash = RootHash
  BY TreeHashes DEF TreeDocuments
<1>3. RootLink.from_node = RootHash /\ RootLink.to_node = DaosHash /\ RootLink.edge_name = HAS_DAOS
  BY DEF RootLink, Edge
<1>4. \A e \in edges : NameKey(e.from_node, e.edge_name) = NameKey(RootHash, HAS_DAOS)
                         => e = RootLink
  BY HashesDiffer DEF RootLinkTold, TreeEdges
<1>5. EdgesFrom(RootHash, HAS_DAOS) = {RootLink}
  BY <1>3, <1>4 DEF EdgesFrom, TreeEdges
<1> QED BY <1>1, <1>2, <1>3, <1>5 DEF DaoNodes

LEMMA TreeSound == InfoInv /\ RootLinkTold => GraphIsTree
<1>1. ASSUME documents = NoRows, edges = {} PROVE GraphIsTree
  BY <1>1 DEF GraphIsTree, InfoIds, NoRows
<1>2. ASSUME TreeDocuments, TreeEdges, RootLinkTold PROVE GraphIsTree
  <2>1. ASSUME NEW hash \in StoredIn(documents) PROVE Cardinality(IdsOf(hash)) = 1
    <3>1. Exists(hash)
      BY ExistsIsStored
    <3>2. IdsOf(hash) = {IdOf(hash)}
      BY <1>2, <3>1, IdOfStored DEF TreeDocuments
    <3> QED BY <3>2, FS_Singleton
  <2>2. ASSUME NEW e \in edges
        PROVE  e.from_node \in StoredIn(documents) /\ e.to_node \in StoredIn(documents)
    <3>1. RootLink.from_node = RootHash /\ RootLink.to_node = DaosHash
      BY DEF RootLink, Edge
    <3> QED BY <1>2, <3>1, TreeHashes DEF TreeEdges
  <2>3. DaoNodes = {DaosHash} /\ Cardinality(DaoNodes) = 1
    BY <1>2, OneDaosNode, FS_Singleton
  <2>4. ASSUME NEW id \in InfoIds
        PROVE  LET links == Reaching(edges, documents[id].hash) IN
               /\ Cardinality(links) = 2
               /\ \E e \in links : e.edge_name = DAOS
               /\ \A e \in links : e.from_node \in DaoNodes
    <3> DEFINE hash == documents[id].hash
               links == Reaching(edges, hash)
               listed == Edge(DaosHash, hash, DAOS)
    <3>1. hash \in InfoHashes
      BY DEF InfoHashes
    <3>2. PICK name : name # DAOS /\ links = {Edge(DaosHash, hash, name), listed}
      BY <1>2, <3>1 DEF TreeEdges
    <3> DEFINE by_id == Edge(DaosHash, hash, name)
    <3>3. /\ by_id.edge_name = name /\ by_id.from_node = DaosHash
          /\ listed.edge_name = DAOS /\ listed.from_node = DaosHash
      BY DEF Edge
    <3> HIDE DEF by_id, listed, links
    <3>4. links = {by_id, listed} /\ by_id # listed
      BY <3>2, <3>3 DEF by_id
    <3>5. Cardinality(links) = 2
      <4>1. IsFiniteSet({by_id}) /\ Cardinality({by_id}) = 1 /\ listed \notin {by_id}
        BY <3>4, FS_Singleton
      <4>2. Cardinality({by_id} \cup {listed}) = 2
        BY <4>1, FS_AddElement
      <4>3. links = {by_id} \cup {listed}
        BY <3>4
      <4> QED BY <4>2, <4>3
    <3> QED BY <2>3, <3>3, <3>4, <3>5 DEF links
  <2> QED BY <2>1, <2>2, <2>3, <2>4 DEF GraphIsTree
<1> QED BY <1>1, <1>2 DEF InfoInv
----------------------------------------------------------------------------
(* The actions keep it. *)

LEMMA ResetKeeps ==
  ASSUME NEW signer, Reset(signer)
  PROVE  TreeDocuments' /\ TreeEdges'
<1>1. /\ DOMAIN documents' = 0..1
      /\ documents'[0] = Document(RootGroups) /\ documents'[1] = Document(DaosGroups)
      /\ edges' = {RootLink}
  BY DEF Reset, RootLink, RootHash, DaosHash
<1>2. documents'[0].hash = RootHash /\ documents'[1].hash = DaosHash
  BY <1>1 DEF Document, RootHash, DaosHash
<1>3. \A i \in DOMAIN documents' : i = 0 \/ i = 1
  BY <1>1
<1>4. DocumentsTabled(documents', MaxDocId + 1)
  <2>1. DOMAIN documents' \subseteq 0..MaxDocId + 1
    BY <1>1, GraphAssumption
  <2> QED BY <1>2, <1>3, <2>1, HashesDiffer DEF DocumentsTabled
<1>5. TreeDocuments'
  BY <1>1, <1>2, <1>4 DEF TreeDocuments
<1>6. InfoHashes' = {}
  BY <1>3 DEF InfoHashes, InfoIds
<1>7. EdgesTabled(edges')
  BY <1>1 DEF EdgesTabled, RootLink, Edge
<1>8. TreeEdges'
  BY <1>1, <1>6, <1>7 DEF TreeEdges, EdgesTabled, EdgeId
<1> QED BY <1>5, <1>8

\* What adddao does to the organizations' documents and the edges to them.
DaoAdded(groups, dao_id) ==
  LET new == Hash(groups)
      key == NextKey(documents)
  IN
  /\ key \notin InfoIds /\ InfoIds' = InfoIds \cup {key}
  /\ \A id \in InfoIds : documents'[id] = documents[id]
  /\ documents'[key] = Document(groups) /\ new \notin InfoHashes
  /\ dao_id # DAOS
  /\ Reaching(edges', new) = {Edge(DaosHash, new, dao_id), Edge(DaosHash, new, DAOS)}
  /\ \A hash \in InfoHashes : Reaching(edges', hash) = Reaching(edges, hash)

\* What changing the entries of the organization at node does to them.
DaoReplaced(node, groups) ==
  LET new == Hash(groups)
      key == NextKey(documents)
  IN
  /\ IdOf(node) \in InfoIds /\ key \notin InfoIds /\ InfoIds' = (InfoIds \ {IdOf(node)}) \cup {key}
  /\ \A id \in InfoIds \ {IdOf(node)} : documents'[id] = documents[id] /\ documents[id].hash # node
  /\ documents'[key] = Document(groups) /\ documents[IdOf(node)].hash = node
  /\ new \notin InfoHashes
  /\ \A hash \in InfoHashes \ {node} : Reaching(edges', hash) = Reaching(edges, hash)
  /\ \A name : Reaching(edges, node) = {Edge(DaosHash, node, name), Edge(DaosHash, node, DAOS)}
       => Reaching(edges', new) = {Edge(DaosHash, new, name), Edge(DaosHash, new, DAOS)}

LEMMA AddDaoKeeps ==
  ASSUME TreeDocuments, TreeEdges, RootLinkTold,
         NEW signer, NEW creator, NEW dao_id, AddDao(signer, creator, dao_id)
  PROVE  TreeDocuments' /\ TreeEdges' /\ DaoAdded(InfoGroups(creator), dao_id)
<1> DEFINE groups == InfoGroups(creator)
           new == Hash(groups)
           key == NextKey(documents)
           by_id == Edge(DaosHash, new, dao_id)
           listed == Edge(DaosHash, new, DAOS)
<1>1. /\ MayEmplace(groups) /\ documents' = Emplaced(groups)
      /\ MayWrite(edges, by_id) /\ MayWrite(edges \cup {by_id}, listed)
      /\ edges' = edges \cup {by_id, listed}
  BY OneDaosNode DEF AddDao
<1>2. MaxDocId + 1 \in Nat /\ MaxDocId <= MaxDocId + 1
  BY GraphAssumption
<1>3. DocumentsTabled(documents, MaxDocId + 1)
  BY DEF TreeDocuments
<1>4. /\ DOMAIN documents' = DOMAIN documents \cup {key}
      /\ key \in 0..MaxDocId
      /\ \A id \in DOMAIN documents : id < key /\ documents'[id] = documents[id]
      /\ documents'[key].hash = new
      /\ new \notin StoredIn(documents)
      /\ DocumentsTabled(documents', MaxDocId + 1)
  BY <1>1, <1>2, <1>3, EmplacedEffect
<1>17. documents'[key] = Document(groups)
  BY <1>1 DEF Emplaced, Put
<1> HIDE DEF groups, new, key
<1>5. key \notin DOMAIN documents /\ key # 0 /\ key # 1
  <2>1. 0 \in DOMAIN documents /\ 1 \in DOMAIN documents /\ ~(key < key) /\ key \in Nat
    BY <1>4, GraphAssumption DEF TreeDocuments
  <2> QED BY <1>4, <2>1
<1>6. TreeDocuments'
  BY <1>4 DEF TreeDocuments
<1>7. InfoHashes' = InfoHashes \cup {new}
  <2>1. InfoIds' = InfoIds \cup {key}
    BY <1>4, <1>5 DEF InfoIds
  <2>2. \A id \in InfoIds : documents'[id] = documents[id]
    BY <1>4 DEF InfoIds
  <2> QED BY <1>4, <2>1, <2>2 DEF InfoHashes
<1>8. /\ by_id.from_node = DaosHash /\ by_id.to_node = new /\ by_id.edge_name = dao_id
      /\ listed.from_node = DaosHash /\ listed.to_node = new /\ listed.edge_name = DAOS
  BY DEF Edge
<1>9. EdgesTabled(edges')
  <2>1. EdgesTabled(edges \cup {by_id})
    BY <1>1, WriteEffect DEF TreeEdges
  <2>2. EdgesTabled((edges \cup {by_id}) \cup {listed})
    BY <1>1, <2>1, WriteEffect
  <2>3. edges' = (edges \cup {by_id}) \cup {listed}
    BY <1>1
  <2> QED BY <2>2, <2>3
<1>10. dao_id # DAOS
  <2>1. EdgeId(by_id) # EdgeId(listed)
    BY <1>1 DEF MayWrite
  <2> QED BY <2>1
<1>11. \A e \in edges : e.to_node # new
  <2>1. RootLink.to_node = DaosHash
    BY DEF RootLink, Edge
  <2> QED BY <1>4, <2>1, TreeHashes DEF TreeEdges
<1>12. new \notin InfoHashes /\ DaosHash # new
  BY <1>4, TreeHashes
<1> HIDE DEF by_id, listed
<1>13. Reaching(edges', new) = {by_id, listed}
  BY <1>1, <1>8, <1>11 DEF Reaching
<1>14. \A hash \in InfoHashes : Reaching(edges', hash) = Reaching(edges, hash)
  BY <1>1, <1>8, <1>12 DEF Reaching
<1>15. \A hash \in InfoHashes' : \E name \in EdgeNames' : name # DAOS /\
         Reaching(edges', hash) = {Edge(DaosHash, hash, name), Edge(DaosHash, hash, DAOS)}
  <2>1. EdgeNames \subseteq EdgeNames' /\ dao_id \in EdgeNames'
    BY <1>1, <1>8 DEF EdgeNames
  <2> QED BY <1>7, <1>10, <1>13, <1>14, <2>1 DEF TreeEdges, by_id, listed
<1>16. /\ RootLink \in edges'
       /\ \A e \in edges' : e = RootLink \/ (e.from_node = DaosHash /\ e.to_node \in InfoHashes')
  BY <1>1, <1>7, <1>8 DEF TreeEdges
<1>18. TreeEdges'
  BY <1>9, <1>15, <1>16 DEF TreeEdges, EdgesTabled, EdgeId
<1>19. DaoAdded(groups, dao_id)
  <2>1. InfoIds' = InfoIds \cup {key} /\ key \notin InfoIds
    BY <1>4, <1>5 DEF InfoIds
  <2>2. \A id \in InfoIds : documents'[id] = documents[id]
    BY <1>4 DEF InfoIds
  <2> QED BY <1>10, <1>12, <1>13, <1>14, <1>17, <2>1, <2>2
          DEF DaoAdded, new, key, by_id, listed
<1> QED BY <1>6, <1>18, <1>19 DEF groups

(* The document an entry is stored in or deleted from is an organization's. *)
LEMMA ChangedIsInfo ==
  ASSUME TreeDocuments, TreeEdges, NEW dao_id, NEW node \in DaoInfNodes(dao_id), NEW signer,
         MayChange(signer, documents[IdOf(node)].content_groups)
  PROVE  node \in InfoHashes
<1>1. PICK e \in edges : e.to_node = node
  BY DEF DaoInfNodes, EdgesFrom
<1>2. RootLink.to_node = DaosHash
  BY DEF RootLink, Edge
<1>3. node # DaosHash
  <2> SUFFICES ASSUME node = DaosHash PROVE FALSE
    OBVIOUS
  <2>1. documents[IdOf(node)] = Document(DaosGroups)
    BY TreeHashes DEF TreeDocuments
  <2>2. documents[IdOf(node)].content_groups = DaosGroups
    BY <2>1 DEF Document
  <2> QED BY <2>2, DaosNotChanged
<1> QED BY <1>1, <1>2, <1>3 DEF TreeEdges

(* Its document replaced, an organization has its place still. *)
LEMMA ReplaceKeeps ==
  ASSUME TreeDocuments, TreeEdges, NEW node \in InfoHashes, NEW groups,
         UpdateDocument(node, groups)
  PROVE  TreeDocuments' /\ TreeEdges' /\ DaoReplaced(node, groups)
<1> DEFINE new == Hash(groups)
           old_id == IdOf(node)
           key == NextKey(documents)
<1>1. Exchanged(MaxDocId + 1, node, new)
  <2>1. MaxDocId + 1 \in Nat /\ MaxDocId <= MaxDocId + 1
    BY GraphAssumption
  <2>2. DocumentsTabled(documents, MaxDocId + 1) /\ EdgesTabled(edges)
    BY DEF TreeDocuments, TreeEdges
  <2> QED BY <2>1, <2>2, UpdateEffect
<1>2. old_id \in DOMAIN documents /\ documents[old_id].hash = node
  <2>1. Exists(node)
    BY DEF UpdateDocument
  <2> QED BY <2>1, IdOfStored DEF TreeDocuments
<1> HIDE DEF new, old_id, key
<1>3. /\ new \notin StoredIn(documents)
      /\ DocumentsTabled(documents', MaxDocId + 1)
      /\ edges' = {Moved(e, node, new) : e \in edges} /\ EdgesTabled(edges')
      /\ DOMAIN documents' = (DOMAIN documents \cup {key}) \ {old_id}
      /\ \A id \in DOMAIN documents \ {old_id} : documents'[id] = documents[id]
      /\ key \in Nat /\ documents'[key].hash = new
      /\ \A id \in DOMAIN documents : id < key
  BY <1>1 DEF Exchanged, old_id, key
<1>4. /\ node # RootHash /\ node # DaosHash /\ node \in StoredIn(documents)
      /\ new # RootHash /\ new # DaosHash /\ new \notin InfoHashes /\ new # node
  BY <1>3, TreeHashes
<1>5. old_id # 0 /\ old_id # 1
  <2>1. documents[0].hash = RootHash /\ documents[1].hash = DaosHash
    BY DEF TreeDocuments, Document, DaosHash
  <2> QED BY <1>2, <1>4, <2>1
<1>6. key \notin DOMAIN documents /\ key # 0 /\ key # 1
  <2>1. 0 \in DOMAIN documents /\ 1 \in DOMAIN documents /\ ~(key < key)
    BY <1>3 DEF TreeDocuments
  <2> QED BY <1>3, <2>1
<1>7. TreeDocuments'
  BY <1>3, <1>5 DEF TreeDocuments
<1>8. InfoHashes' = (InfoHashes \ {node}) \cup {new}
  <2>1. InfoIds' = (InfoIds \ {old_id}) \cup {key} /\ old_id \in InfoIds
    BY <1>2, <1>3, <1>5, <1>6 DEF InfoIds
  <2>2. \A id \in InfoIds \ {old_id} :
          documents'[id] = documents[id] /\ documents[id].hash # node
    BY <1>2, <1>3 DEF InfoIds, TreeDocuments, DocumentsTabled
  <2> QED BY <1>2, <1>3, <2>1, <2>2 DEF InfoHashes
<1>9. ASSUME NEW hash \in InfoHashes, NEW name
      PROVE  Moved(Edge(DaosHash, hash, name), node, new)
               = Edge(DaosHash, IF hash = node THEN new ELSE hash, name)
  BY <1>4 DEF Moved, Edge
<1>10. Moved(RootLink, node, new) = RootLink
  BY <1>4 DEF Moved, RootLink, Edge
<1>11. \A e \in edges : e = RootLink \/ (e.from_node = DaosHash /\ e.to_node \in InfoHashes
                                          /\ e = Edge(DaosHash, e.to_node, e.edge_name))
  BY DEF TreeEdges, EdgesTabled
<1>12. \A from, to, name : Edge(from, to, name).from_node = from /\ Edge(from, to, name).to_node = to
  BY DEF Edge
<1>13. \A e \in edges :
         /\ Moved(e, node, new).to_node = IF e.to_node = node THEN new ELSE e.to_node
         /\ e = RootLink \/ Moved(e, node, new).from_node = DaosHash
  BY <1>4, <1>11, <1>12 DEF Moved
<1>14. /\ RootLink \in edges'
       /\ \A e \in edges' : e = RootLink \/ (e.from_node = DaosHash /\ e.to_node \in InfoHashes')
  BY <1>3, <1>8, <1>10, <1>11, <1>13 DEF TreeEdges
<1>15. ASSUME NEW hash \in InfoHashes
       PROVE  Reaching(edges', IF hash = node THEN new ELSE hash)
                = {Moved(e, node, new) : e \in Reaching(edges, hash)}
  <2>1. \A e \in edges : e.to_node # new
    <3>1. RootLink.to_node = DaosHash
      BY <1>12 DEF RootLink
    <3> QED BY <1>4, <1>11, <3>1
  <2>2. \A e \in edges : Moved(e, node, new).to_node = (IF hash = node THEN new ELSE hash)
                           <=> e.to_node = hash
    BY <1>4, <1>13, <2>1
  <2> QED BY <1>3, <2>2 DEF Reaching
<1>16. ASSUME NEW hash \in InfoHashes'
       PROVE  \E name \in EdgeNames' : name # DAOS /\
                Reaching(edges', hash) = {Edge(DaosHash, hash, name), Edge(DaosHash, hash, DAOS)}
  <2>1. PICK before \in InfoHashes : hash = IF before = node THEN new ELSE before
    BY <1>8
  <2>2. PICK name \in EdgeNames : name # DAOS /\
          Reaching(edges, before) = {Edge(DaosHash, before, name), Edge(DaosHash, before, DAOS)}
    BY DEF TreeEdges
  <2>3. Reaching(edges', hash) = {Moved(Edge(DaosHash, before, name), node, new),
                                  Moved(Edge(DaosHash, before, DAOS), node, new)}
    BY <1>15, <2>1, <2>2
  <2>4. Reaching(edges', hash) = {Edge(DaosHash, hash, name), Edge(DaosHash, hash, DAOS)}
    BY <1>9, <2>1, <2>3
  <2>5. \A e \in edges : Moved(e, node, new).edge_name = e.edge_name
    BY <1>12 DEF Moved, Edge
  <2>6. name \in EdgeNames'
    BY <1>3, <2>2, <2>5 DEF EdgeNames
  <2> QED BY <2>2, <2>4, <2>6
<1>17. TreeEdges'
  BY <1>3, <1>14, <1>16 DEF TreeEdges
<1>18. documents'[key] = Document(groups)
  <2>1. documents' = Erase(Emplaced(groups), old_id)
    BY DEF UpdateDocument, old_id
  <2>2. Emplaced(groups)[key] = Document(groups) /\ key \in DOMAIN Emplaced(groups)
    BY DEF Emplaced, Put, key
  <2>3. key # old_id
    BY <1>2, <1>6
  <2> QED BY <2>1, <2>2, <2>3 DEF Erase, Restrict
<1>19. /\ old_id \in InfoIds /\ key \notin InfoIds /\ InfoIds' = (InfoIds \ {old_id}) \cup {key}
       /\ \A id \in InfoIds \ {old_id} : documents'[id] = documents[id] /\ documents[id].hash # node
  BY <1>2, <1>3, <1>5, <1>6 DEF InfoIds, TreeDocuments, DocumentsTabled
<1>20. \A hash \in InfoHashes \ {node} : Reaching(edges', hash) = Reaching(edges, hash)
  <2> SUFFICES ASSUME NEW hash \in InfoHashes, hash # node
               PROVE  Reaching(edges', hash) = Reaching(edges, hash)
    OBVIOUS
  <2>1. PICK name : Reaching(edges, hash) = {Edge(DaosHash, hash, name), Edge(DaosHash, hash, DAOS)}
    BY DEF TreeEdges
  <2>2. Reaching(edges', hash) = {Moved(Edge(DaosHash, hash, name), node, new),
                                  Moved(Edge(DaosHash, hash, DAOS), node, new)}
    BY <1>15, <2>1
  <2> QED BY <1>9, <2>1, <2>2
<1>21. ASSUME NEW name,
              Reaching(edges, node) = {Edge(DaosHash, node, name), Edge(DaosHash, node, DAOS)}
       PROVE  Reaching(edges', new) = {Edge(DaosHash, new, name), Edge(DaosHash, new, DAOS)}
  <2>1. Reaching(edges', new) = {Moved(Edge(DaosHash, node, name), node, new),
                                 Moved(Edge(DaosHash, node, DAOS), node, new)}
    BY <1>15, <1>21
  <2> QED BY <1>9, <2>1
<1>22. DaoReplaced(node, groups)
  BY <1>2, <1>4, <1>18, <1>19, <1>20, <1>21 DEF DaoReplaced, new, old_id, key
<1> QED BY <1>7, <1>17, <1>22

LEMMA InfoInvInit == InfoInit => InfoInv
BY DEF InfoInit, InfoInv

LEMMA InfoInvStep == InfoInv /\ RootLinkTold /\ [InfoNext]_graphVars => InfoInv'
<1> SUFFICES ASSUME InfoInv, RootLinkTold, [InfoNext]_graphVars PROVE InfoInv'
  OBVIOUS
<1>1. ASSUME NEW signer, Reset(signer) PROVE InfoInv'
  BY <1>1, ResetKeeps DEF InfoInv
<1>2. ASSUME documents = NoRows PROVE DaoNodes = {} /\ \A dao_id : DaoInfNodes(dao_id) = {}
  BY <1>2 DEF DaoNodes, DaoInfNodes
<1>3. ASSUME NEW signer, NEW creator, NEW dao_id, AddDao(signer, creator, dao_id) PROVE InfoInv'
  <2>1. TreeDocuments /\ TreeEdges
    BY <1>2, <1>3 DEF InfoInv, AddDao
  <2> QED BY <1>3, <2>1, AddDaoKeeps DEF InfoInv
<1>4. ASSUME NEW signer, NEW dao_id, NEW node \in DaoInfNodes(dao_id), NEW groups,
             MayChange(signer, documents[IdOf(node)].content_groups), UpdateDocument(node, groups)
      PROVE  InfoInv'
  <2>1. TreeDocuments /\ TreeEdges
    BY <1>2, <1>4 DEF InfoInv
  <2>2. node \in InfoHashes
    BY <1>4, <2>1, ChangedIsInfo
  <2> QED BY <1>4, <2>1, <2>2, ReplaceKeeps DEF InfoInv
<1>5. ASSUME NEW signer, NEW values, NEW dao_id, StoreEntry(signer, values, dao_id) PROVE InfoInv'
  BY <1>4, <1>5 DEF StoreEntry
<1>6. ASSUME NEW signer, NEW labels, NEW dao_id, DelEntry(signer, labels, dao_id) PROVE InfoInv'
  BY <1>4, <1>6 DEF DelEntry
<1>7. CASE UNCHANGED graphVars
  BY <1>7 DEF graphVars, InfoInv, TreeDocuments, TreeEdges, InfoHashes, InfoIds, EdgesTabled, EdgeId,
               EdgeNames
<1> QED BY <1>1, <1>3, <1>5, <1>6, <1>7 DEF InfoNext

(***************************************************************************)
(* As long as no edge of an organization is kept under the number the root *)
(* is looked up by, the contract's graph stays a tree of two levels,       *)
(* however often documents are replaced and whatever they are made to say. *)
(***************************************************************************)
THEOREM InfoGraphIsTree == InfoSpec /\ []RootLinkTold => []GraphIsTree
<1> QED BY InfoInvInit, InfoInvStep, TreeSound, PTL DEF InfoSpec
----------------------------------------------------------------------------
(***************************************************************************)
(* What is stored is well formed, whatever the entries say.                *)
(***************************************************************************)
DocumentRow == [hash : ContentGroups, content_groups : ContentGroups]
EdgeRow     == [from_node : ContentGroups, to_node : ContentGroups, edge_name : 1..MaxName]

LEMMA InfoTypes == InfoTypeOK <=> IsTable(documents, 0..MaxDocId, DocumentRow) /\ edges \subseteq EdgeRow
BY DEF InfoTypeOK, DocumentRow, EdgeRow, ContentGroups, ContentGroup, ContentRow

LEMMA TypesNext ==
  InfoTypeOK' <=> IsTable(documents', 0..MaxDocId, DocumentRow) /\ edges' \subseteq EdgeRow
BY DEF InfoTypeOK, DocumentRow, EdgeRow, ContentGroups, ContentGroup, ContentRow

LEMMA DetailsTyped ==
  ASSUME NEW label \in STRING, NEW contents \in Seq(ContentRow)
  PROVE  Details(label, contents) \in ContentGroup
<1>1. Content(GroupLabel, String(label)) \in ContentRow /\ Content(OWNER, NameOf(Self)) \in ContentRow
  BY ContentTyped, TextAssumption, DetailsAssumption, InfoAssumption
<1>2. \A content \in ContentRow : <<content>> \in Seq(ContentRow)
  OBVIOUS
<1>3. <<Content(GroupLabel, String(label))>> \o contents \in Seq(ContentRow)
  BY <1>1, <1>2, ConcatProperties
<1>4. <<Content(GroupLabel, String(label))>> \o contents \o <<Content(OWNER, NameOf(Self))>>
        \in Seq(ContentRow)
  BY <1>1, <1>2, <1>3, ConcatProperties
<1> QED BY <1>4 DEF Details, ContentGroup

LEMMA FirstDocumentsTyped ==
  /\ RootGroups \in ContentGroups /\ DaosGroups \in ContentGroups
  /\ \A creator \in User : InfoGroups(creator) \in ContentGroups
<1>1. ASSUME NEW label \in {TYPE, CREATOR}, NEW text \in STRING
      PROVE  Details(FIXED_DETAILS, <<Content(label, NameOf(text))>>) \in ContentGroup
  <2>1. Content(label, NameOf(text)) \in ContentRow
    BY ContentTyped, DetailsAssumption
  <2>2. \A content \in ContentRow : <<content>> \in Seq(ContentRow)
    OBVIOUS
  <2> QED BY <2>1, <2>2, DetailsTyped, DetailsAssumption
<1>2. Details(VARIABLE_DETAILS, << >>) \in ContentGroup
  <2>1. << >> \in Seq(ContentRow)
    BY EmptySeq
  <2> QED BY <2>1, DetailsTyped, DetailsAssumption
<1>3. \A group, other \in ContentGroup : <<group>> \in Seq(ContentGroup) /\ <<group, other>> \in Seq(ContentGroup)
  OBVIOUS
<1>4. \A creator \in User : creator \in STRING
  BY InfoAssumption
<1> QED BY <1>1, <1>2, <1>3, <1>4, DetailsAssumption
        DEF RootGroups, DaosGroups, InfoGroups, ContentGroups

LEMMA DocumentTyped ==
  ASSUME NEW groups \in ContentGroups
  PROVE  Document(groups) \in DocumentRow
BY HashTyped DEF Document, DocumentRow

(* A document found is a row of the table. *)
LEMMA FoundInTable ==
  ASSUME InfoTypeOK, NEW hash, Exists(hash)
  PROVE  /\ IdOf(hash) \in DOMAIN documents /\ documents[IdOf(hash)].hash = hash
         /\ documents[IdOf(hash)] \in DocumentRow
<1>1. DOMAIN documents \subseteq 0..MaxDocId /\ \A id \in DOMAIN documents : documents[id] \in DocumentRow
  BY InfoTypes DEF IsTable
<1>2. IdsOf(hash) # {} /\ IdsOf(hash) \subseteq DOMAIN documents /\ IdsOf(hash) \subseteq Nat
  BY <1>1 DEF Exists, IdsOf
<1>3. PICK id \in IdsOf(hash) : \A other \in IdsOf(hash) : id <= other
  BY <1>2, LeastNatural
<1>4. IdOf(hash) \in IdsOf(hash)
  BY <1>3 DEF IdOf
<1> QED BY <1>1, <1>4 DEF IdsOf

LEMMA EmplacedTyped ==
  ASSUME InfoTypeOK, NEW groups \in ContentGroups, MayEmplace(groups)
  PROVE  IsTable(Emplaced(groups), 0..MaxDocId, DocumentRow)
<1>1. IsTable(documents, 0..MaxDocId, DocumentRow) /\ Document(groups) \in DocumentRow
  BY InfoTypes, DocumentTyped
<1>2. NextKey(documents) \in 0..MaxDocId
  <2>1. DOMAIN documents \subseteq 0..MaxDocId /\ MaxDocId \in Nat
    BY <1>1, GraphAssumption DEF IsTable
  <2>2. NextKey(documents) \in 0..MaxDocId + 1
    BY <2>1, NextKeyFresh
  <2>3. NextKey(documents) <= MaxDocId
    BY DEF MayEmplace
  <2> QED BY <2>1, <2>2, <2>3
<1> QED BY <1>1, <1>2, PutTyped DEF Emplaced

LEMMA ReplaceNodeTyped ==
  ASSUME NEW es \in SUBSET EdgeRow, NEW old, NEW new \in ContentGroups
  PROVE  ReplaceNode(es, old, new) \subseteq EdgeRow
<1>1. \A e \in EdgeRow : [e EXCEPT !.from_node = new] \in EdgeRow /\ [e EXCEPT !.to_node = new] \in EdgeRow
  BY DEF EdgeRow
<1>2. RelinkFrom(es, old, new) \subseteq EdgeRow
  BY <1>1 DEF RelinkFrom, Leaving
<1>3. \A moved \in SUBSET EdgeRow : RelinkTo(moved, old, new) \subseteq EdgeRow
  BY <1>1 DEF RelinkTo, Reaching
<1> QED BY <1>2, <1>3 DEF ReplaceNode

LEMMA UpdateKeepsTypes ==
  ASSUME InfoTypeOK, NEW hash, NEW groups \in ContentGroups, UpdateDocument(hash, groups)
  PROVE  InfoTypeOK'
<1> DEFINE stored == Emplaced(groups)
<1>1. /\ Exists(hash) /\ MayEmplace(groups)
      /\ documents' = Erase(stored, IdOf(hash))
      /\ edges' = ReplaceNode(edges, hash, Hash(groups))
  BY DEF UpdateDocument
<1>2. IsTable(stored, 0..MaxDocId, DocumentRow)
  BY <1>1, EmplacedTyped
<1> HIDE DEF stored
<1>3. IsTable(documents', 0..MaxDocId, DocumentRow)
  BY <1>1, <1>2, EraseTyped
<1>4. edges' \subseteq EdgeRow
  BY <1>1, InfoTypes, HashTyped, ReplaceNodeTyped
<1> QED BY <1>3, <1>4, TypesNext
----------------------------------------------------------------------------
(* Entries stored and deleted one after the other. *)

\* The recursions FoldLeft unfolds to, over the sets of positions of a batch.
IsInsertion(f, n, group, values) ==
  f = [s \in SUBSET (1..n) |->
         IF s = {} THEN group ELSE InsertOrReplace(f[s \ {Max(s)}], values[Max(s)])]

IsRemoval(f, n, outcomes, labels) ==
  f = [s \in SUBSET (1..n) |->
         IF s = {} THEN outcomes ELSE RemoveEntry(f[s \ {Max(s)}], labels[Max(s)])]

(* A group stays a group whatever entries are stored in it. *)
LEMMA EntriesStored ==
  ASSUME NEW group \in ContentGroup, NEW n \in Nat, NEW values \in [1..n -> Entry]
  PROVE  FoldLeft(InsertOrReplace, group, values) \in ContentGroup
<1> DEFINE F == [p \in ContentGroup \X Entry |-> InsertOrReplace(p[1], p[2])]
           f == CHOOSE g : IsInsertion(g, n, group, values)
<1>1. Entry \subseteq ContentRow
  BY InfoAssumption DEF Entry, ContentRow
<1>2. F \in [ContentGroup \X Entry -> ContentGroup]
  BY <1>1, InsertTyped
<1>3. \A old \in ContentGroup, value \in Entry : F[<<old, value>>] = InsertOrReplace(old, value)
  OBVIOUS
<1>4. FoldLeft(InsertOrReplace, group, values) = f[1..n]
  <2>1. DOMAIN values = 1..n
    OBVIOUS
  <2> QED BY <2>1 DEF FoldLeft, MapThenFoldSet, IsInsertion
<1> HIDE DEF F, f
<1>5. PICK g : Unfolds(g, ContentGroup, Entry, group, F, n, values)
  BY <1>2, FoldUnfolds
<1>6. IsInsertion(g, n, group, values)
  BY <1>3, <1>5 DEF Unfolds, IsInsertion
<1>7. IsInsertion(f, n, group, values)
  BY <1>6 DEF f
<1>8. f[{}] = group
  BY <1>7 DEF IsInsertion
<1>9. ASSUME NEW i \in 1..n, f[1..(i - 1)] \in ContentGroup PROVE f[1..i] \in ContentGroup
  <2>1. f[1..i] = InsertOrReplace(f[1..(i - 1)], values[i])
    BY <1>7, PrefixOfFold DEF IsInsertion
  <2> QED BY <1>1, <1>9, <2>1, InsertTyped
<1> QED BY <1>4, <1>8, <1>9, StaysIn

(* What is true of a document and kept by deleting a label is true after any number. *)
LEMMA EntriesDeleted ==
  ASSUME NEW Good, NEW outcomes \in SUBSET Good, NEW n \in Nat, NEW labels \in [1..n -> Label],
         \A groups \in Good, label \in Label :
           RemoveContent(groups, VARIABLE_DETAILS, label) \subseteq Good
  PROVE  FoldLeft(RemoveEntry, outcomes, labels) \subseteq Good
<1> DEFINE Sets == SUBSET Good
           F == [p \in Sets \X Label |-> RemoveEntry(p[1], p[2])]
           f == CHOOSE g : IsRemoval(g, n, outcomes, labels)
<1>1. \A some \in Sets, label \in Label : RemoveEntry(some, label) \in Sets
  BY DEF RemoveEntry
<1>2. FoldLeft(RemoveEntry, outcomes, labels) = f[1..n]
  <2>1. DOMAIN labels = 1..n
    OBVIOUS
  <2> QED BY <2>1 DEF FoldLeft, MapThenFoldSet, IsRemoval
<1>3. outcomes \in Sets
  OBVIOUS
<1> HIDE DEF Sets, f
<1>4. F \in [Sets \X Label -> Sets]
  BY <1>1
<1>5. \A some \in Sets, label \in Label : F[<<some, label>>] = RemoveEntry(some, label)
  OBVIOUS
<1> HIDE DEF F
<1>6. PICK g : Unfolds(g, Sets, Label, outcomes, F, n, labels)
  BY <1>3, <1>4, FoldUnfolds
<1>7. IsRemoval(g, n, outcomes, labels)
  BY <1>5, <1>6 DEF Unfolds, IsRemoval
<1>8. IsRemoval(f, n, outcomes, labels)
  BY <1>7 DEF f
<1>9. f[{}] = outcomes
  BY <1>8 DEF IsRemoval
<1>10. ASSUME NEW i \in 1..n, f[1..(i - 1)] \in Sets PROVE f[1..i] \in Sets
  <2>1. f[1..i] = RemoveEntry(f[1..(i - 1)], labels[i])
    BY <1>8, PrefixOfFold DEF IsRemoval
  <2> QED BY <1>1, <1>10, <2>1
<1>11. f[1..n] \in Sets
  BY <1>3, <1>9, <1>10, StaysIn
<1> QED BY <1>2, <1>11 DEF Sets
----------------------------------------------------------------------------
(* The types, step by step. *)

LEMMA BatchHasLength ==
  ASSUME NEW S, NEW m \in Nat, NEW batch \in BoundedSeq(S, m)
  PROVE  \E n \in Nat : batch \in [1..n -> S]
BY DEF BoundedSeq, SeqOf

LEMMA InfoTypeInit == InfoInit => InfoTypeOK
BY InfoTypes DEF InfoInit, NoRows, IsTable

LEMMA ResetTyped ==
  ASSUME NEW signer, Reset(signer)
  PROVE  InfoTypeOK'
<1>1. Document(RootGroups) \in DocumentRow /\ Document(DaosGroups) \in DocumentRow
  BY FirstDocumentsTyped, DocumentTyped
<1>2. IsTable(documents', 0..MaxDocId, DocumentRow)
  <2>1. 0..1 \subseteq 0..MaxDocId
    BY GraphAssumption, InfoAssumption
  <2> QED BY <1>1, <2>1 DEF Reset, IsTable
<1>3. edges' \subseteq EdgeRow
  BY FirstDocumentsTyped, HashTyped, InfoAssumption DEF Reset, Edge, EdgeRow
<1> QED BY <1>2, <1>3, TypesNext

LEMMA AddDaoTyped ==
  ASSUME InfoTypeOK, NEW signer, NEW creator \in User, NEW dao_id \in 0..MaxName,
         AddDao(signer, creator, dao_id)
  PROVE  InfoTypeOK'
<1> DEFINE groups == InfoGroups(creator)
<1>1. PICK daos \in DaoNodes :
        edges' = edges \cup {Edge(daos, Hash(groups), dao_id), Edge(daos, Hash(groups), DAOS)}
  BY DEF AddDao
<1>2. dao_id \in 1..MaxName /\ DAOS \in 1..MaxName
  BY InfoAssumption DEF AddDao
<1>3. groups \in ContentGroups /\ Hash(groups) \in ContentGroups
  BY FirstDocumentsTyped, HashTyped
<1>4. edges \subseteq EdgeRow
  BY InfoTypes
<1>5. daos \in ContentGroups
  <2>1. PICK e \in edges : daos = e.to_node
    BY DEF DaoNodes, EdgesFrom
  <2> QED BY <1>4, <2>1 DEF EdgeRow
<1>6. IsTable(documents', 0..MaxDocId, DocumentRow)
  BY <1>3, EmplacedTyped DEF AddDao
<1>7. edges' \subseteq EdgeRow
  BY <1>1, <1>2, <1>3, <1>4, <1>5 DEF Edge, EdgeRow
<1> QED BY <1>6, <1>7, TypesNext

LEMMA StoreEntryTyped ==
  ASSUME InfoTypeOK, NEW signer, NEW values \in BoundedSeq(Entry, MaxEntries), NEW dao_id,
         StoreEntry(signer, values, dao_id)
  PROVE  InfoTypeOK'
<1>1. PICK node \in DaoInfNodes(dao_id) :
        LET groups == documents[IdOf(node)].content_groups
            i == GroupIndex(groups, VARIABLE_DETAILS)
        IN  /\ Exists(node) /\ HasGroup(groups, VARIABLE_DETAILS)
            /\ UpdateDocument(node, [groups EXCEPT ![i] = FoldLeft(InsertOrReplace, @, values)])
  BY DEF StoreEntry
<1> DEFINE groups == documents[IdOf(node)].content_groups
           i == GroupIndex(groups, VARIABLE_DETAILS)
           stored == FoldLeft(InsertOrReplace, groups[i], values)
<1>2. groups \in ContentGroups
  BY <1>1, FoundInTable DEF DocumentRow
<1>3. i \in 1..Len(groups)
  <2>1. i # 0
    BY <1>1 DEF HasGroup
  <2>2. i \in 0..Len(groups) /\ Len(groups) \in Nat
    BY <1>2, GroupIndexFound, LenProperties DEF ContentGroups
  <2> QED BY <2>1, <2>2
<1>4. stored \in ContentGroup
  <2>1. groups[i] \in ContentGroup
    BY <1>2, <1>3, ElementOfSeq DEF ContentGroups
  <2>2. PICK n \in Nat : values \in [1..n -> Entry]
    BY BatchHasLength, InfoAssumption
  <2> QED BY <2>1, <2>2, EntriesStored
<1>5. UpdateDocument(node, [groups EXCEPT ![i] = stored])
  BY <1>1
<1> HIDE DEF groups, i, stored
<1>6. [groups EXCEPT ![i] = stored] \in ContentGroups
  BY <1>2, <1>3, <1>4, ExceptSeq DEF ContentGroups
<1> QED BY <1>5, <1>6, UpdateKeepsTypes

LEMMA DelEntryTyped ==
  ASSUME InfoTypeOK, NEW signer, NEW labels \in BoundedSeq(Label, MaxLabels), NEW dao_id,
         DelEntry(signer, labels, dao_id)
  PROVE  InfoTypeOK'
<1>1. PICK node \in DaoInfNodes(dao_id) :
        LET groups == documents[IdOf(node)].content_groups IN
        /\ Exists(node)
        /\ \E changed \in FoldLeft(RemoveEntry, {groups}, labels) : UpdateDocument(node, changed)
  BY DEF DelEntry
<1> DEFINE groups == documents[IdOf(node)].content_groups
<1>2. groups \in ContentGroups
  BY <1>1, FoundInTable DEF DocumentRow
<1>3. PICK changed \in FoldLeft(RemoveEntry, {groups}, labels) : UpdateDocument(node, changed)
  BY <1>1
<1> HIDE DEF groups
<1>4. \A some \in ContentGroups, label \in Label :
        RemoveContent(some, VARIABLE_DETAILS, label) \subseteq ContentGroups
  BY RemoveAtPlaceTyped DEF RemoveContent
<1>5. PICK n \in Nat : labels \in [1..n -> Label]
  BY BatchHasLength, InfoAssumption
<1>6. FoldLeft(RemoveEntry, {groups}, labels) \subseteq ContentGroups
  BY <1>2, <1>4, <1>5, EntriesDeleted
<1> QED BY <1>3, <1>6, UpdateKeepsTypes

(***************************************************************************)
(* Whatever is stored, deleted and replaced, documents are sequences of    *)
(* groups of labelled values under ids in range, and no edge has the empty *)
(* name.                                                                   *)
(***************************************************************************)
THEOREM InfoTypeCorrect == InfoSpec => []InfoTypeOK
<1>1. InfoTypeOK /\ [InfoNext]_graphVars => InfoTypeOK'
  <2> SUFFICES ASSUME InfoTypeOK, [InfoNext]_graphVars PROVE InfoTypeOK'
    OBVIOUS
  <2>1. CASE UNCHANGED graphVars
    <3>1. UNCHANGED <<documents, edges>>
      BY <2>1 DEF graphVars
    <3> QED BY <3>1, InfoTypes, TypesNext
  <2>2. CASE InfoNext
    BY <2>2, ResetTyped, AddDaoTyped, StoreEntryTyped, DelEntryTyped DEF InfoNext
  <2> QED BY <2>1, <2>2
<1> QED BY <1>1, InfoTypeInit, PTL DEF InfoSpec
----------------------------------------------------------------------------
(***************************************************************************)
(* Organizations' documents as profiles: two groups, the first of which    *)
(* names the owner for ever.                                               *)
(***************************************************************************)
OwnerDetails(creator) == Details(FIXED_DETAILS, <<Content(CREATOR, NameOf(creator))>>)

\* The documents an organization's may become.
SameOwner(owner) == {groups \in ContentGroups : Len(groups) = 2 /\ groups[1] = owner}

IsProfile(row) ==
  /\ row = Document(row.content_groups)
  /\ \E creator \in User : row.content_groups \in SameOwner(OwnerDetails(creator))

(* The first group is not the one that is changed. *)
LEMMA OwnerIsFixed ==
  ASSUME NEW creator
  PROVE  String(VARIABLE_DETAILS) \notin Labels(OwnerDetails(creator))
<1> DEFINE group == OwnerDetails(creator)
<1>1. group = <<Content(GroupLabel, String(FIXED_DETAILS)), Content(CREATOR, NameOf(creator)),
                Content(OWNER, NameOf(Self))>>
  BY ThreeContents DEF OwnerDetails
<1>2. DOMAIN group = 1..3 /\ group[1] = Content(GroupLabel, String(FIXED_DETAILS))
      /\ group[2].label = CREATOR /\ group[3].label = OWNER
  BY <1>1 DEF Content
<1>3. {j \in DOMAIN group : group[j].label = GroupLabel} \subseteq {1}
  BY <1>2 DEF GroupLabel, CREATOR, OWNER
<1>4. group[1].value # String(VARIABLE_DETAILS)
  BY <1>2 DEF Content, String, FIXED_DETAILS, VARIABLE_DETAILS
<1> HIDE DEF group
<1> QED BY <1>3, <1>4 DEF Labels, group

LEMMA VariableIsSecond ==
  ASSUME NEW creator, NEW groups \in SameOwner(OwnerDetails(creator)),
         HasGroup(groups, VARIABLE_DETAILS)
  PROVE  GroupIndex(groups, VARIABLE_DETAILS) = 2
<1> DEFINE i == GroupIndex(groups, VARIABLE_DETAILS)
<1>1. groups \in Seq(ContentGroup) /\ Len(groups) = 2 /\ groups[1] = OwnerDetails(creator)
  BY DEF SameOwner, ContentGroups
<1>2. i \in 0..Len(groups) /\ (i # 0 => String(VARIABLE_DETAILS) \in Labels(groups[i]))
  BY <1>1, GroupIndexFound
<1>3. i # 0
  BY DEF HasGroup
<1> HIDE DEF i
<1>4. i # 1
  BY <1>1, <1>2, <1>3, OwnerIsFixed
<1>5. i = 2
  BY <1>1, <1>2, <1>3, <1>4
<1> QED BY <1>5 DEF i

(* Storing entries and deleting them leave the owner as he is. *)
LEMMA StoredSameOwner ==
  ASSUME NEW creator, NEW groups \in SameOwner(OwnerDetails(creator)),
         HasGroup(groups, VARIABLE_DETAILS), NEW group \in ContentGroup
  PROVE  [groups EXCEPT ![GroupIndex(groups, VARIABLE_DETAILS)] = group]
           \in SameOwner(OwnerDetails(creator))
<1>1. GroupIndex(groups, VARIABLE_DETAILS) = 2
  BY VariableIsSecond
<1>2. groups \in Seq(ContentGroup) /\ Len(groups) = 2 /\ groups[1] = OwnerDetails(creator)
  BY DEF SameOwner, ContentGroups
<1>3. 2 \in 1..Len(groups) /\ 1 \in 1..Len(groups)
  BY <1>2
<1>4. /\ [groups EXCEPT ![2] = group] \in Seq(ContentGroup)
      /\ Len([groups EXCEPT ![2] = group]) = 2
      /\ [groups EXCEPT ![2] = group][1] = groups[1]
  BY <1>2, <1>3, ExceptSeq
<1> QED BY <1>1, <1>2, <1>4 DEF SameOwner, ContentGroups

LEMMA RemovedSameOwner ==
  ASSUME NEW creator, NEW groups \in SameOwner(OwnerDetails(creator)), NEW label
  PROVE  RemoveContent(groups, VARIABLE_DETAILS, label) \subseteq SameOwner(OwnerDetails(creator))
<1> SUFFICES ASSUME NEW changed \in RemoveContent(groups, VARIABLE_DETAILS, label)
             PROVE  changed \in SameOwner(OwnerDetails(creator))
  OBVIOUS
<1>1. /\ HasGroup(groups, VARIABLE_DETAILS)
      /\ changed \in RemoveAtPlace(groups, GroupIndex(groups, VARIABLE_DETAILS), label)
  BY DEF RemoveContent
<1>2. changed \in RemoveAtPlace(groups, 2, label)
  BY <1>1, VariableIsSecond
<1>3. groups \in ContentGroups /\ Len(groups) = 2 /\ groups[1] = OwnerDetails(creator)
  BY DEF SameOwner
<1>4. /\ changed \in ContentGroups /\ Len(changed) = Len(groups)
      /\ \A j \in 1..Len(groups) : j # 2 => changed[j] = groups[j]
  BY <1>2, <1>3, RemoveAtPlaceTyped
<1>5. changed[1] = groups[1]
  BY <1>3, <1>4
<1> QED BY <1>3, <1>4, <1>5 DEF SameOwner

(* What an organization's document is when it is added. *)
LEMMA AddedIsProfile ==
  ASSUME NEW creator \in User
  PROVE  /\ InfoGroups(creator) \in SameOwner(OwnerDetails(creator))
         /\ InfoGroups(creator)[2] = InfoGroups(Self)[2]
         /\ WrittenGroup(InfoGroups(creator)[2]) = InfoGroups(creator)[2]
<1> DEFINE label == Content(GroupLabel, String(VARIABLE_DETAILS))
           owner == Content(OWNER, NameOf(Self))
<1>1. \A other : InfoGroups(other) = <<OwnerDetails(other), Details(VARIABLE_DETAILS, << >>)>>
  BY DEF InfoGroups, OwnerDetails
<1>2. InfoGroups(creator) \in ContentGroups
  BY FirstDocumentsTyped
<1>3. Details(VARIABLE_DETAILS, << >>) = <<label, owner>>
  <2> DEFINE S == {label, owner}
  <2>1. <<label>> \in Seq(S) /\ <<owner>> \in Seq(S) /\ <<label, owner>> \in Seq(S)
    OBVIOUS
  <2>2. <<label>> \o << >> = <<label>>
    BY <2>1, ConcatEmptySeq
  <2> DEFINE s == <<label>> \o <<owner>>
  <2>3. /\ s \in Seq(S) /\ Len(s) = 2
        /\ \A i \in 1..2 : s[i] = IF i <= 1 THEN <<label>>[i] ELSE <<owner>>[i - 1]
    BY <2>1, ConcatProperties
  <2> HIDE DEF s
  <2>4. \A i \in 1..2 : s[i] = <<label, owner>>[i]
    BY <2>3
  <2>5. s = <<label, owner>>
    BY <2>1, <2>3, <2>4, SeqEqual
  <2> QED BY <2>2, <2>5 DEF Details, s
<1>4. Written(label) = label /\ Written(owner) = owner
  BY DEF Written, Content, String, NameOf, Nothing
<1> HIDE DEF label, owner
<1>5. WrittenGroup(<<label, owner>>) = <<label, owner>>
  <2>1. Len(<<label, owner>>) = 2 /\ DOMAIN <<label, owner>> = 1..2
    OBVIOUS
  <2>2. WrittenGroup(<<label, owner>>) = [i \in 1..2 |-> Written(<<label, owner>>[i])]
    BY <2>1 DEF WrittenGroup
  <2> QED BY <1>4, <2>2
<1> QED BY <1>1, <1>2, <1>3, <1>5 DEF SameOwner
----------------------------------------------------------------------------
(* Organizations' documents stay profiles. *)

AllAreProfiles == \A id \in InfoIds : IsProfile(documents[id])

LEMMA AddDaoKeepsProfiles ==
  ASSUME AllAreProfiles, NEW creator \in User, NEW dao_id, DaoAdded(InfoGroups(creator), dao_id)
  PROVE  AllAreProfiles'
<1>1. IsProfile(Document(InfoGroups(creator)))
  BY AddedIsProfile DEF IsProfile, Document
<1> QED BY <1>1 DEF AllAreProfiles, DaoAdded

LEMMA ReplaceKeepsProfiles ==
  ASSUME AllAreProfiles, NEW node, NEW groups, DaoReplaced(node, groups),
         NEW creator \in User, groups \in SameOwner(OwnerDetails(creator))
  PROVE  AllAreProfiles'
<1>1. IsProfile(Document(groups))
  BY DEF IsProfile, Document
<1> QED BY <1>1 DEF AllAreProfiles, DaoReplaced

(* The document kept under an organization's hash names its owner and says so in the hash. *)
LEMMA OwnerOfInfo ==
  ASSUME TreeDocuments, AllAreProfiles, NEW node \in InfoHashes
  PROVE  LET groups == documents[IdOf(node)].content_groups IN
         node = Hash(groups) /\ \E creator \in User : groups \in SameOwner(OwnerDetails(creator))
<1>1. PICK id \in InfoIds : documents[id].hash = node
  BY DEF InfoHashes
<1>2. Exists(node)
  BY <1>1 DEF Exists, IdsOf, InfoIds
<1>3. IdOf(node) \in DOMAIN documents /\ documents[IdOf(node)].hash = node
  BY <1>2, IdOfStored DEF TreeDocuments
<1>4. IdOf(node) = id
  BY <1>1, <1>3 DEF TreeDocuments, DocumentsTabled, InfoIds
<1>5. IsProfile(documents[id])
  BY DEF AllAreProfiles
<1>6. documents[id] = Document(documents[id].content_groups)
  BY <1>5 DEF IsProfile
<1>7. documents[id].hash = Hash(documents[id].content_groups)
  BY <1>6 DEF Document
<1> QED BY <1>1, <1>4, <1>5, <1>7 DEF IsProfile

(***************************************************************************)
(* What an entry stored or deleted leaves of a document, with its owner.   *)
(***************************************************************************)
Rewrites(node, groups) ==
  /\ UpdateDocument(node, groups)
  /\ \E creator \in User : /\ documents[IdOf(node)].content_groups \in SameOwner(OwnerDetails(creator))
                           /\ groups \in SameOwner(OwnerDetails(creator))

LEMMA StoreEntryRewrites ==
  ASSUME TreeDocuments, TreeEdges, AllAreProfiles, NEW signer, NEW dao_id,
         NEW values \in BoundedSeq(Entry, MaxEntries), StoreEntry(signer, values, dao_id)
  PROVE  \E node \in InfoHashes : \E groups : Rewrites(node, groups)
<1>1. PICK node \in DaoInfNodes(dao_id) :
        LET groups == documents[IdOf(node)].content_groups
            i == GroupIndex(groups, VARIABLE_DETAILS)
        IN  /\ Exists(node) /\ MayChange(signer, groups) /\ HasGroup(groups, VARIABLE_DETAILS)
            /\ UpdateDocument(node, [groups EXCEPT ![i] = FoldLeft(InsertOrReplace, @, values)])
  BY DEF StoreEntry
<1> DEFINE groups == documents[IdOf(node)].content_groups
           i == GroupIndex(groups, VARIABLE_DETAILS)
           stored == FoldLeft(InsertOrReplace, groups[i], values)
<1>2. node \in InfoHashes
  BY <1>1, ChangedIsInfo
<1>3. PICK creator \in User : groups \in SameOwner(OwnerDetails(creator))
  BY <1>2, OwnerOfInfo
<1>4. stored \in ContentGroup
  <2>1. groups \in Seq(ContentGroup) /\ Len(groups) = 2
    BY <1>3 DEF SameOwner, ContentGroups
  <2>2. i = 2
    BY <1>1, <1>3, VariableIsSecond
  <2>3. groups[i] \in ContentGroup
    BY <2>1, <2>2, ElementOfSeq
  <2>4. PICK n \in Nat : values \in [1..n -> Entry]
    BY BatchHasLength, InfoAssumption
  <2> QED BY <2>3, <2>4, EntriesStored
<1>5. UpdateDocument(node, [groups EXCEPT ![i] = stored])
  BY <1>1
<1>6. HasGroup(groups, VARIABLE_DETAILS)
  BY <1>1
<1> HIDE DEF stored, groups
<1>7. [groups EXCEPT ![i] = stored] \in SameOwner(OwnerDetails(creator))
  BY <1>3, <1>4, <1>6, StoredSameOwner
<1> QED BY <1>2, <1>3, <1>5, <1>7 DEF Rewrites, groups

LEMMA DelEntryRewrites ==
  ASSUME TreeDocuments, TreeEdges, AllAreProfiles, NEW signer, NEW dao_id,
         NEW labels \in BoundedSeq(Label, MaxLabels), DelEntry(signer, labels, dao_id)
  PROVE  \E node \in InfoHashes : \E groups : Rewrites(node, groups)
<1>1. PICK node \in DaoInfNodes(dao_id) :
        LET groups == documents[IdOf(node)].content_groups IN
        /\ Exists(node) /\ MayChange(signer, groups)
        /\ \E changed \in FoldLeft(RemoveEntry, {groups}, labels) : UpdateDocument(node, changed)
  BY DEF DelEntry
<1> DEFINE groups == documents[IdOf(node)].content_groups
<1>2. node \in InfoHashes
  BY <1>1, ChangedIsInfo
<1>3. PICK creator \in User : groups \in SameOwner(OwnerDetails(creator))
  BY <1>2, OwnerOfInfo
<1>4. PICK changed \in FoldLeft(RemoveEntry, {groups}, labels) : UpdateDocument(node, changed)
  BY <1>1
<1> HIDE DEF groups
<1>5. PICK n \in Nat : labels \in [1..n -> Label]
  BY BatchHasLength, InfoAssumption
<1>6. \A some \in SameOwner(OwnerDetails(creator)), label \in Label :
        RemoveContent(some, VARIABLE_DETAILS, label) \subseteq SameOwner(OwnerDetails(creator))
  BY RemovedSameOwner
<1>7. FoldLeft(RemoveEntry, {groups}, labels) \subseteq SameOwner(OwnerDetails(creator))
  BY <1>3, <1>5, <1>6, EntriesDeleted
<1> QED BY <1>2, <1>3, <1>4, <1>7 DEF Rewrites, groups
----------------------------------------------------------------------------
(***************************************************************************)
(* The set of profiles: one for each hash of an organization's document,   *)
(* named by the edge that is not "daos".                                   *)
(***************************************************************************)
HashesOf(rows) == {rows[id].hash : id \in DOMAIN rows \ {0, 1}}

ProfileOf(name, hash) == [dao_id |-> name, fixed |-> hash[1], says |-> hash[2]]

LinkedAs(es, hash, name) ==
  name # DAOS /\ Reaching(es, hash) = {Edge(DaosHash, hash, name), Edge(DaosHash, hash, DAOS)}

NameIn(es, hash) == CHOOSE name : LinkedAs(es, hash, name)

ProfilesIn(rows, es) ==
  UNION {{ProfileOf(e.edge_name, rows[id].hash) :
            e \in {link \in Reaching(es, rows[id].hash) : link.edge_name # DAOS}} :
           id \in DOMAIN rows \ {0, 1}}

LEMMA NameInUnique ==
  ASSUME NEW es, NEW hash, NEW name, LinkedAs(es, hash, name)
  PROVE  /\ NameIn(es, hash) = name
         /\ {link.edge_name : link \in {e \in Reaching(es, hash) : e.edge_name # DAOS}} = {name}
<1>1. \A n : Edge(DaosHash, hash, n).edge_name = n
  BY DEF Edge
<1>2. ASSUME NEW other, LinkedAs(es, hash, other) PROVE other = name
  <2>1. Edge(DaosHash, hash, other) \in {Edge(DaosHash, hash, name), Edge(DaosHash, hash, DAOS)}
    BY <1>2 DEF LinkedAs
  <2> QED BY <1>1, <1>2, <2>1 DEF LinkedAs
<1>3. NameIn(es, hash) = name
  BY <1>2 DEF NameIn
<1> QED BY <1>1, <1>3 DEF LinkedAs

LEMMA OneProfileEach ==
  ASSUME NEW rows, NEW es, \A hash \in HashesOf(rows) : \E name : LinkedAs(es, hash, name)
  PROVE  ProfilesIn(rows, es) = {ProfileOf(NameIn(es, hash), hash) : hash \in HashesOf(rows)}
<1>1. ASSUME NEW id \in DOMAIN rows \ {0, 1}
      PROVE  {ProfileOf(e.edge_name, rows[id].hash) :
                e \in {link \in Reaching(es, rows[id].hash) : link.edge_name # DAOS}}
               = {ProfileOf(NameIn(es, rows[id].hash), rows[id].hash)}
  <2> DEFINE hash == rows[id].hash
             links == {e \in Reaching(es, hash) : e.edge_name # DAOS}
  <2>1. PICK name : LinkedAs(es, hash, name)
    BY DEF HashesOf
  <2>2. NameIn(es, hash) = name /\ {link.edge_name : link \in links} = {name}
    BY <2>1, NameInUnique
  <2> HIDE DEF hash, links
  <2>3. {ProfileOf(e.edge_name, hash) : e \in links} = {ProfileOf(name, hash)}
    BY <2>2
  <2> QED BY <2>2, <2>3 DEF hash, links
<1> QED BY <1>1 DEF ProfilesIn, HashesOf

\* The set the abstract specification speaks of.
AllProfiles == ProfilesIn(documents, edges)

LEMMA KeptProfiles ==
  /\ Kept!Init <=> AllProfiles = {}
  /\ Kept!Clear <=> AllProfiles' = {}
  /\ \A p : Kept!Unsaid(p) <=> \A q \in AllProfiles : q.fixed = p.fixed => q.says # p.says
  /\ \A p : Kept!Add(p) <=> p.says = InfoGroups(Self)[2] /\ AllProfiles' = AllProfiles \cup {p}
  /\ \A p, q : Kept!Change(q, p) <=> /\ p.dao_id = q.dao_id /\ p.fixed = q.fixed
                                     /\ AllProfiles' = (AllProfiles \ {q}) \cup {p}
<1>1. Kept!Init <=> AllProfiles = {}
  BY DEF Kept!Init, AllProfiles, ProfilesIn, ProfileOf, Profile, InfoIds
<1>2. Kept!Clear <=> AllProfiles' = {}
  BY DEF Kept!Clear, AllProfiles, ProfilesIn, ProfileOf, Profile, InfoIds
<1>3. \A p : Kept!Unsaid(p) <=> \A q \in AllProfiles : q.fixed = p.fixed => q.says # p.says
  BY DEF Kept!Unsaid, AllProfiles, ProfilesIn, ProfileOf, Profile, InfoIds
<1>4. \A p : Kept!Add(p) <=> p.says = InfoGroups(Self)[2] /\ AllProfiles' = AllProfiles \cup {p}
  BY DEF Kept!Add, AllProfiles, ProfilesIn, ProfileOf, Profile, InfoIds
<1>5. \A p, q : Kept!Change(q, p) <=> /\ p.dao_id = q.dao_id /\ p.fixed = q.fixed
                                     /\ AllProfiles' = (AllProfiles \ {q}) \cup {p}
  BY DEF Kept!Change, AllProfiles, ProfilesIn, ProfileOf, Profile, InfoIds
<1> QED BY <1>1, <1>2, <1>3, <1>4, <1>5
LEMMA KeptNext ==
  Kept!Next <=> \/ Kept!Clear
                \/ \E p \in AllProfiles' \ AllProfiles :
                     Kept!Unsaid(p) /\ (Kept!Add(p) \/ \E q \in AllProfiles : Kept!Change(q, p))
BY DEF Kept!Next, AllProfiles, ProfilesIn, ProfileOf, Profile, InfoIds

LEMMA NoInfosNoProfiles ==
  ASSUME NEW rows, NEW es, DOMAIN rows \subseteq {0, 1}
  PROVE  ProfilesIn(rows, es) = {}
BY DEF ProfilesIn

(* Two parts make a profile's hash. *)
LEMMA HashOfOwner ==
  ASSUME NEW creator, NEW groups \in SameOwner(OwnerDetails(creator))
  PROVE  /\ Hash(groups) = [i \in 1..2 |-> Hash(groups)[i]]
         /\ Hash(groups)[1] = WrittenGroup(OwnerDetails(creator))
         /\ Hash(groups)[2] = WrittenGroup(groups[2])
<1>1. groups \in Seq(ContentGroup) /\ Len(groups) = 2 /\ groups[1] = OwnerDetails(creator)
  BY DEF SameOwner, ContentGroups
<1>2. DOMAIN groups = 1..2
  BY <1>1
<1> QED BY <1>1, <1>2 DEF Hash

LEMMA HashesAreInfos ==
  ASSUME TreeEdges
  PROVE  /\ HashesOf(documents) = InfoHashes
         /\ \A hash \in HashesOf(documents) : \E name : LinkedAs(edges, hash, name)
<1>1. HashesOf(documents) = InfoHashes
  BY DEF HashesOf, InfoHashes, InfoIds
<1> QED BY <1>1 DEF TreeEdges, LinkedAs

LEMMA HashesAreInfosNext ==
  ASSUME TreeEdges'
  PROVE  /\ HashesOf(documents') = InfoHashes'
         /\ \A hash \in HashesOf(documents') : \E name : LinkedAs(edges', hash, name)
<1>1. HashesOf(documents') = InfoHashes'
  BY DEF HashesOf, InfoHashes, InfoIds
<1> QED BY <1>1 DEF TreeEdges, LinkedAs

LEMMA ProfilesKnown ==
  ASSUME TreeEdges
  PROVE  AllProfiles = {ProfileOf(NameIn(edges, hash), hash) : hash \in InfoHashes}
<1> DEFINE rows == documents
<1>1. /\ HashesOf(rows) = InfoHashes
      /\ \A hash \in HashesOf(rows) : \E name : LinkedAs(edges, hash, name)
  BY HashesAreInfos
<1> HIDE DEF rows
<1>2. ProfilesIn(rows, edges) = {ProfileOf(NameIn(edges, hash), hash) : hash \in HashesOf(rows)}
  BY <1>1, OneProfileEach
<1> QED BY <1>1, <1>2 DEF AllProfiles, rows

LEMMA ProfilesKnownNext ==
  ASSUME TreeEdges'
  PROVE  AllProfiles' = {ProfileOf(NameIn(edges', hash), hash) : hash \in InfoHashes'}
<1> DEFINE rows == documents'
           es == edges'
<1>1. /\ HashesOf(rows) = InfoHashes'
      /\ \A hash \in HashesOf(rows) : \E name : LinkedAs(es, hash, name)
  BY HashesAreInfosNext
<1> HIDE DEF rows, es
<1>2. ProfilesIn(rows, es) = {ProfileOf(NameIn(es, hash), hash) : hash \in HashesOf(rows)}
  BY <1>1, OneProfileEach
<1> QED BY <1>1, <1>2 DEF AllProfiles, rows, es

(* No two organizations' documents say the same of the same owner. *)
LEMMA ToldApart ==
  ASSUME TreeDocuments, AllAreProfiles, NEW creator, NEW groups \in SameOwner(OwnerDetails(creator)),
         NEW hash \in InfoHashes, hash[1] = Hash(groups)[1], hash[2] = Hash(groups)[2]
  PROVE  hash = Hash(groups)
<1>1. PICK owner \in User : \E old \in SameOwner(OwnerDetails(owner)) : hash = Hash(old)
  BY OwnerOfInfo
<1>2. hash = [i \in 1..2 |-> hash[i]] /\ Hash(groups) = [i \in 1..2 |-> Hash(groups)[i]]
  BY <1>1, HashOfOwner
<1>3. \A i \in 1..2 : hash[i] = Hash(groups)[i]
  OBVIOUS
<1> QED BY <1>2, <1>3
----------------------------------------------------------------------------
(* The steps of the register of profiles. *)

LEMMA AddIsKeptAdd ==
  ASSUME TreeDocuments, TreeEdges, TreeEdges', AllAreProfiles,
         NEW creator \in User, NEW dao_id, DaoAdded(InfoGroups(creator), dao_id)
  PROVE  Kept!Next
<1> DEFINE groups == InfoGroups(creator)
           new == Hash(groups)
           p == ProfileOf(dao_id, new)
<1>1. /\ groups \in SameOwner(OwnerDetails(creator)) /\ groups[2] = InfoGroups(Self)[2]
      /\ WrittenGroup(groups[2]) = groups[2]
  BY AddedIsProfile
<1>2. new[2] = InfoGroups(Self)[2]
  BY <1>1, HashOfOwner
<1>3. /\ new \notin InfoHashes /\ InfoHashes' = InfoHashes \cup {new}
      /\ \A hash \in InfoHashes : NameIn(edges', hash) = NameIn(edges, hash)
      /\ LinkedAs(edges', new, dao_id)
  <2>1. InfoHashes' = InfoHashes \cup {new}
    <3>1. documents'[NextKey(documents)].hash = new
      BY DEF DaoAdded, Document
    <3> QED BY <3>1 DEF DaoAdded, InfoHashes
  <2> QED BY <2>1 DEF DaoAdded, NameIn, LinkedAs
<1>4. NameIn(edges', new) = dao_id
  BY <1>3, NameInUnique
<1>5. AllProfiles = {ProfileOf(NameIn(edges, hash), hash) : hash \in InfoHashes}
  BY ProfilesKnown
<1>6. AllProfiles' = {ProfileOf(NameIn(edges', hash), hash) : hash \in InfoHashes'}
  BY ProfilesKnownNext
<1>7. \A hash \in InfoHashes : hash[1] = new[1] => hash[2] # new[2]
  BY <1>1, <1>3, ToldApart
<1> HIDE DEF groups, new
<1>8. AllProfiles' = AllProfiles \cup {p}
  BY <1>3, <1>4, <1>5, <1>6
<1>9. \A q \in AllProfiles : q.fixed = p.fixed => q.says # p.says
  BY <1>5, <1>7 DEF ProfileOf
<1>10. p \notin AllProfiles /\ p.says = InfoGroups(Self)[2]
  BY <1>2, <1>9 DEF ProfileOf
<1> HIDE DEF p
<1>11. p \in AllProfiles' \ AllProfiles
  BY <1>8, <1>10
<1>12. Kept!Unsaid(p) /\ Kept!Add(p)
  BY <1>8, <1>9, <1>10, KeptProfiles
<1> QED BY <1>11, <1>12, KeptNext

LEMMA RewriteIsKeptChange ==
  ASSUME TreeDocuments, TreeEdges, TreeEdges', AllAreProfiles,
         NEW node \in InfoHashes, NEW groups, Rewrites(node, groups), DaoReplaced(node, groups)
  PROVE  Kept!Next
<1> DEFINE new == Hash(groups)
<1>1. PICK creator \in User : /\ documents[IdOf(node)].content_groups \in SameOwner(OwnerDetails(creator))
                              /\ groups \in SameOwner(OwnerDetails(creator))
  BY DEF Rewrites
<1>2. node = Hash(documents[IdOf(node)].content_groups)
  BY OwnerOfInfo
<1>3. new[1] = node[1]
  BY <1>1, <1>2, HashOfOwner
<1>4. PICK name : LinkedAs(edges, node, name)
  BY DEF TreeEdges, LinkedAs
<1>5. /\ new \notin InfoHashes /\ InfoHashes' = (InfoHashes \ {node}) \cup {new}
      /\ \A hash \in InfoHashes \ {node} : NameIn(edges', hash) = NameIn(edges, hash)
      /\ LinkedAs(edges', new, name)
  <2>1. InfoHashes' = (InfoHashes \ {node}) \cup {new}
    <3>1. documents'[NextKey(documents)].hash = new
      BY DEF DaoReplaced, Document
    <3> QED BY <3>1 DEF DaoReplaced, InfoHashes
  <2> QED BY <1>4, <2>1 DEF DaoReplaced, NameIn, LinkedAs
<1>6. NameIn(edges, node) = name /\ NameIn(edges', new) = name
  BY <1>4, <1>5, NameInUnique
<1>7. AllProfiles = {ProfileOf(NameIn(edges, hash), hash) : hash \in InfoHashes}
  BY ProfilesKnown
<1>8. AllProfiles' = {ProfileOf(NameIn(edges', hash), hash) : hash \in InfoHashes'}
  BY ProfilesKnownNext
<1>9. \A hash \in InfoHashes : hash[1] = new[1] => hash[2] # new[2]
  BY <1>1, <1>5, ToldApart
<1>10. \A hash \in InfoHashes : hash[1] = node[1] /\ hash[2] = node[2] => hash = node
  BY <1>1, <1>2, ToldApart
<1> DEFINE p == ProfileOf(name, new)
           q == ProfileOf(name, node)
<1> HIDE DEF new
<1>11. /\ p.dao_id = name /\ p.fixed = new[1] /\ p.says = new[2]
       /\ q.dao_id = name /\ q.fixed = node[1] /\ q.says = node[2]
  BY DEF ProfileOf
<1>12. \A hash \in InfoHashes : ProfileOf(NameIn(edges, hash), hash) = q => hash = node
  BY <1>10 DEF ProfileOf
<1>13. q \in AllProfiles /\ AllProfiles' = (AllProfiles \ {q}) \cup {p}
  <2>1. AllProfiles \ {q} = {ProfileOf(NameIn(edges, hash), hash) : hash \in InfoHashes \ {node}}
    BY <1>6, <1>7, <1>12
  <2>2. AllProfiles' = {ProfileOf(NameIn(edges, hash), hash) : hash \in InfoHashes \ {node}} \cup {p}
    BY <1>5, <1>6, <1>8
  <2> QED BY <1>6, <1>7, <2>1, <2>2
<1>14. \A other \in AllProfiles : other.fixed = p.fixed => other.says # p.says
  BY <1>7, <1>9 DEF ProfileOf
<1> HIDE DEF p, q
<1>15. p \in AllProfiles' \ AllProfiles
  BY <1>13, <1>14
<1>16. Kept!Unsaid(p) /\ Kept!Change(q, p)
  BY <1>3, <1>11, <1>13, <1>14, KeptProfiles
<1> QED BY <1>13, <1>15, <1>16, KeptNext
----------------------------------------------------------------------------
\* The documents of the organizations are profiles, or there are none.
ProfilesInv == InfoInv /\ AllAreProfiles

LEMMA ProfilesInit == InfoInit => ProfilesInv /\ Kept!Init
<1> SUFFICES ASSUME InfoInit PROVE ProfilesInv /\ Kept!Init
  OBVIOUS
<1>1. DOMAIN documents \subseteq {0, 1}
  BY DEF InfoInit, NoRows
<1>2. AllAreProfiles
  BY <1>1 DEF AllAreProfiles, InfoIds
<1>3. AllProfiles = {}
  BY <1>1, NoInfosNoProfiles DEF AllProfiles
<1> QED BY <1>2, <1>3, InfoInvInit, KeptProfiles DEF ProfilesInv

LEMMA ProfilesStep ==
  ProfilesInv /\ RootLinkTold /\ [InfoNext]_graphVars
    => ProfilesInv' /\ (Kept!Next \/ UNCHANGED AllProfiles)
<1> SUFFICES ASSUME ProfilesInv, RootLinkTold, [InfoNext]_graphVars
             PROVE  AllAreProfiles' /\ (Kept!Next \/ UNCHANGED AllProfiles)
  BY InfoInvStep DEF ProfilesInv
<1>1. AllAreProfiles /\ ((TreeDocuments /\ TreeEdges) \/ documents = NoRows)
  BY DEF ProfilesInv, InfoInv
<1>2. ASSUME documents = NoRows PROVE DaoNodes = {} /\ \A dao_id : DaoInfNodes(dao_id) = {}
  BY <1>2 DEF DaoNodes, DaoInfNodes
<1>3. ASSUME NEW signer, Reset(signer)
      PROVE  AllAreProfiles' /\ Kept!Next
  <2>1. DOMAIN documents' \subseteq {0, 1}
    BY <1>3 DEF Reset
  <2>2. AllAreProfiles'
    BY <2>1 DEF AllAreProfiles, InfoIds
  <2>3. AllProfiles' = {}
    <3> DEFINE rows == documents'
    <3>1. DOMAIN rows \subseteq {0, 1}
      BY <2>1
    <3> HIDE DEF rows
    <3>2. ProfilesIn(rows, edges') = {}
      BY <3>1, NoInfosNoProfiles
    <3> QED BY <3>2 DEF AllProfiles, rows
  <2> QED BY <2>2, <2>3, KeptProfiles, KeptNext
<1>4. ASSUME NEW signer, NEW creator \in User, NEW dao_id, AddDao(signer, creator, dao_id)
      PROVE  AllAreProfiles' /\ Kept!Next
  <2>1. TreeDocuments /\ TreeEdges
    BY <1>1, <1>2, <1>4 DEF AddDao
  <2>2. TreeEdges' /\ DaoAdded(InfoGroups(creator), dao_id)
    BY <1>4, <2>1, AddDaoKeeps
  <2> QED BY <1>1, <2>1, <2>2, AddDaoKeepsProfiles, AddIsKeptAdd
<1>5. ASSUME TreeDocuments, TreeEdges, \E node \in InfoHashes : \E groups : Rewrites(node, groups)
      PROVE  AllAreProfiles' /\ Kept!Next
  <2>1. PICK node \in InfoHashes : \E groups : Rewrites(node, groups)
    BY <1>5
  <2>2. PICK groups : Rewrites(node, groups)
    BY <2>1
  <2>3. TreeEdges' /\ DaoReplaced(node, groups)
    BY <1>5, <2>2, ReplaceKeeps DEF Rewrites
  <2>4. AllAreProfiles'
    BY <1>1, <2>2, <2>3, ReplaceKeepsProfiles DEF Rewrites
  <2> QED BY <1>1, <1>5, <2>2, <2>3, <2>4, RewriteIsKeptChange
<1>6. ASSUME NEW signer, NEW values \in BoundedSeq(Entry, MaxEntries), NEW dao_id,
             StoreEntry(signer, values, dao_id)
      PROVE  AllAreProfiles' /\ Kept!Next
  <2>1. TreeDocuments /\ TreeEdges
    BY <1>1, <1>2, <1>6 DEF StoreEntry
  <2> QED BY <1>1, <1>5, <1>6, <2>1, StoreEntryRewrites
<1>7. ASSUME NEW signer, NEW labels \in BoundedSeq(Label, MaxLabels), NEW dao_id,
             DelEntry(signer, labels, dao_id)
      PROVE  AllAreProfiles' /\ Kept!Next
  <2>1. TreeDocuments /\ TreeEdges
    BY <1>1, <1>2, <1>7 DEF DelEntry
  <2> QED BY <1>1, <1>5, <1>7, <2>1, DelEntryRewrites
<1>8. CASE UNCHANGED graphVars
  <2>1. UNCHANGED <<documents, edges>>
    BY <1>8 DEF graphVars
  <2>2. AllAreProfiles'
    BY <1>1, <2>1 DEF AllAreProfiles, InfoIds
  <2>3. UNCHANGED AllProfiles
    BY <2>1 DEF AllProfiles
  <2> QED BY <2>2, <2>3
<1> QED BY <1>3, <1>4, <1>6, <1>7, <1>8 DEF InfoNext

LEMMA StepIsKeptStep ==
  ProfilesInv /\ RootLinkTold /\ [InfoNext]_graphVars
    => ProfilesInv' /\ [Kept!Next]_(UNION {{Profile(id, e) : e \in
         {link \in Reaching(edges, documents[id].hash) : link.edge_name # DAOS}} : id \in InfoIds})
<1>1. AllProfiles = UNION {{Profile(id, e) : e \in
        {link \in Reaching(edges, documents[id].hash) : link.edge_name # DAOS}} : id \in InfoIds}
  BY DEF AllProfiles, ProfilesIn, ProfileOf, Profile, InfoIds
<1>2. AllProfiles' = (UNION {{Profile(id, e) : e \in
        {link \in Reaching(edges, documents[id].hash) : link.edge_name # DAOS}} : id \in InfoIds})'
  BY DEF AllProfiles, ProfilesIn, ProfileOf, Profile, InfoIds
<1> QED BY <1>1, <1>2, ProfilesStep

(***************************************************************************)
(* As long as lookups find the way from the root, what organizations say   *)
(* of themselves is a set of profiles: a batch of entries stored, deleted  *)
(* and hashed again, a document stored and another erased, two edges       *)
(* written again, is one change of what one profile says.                  *)
(***************************************************************************)
THEOREM InfoKeepsProfiles == InfoSpec /\ []RootLinkTold => ImplementsProfiles
<1> QED BY ProfilesInit, StepIsKeptStep, PTL DEF InfoSpec, ImplementsProfiles, Kept!Spec
=============================================================================
