------------------------------ MODULE DaoInfo ------------------------------
(***************************************************************************)
(* src/src/daoinf.cpp: what organizations say about themselves, kept as a  *)
(* graph of documents.  The root document points to the document of all    *)
(* organizations, and that one, by an edge named after the dao_id and one  *)
(* named "daos", to a document of each.  Changing an organization's        *)
(* entries replaces its document.                                          *)
(*                                                                         *)
(* One action here is one action of the contract that passes its checks.   *)
(***************************************************************************)
EXTENDS DocumentGraph

CONSTANTS
  User,        \* accounts that sign
  Self,        \* the account the contract is deployed at
  Label,       \* the labels and values callers pass
  Value,
  MaxEntries,  \* bounds: entries stored, and labels deleted, in one call
  MaxLabels,
  MaxName,     \* bound: a name, and so the name of an edge, is a uint64
  HAS_DAOS,    \* graph::HAS_DAOS and graph::DAOS as numbers
  DAOS

ASSUME InfoAssumption ==
  /\ User \subseteq STRING /\ Self \in User
  /\ Label \subseteq STRING /\ Value \subseteq FlexValue
  /\ MaxEntries \in Nat /\ MaxLabels \in Nat /\ MaxName \in Nat
  /\ HAS_DAOS \in 1..MaxName /\ DAOS \in 1..MaxName /\ HAS_DAOS # DAOS
  /\ MaxDocId # 0   \* reset stores two documents

FIXED_DETAILS    == "fixed_details"
VARIABLE_DETAILS == "variable_details"
CREATOR          == "creator"
OWNER            == "owner"
TYPE             == "type"

\* Texts are strings, as in DocumentGraph.
ASSUME DetailsAssumption ==
  {FIXED_DETAILS, VARIABLE_DETAILS, CREATOR, OWNER, TYPE, "root", "daosnode"} \subseteq STRING

Entry == [label : Label, value : Value]

InfoInit == documents = NoRows /\ edges = {}

----------------------------------------------------------------------------
(* The documents of the graph and the way to them. *)

Details(group_label, contents) ==
  <<Content(GroupLabel, String(group_label))>> \o contents \o <<Content(OWNER, NameOf(Self))>>

RootGroups == <<Details(FIXED_DETAILS, <<Content(TYPE, NameOf("root"))>>)>>
DaosGroups == <<Details(FIXED_DETAILS, <<Content(TYPE, NameOf("daosnode"))>>)>>

InfoGroups(creator) ==
  <<Details(FIXED_DETAILS, <<Content(CREATOR, NameOf(creator))>>), Details(VARIABLE_DETAILS, <<>>)>>

\* get_root_node: the oldest document.
RootId == CHOOSE id \in DOMAIN documents : \A other \in DOMAIN documents : id <= other

(***************************************************************************)
(* get_doc_from_edge takes the first of the edges of that name; which one  *)
(* is first depends on their hashes.                                       *)
(***************************************************************************)
DaoNodes ==
  IF documents = NoRows THEN {}
  ELSE {e.to_node : e \in EdgesFrom(documents[RootId].hash, HAS_DAOS)}

DaoInfNodes(dao_id) == UNION {{e.to_node : e \in EdgesFrom(daos, dao_id)} : daos \in DaoNodes}

----------------------------------------------------------------------------
(* The contract's actions. *)

Reset(signer) ==
  /\ signer = Self
  /\ documents' = [id \in 0..1 |-> Document(IF id = 0 THEN RootGroups ELSE DaosGroups)]
  /\ edges' = {Edge(Hash(RootGroups), Hash(DaosGroups), HAS_DAOS)}

\* A faulty variant of AddDao: an organization may have no id.
AddDaoAnyId(signer, creator, dao_id) ==
  /\ signer \in {creator, Self}
  /\ MayEmplace(InfoGroups(creator))
  /\ \E daos \in DaoNodes :
       edges' = edges \cup {Edge(daos, Hash(InfoGroups(creator)), dao_id),
                            Edge(daos, Hash(InfoGroups(creator)), DAOS)}
  /\ documents' = Emplaced(InfoGroups(creator))

AddDao(signer, creator, dao_id) ==
  /\ signer \in {creator, Self}
  /\ dao_id > 0
  /\ MayEmplace(InfoGroups(creator))
  /\ \E daos \in DaoNodes :
       LET info   == Hash(InfoGroups(creator))
           by_id  == Edge(daos, info, dao_id)
           listed == Edge(daos, info, DAOS)
       IN
       /\ MayWrite(edges, by_id)
       /\ MayWrite(edges \cup {by_id}, listed)
       /\ edges' = edges \cup {by_id, listed}
  /\ documents' = Emplaced(InfoGroups(creator))

\* Who may change a document: the creator it names, or the contract.
MayChange(signer, groups) ==
  /\ HasContent(groups, FIXED_DETAILS, CREATOR)
  /\ LET fixed == groups[GroupIndex(groups, FIXED_DETAILS)] IN
     NameOf(signer) \in {fixed[IndexOf(fixed, CREATOR)].value, NameOf(Self)}

StoreEntry(signer, values, dao_id) ==
  \E node \in DaoInfNodes(dao_id) :
    LET groups  == documents[IdOf(node)].content_groups
        i       == GroupIndex(groups, VARIABLE_DETAILS)
        changed == [groups EXCEPT ![i] = FoldLeft(InsertOrReplace, @, values)]
    IN
    /\ Exists(node)
    /\ MayChange(signer, groups)
    /\ HasGroup(groups, VARIABLE_DETAILS)
    /\ UpdateDocument(node, changed)

(***************************************************************************)
(* delentry removes one label after the other and aborts when one is not   *)
(* there any more.  The label it refuses is the name of the group, not the *)
(* label under which a group keeps its name.                               *)
(***************************************************************************)
RemoveEntry(outcomes, label) ==
  UNION {RemoveContent(groups, VARIABLE_DETAILS, label) :
           groups \in {gs \in outcomes : label # VARIABLE_DETAILS}}

DelEntry(signer, labels, dao_id) ==
  \E node \in DaoInfNodes(dao_id) :
    LET groups == documents[IdOf(node)].content_groups IN
    /\ Exists(node)
    /\ MayChange(signer, groups)
    /\ \E changed \in FoldLeft(RemoveEntry, {groups}, labels) : UpdateDocument(node, changed)

InfoNext ==
  \/ \E signer \in User : Reset(signer)
  \/ \E signer \in User, dao_id \in 0..MaxName :
       \/ \E creator \in User : AddDao(signer, creator, dao_id)
       \/ \E values \in BoundedSeq(Entry, MaxEntries) : StoreEntry(signer, values, dao_id)
       \/ \E labels \in BoundedSeq(Label, MaxLabels) : DelEntry(signer, labels, dao_id)

InfoSpec == InfoInit /\ [][InfoNext]_graphVars

----------------------------------------------------------------------------
(* What the contract promises. *)

\* The documents of the organizations: all but the root and the one below it.
InfoIds == DOMAIN documents \ {0, 1}

\* Type correctness: documents and edges, and no edge has the empty name.
InfoTypeOK ==
  LET Groups == Seq(Seq([label : STRING, value : FlexValue])) IN
  /\ IsTable(documents, 0..MaxDocId, [hash : Groups, content_groups : Groups])
  /\ edges \subseteq [from_node : Groups, to_node : Groups, edge_name : 1..MaxName]

(***************************************************************************)
(* However often documents are replaced, the graph stays a tree of two     *)
(* levels: all edges have both ends stored under hashes of their own, and  *)
(* to every organization's document lead exactly two, "daos" and its id.   *)
(***************************************************************************)
GraphIsTree ==
  /\ \A e \in edges : Cardinality(IdsOf(e.from_node)) = 1 /\ Cardinality(IdsOf(e.to_node)) = 1
  /\ documents # NoRows => Cardinality(DaoNodes) = 1
  /\ \A id \in InfoIds :
       LET links == Reaching(edges, documents[id].hash) IN
       /\ Cardinality(links) = 2
       /\ \E e \in links : e.edge_name = DAOS
       /\ \A e \in links : e.from_node \in DaoNodes

(***************************************************************************)
(* The contract keeps a set of profiles: replacing documents and moving    *)
(* their edges amounts to changing what one profile says, which keeps its  *)
(* id, its creator and its place; no step loses, merges or doubles one.    *)
(***************************************************************************)
Profile(id, e) ==
  [dao_id |-> e.edge_name, fixed |-> documents[id].hash[1], says |-> documents[id].hash[2]]

Kept == INSTANCE Profiles WITH
  Blank    <- InfoGroups(Self)[2],
  profiles <- UNION {{Profile(id, e) : e \in {link \in Reaching(edges, documents[id].hash) :
                                                link.edge_name # DAOS}} : id \in InfoIds}

ImplementsProfiles == Kept!Spec

(***************************************************************************)
(* daoinf.cpp, delentry: "Cannot delete the variable details content".     *)
(***************************************************************************)
VariableDetailsKept ==
  \A id \in InfoIds : HasGroup(documents[id].content_groups, VARIABLE_DETAILS)
=============================================================================
