------------------------- MODULE DaoRegistryProofs --------------------------
(***************************************************************************)
(* The register of organizations keeps its word: proofs for every set of   *)
(* names, tokens, attributes and values and every bound on ids.            *)
(*                                                                         *)
(* TokensConsistent is not inductive alone.  An organization that takes    *)
(* over a freed id finds the tokens of the one before it in its table, so  *)
(* the tables of ids not in use must be filled without gaps as well.       *)
(***************************************************************************)
EXTENDS DaoRegistry, TableTheorems

\* No table of tokens has a gap, whether or not its organization lives.
TablesFilled == \A d \in DaoId : \E n \in 0..(ByteRange - 1) : DOMAIN tokens[d] = 1..n

(***************************************************************************)
(* What makes names unique: create's comparison refuses a name smaller     *)
(* than any registered one, so names grow together with ids.               *)
(***************************************************************************)
NamesIncrease == \A d, e \in DOMAIN daos : d < e => daos[d].dao < daos[e].dao

RegistryInv == RegistryTypeOK /\ NamesIncrease /\ TablesFilled /\ TokensConsistent

Attributes == UNION {[S -> AttrValue] : S \in SUBSET AttrKey}

----------------------------------------------------------------------------
(* Upserted, one pair of the batch after the other. *)

\* What the loop makes of the row for one pair, given the copy of the attributes.
UpsertOne(attributes, row, pair) ==
  IF pair[1] \in DOMAIN row /\ pair[1] \notin DOMAIN attributes
  THEN row
  ELSE Put(row, pair[1], pair[2])

\* The recursion that Upserted unfolds to, over the sets of positions in K.
IsFoldOn(f, K, attributes, batch) ==
  f = [s \in K |-> IF s = {} THEN attributes
                   ELSE UpsertOne(attributes, f[s \ {Max(s)}], batch[Max(s)])]

(* Attributes are a table of values. *)
LEMMA AttributesAreTables ==
  ASSUME NEW row
  PROVE  row \in Attributes <=> IsTable(row, AttrKey, AttrValue)
BY DEF Attributes, IsTable

LEMMA UpsertOneTyped ==
  ASSUME NEW attributes, NEW row \in Attributes, NEW pair \in AttrKey \X AttrValue
  PROVE  UpsertOne(attributes, row, pair) \in Attributes
<1>1. CASE pair[1] \in DOMAIN row /\ pair[1] \notin DOMAIN attributes
  BY <1>1 DEF UpsertOne
<1>2. CASE ~(pair[1] \in DOMAIN row /\ pair[1] \notin DOMAIN attributes)
  <2>1. UpsertOne(attributes, row, pair) = Put(row, pair[1], pair[2])
    BY <1>2 DEF UpsertOne
  <2>2. IsTable(row, AttrKey, AttrValue) /\ pair[1] \in AttrKey /\ pair[2] \in AttrValue
    BY AttributesAreTables
  <2>3. IsTable(Put(row, pair[1], pair[2]), AttrKey, AttrValue)
    BY <2>2, PutTyped
  <2> QED BY <2>1, <2>3, AttributesAreTables
<1> QED BY <1>1, <1>2

(* The recursion has a solution over the positions of a batch. *)
LEMMA FoldExists ==
  ASSUME NEW attributes \in Attributes, NEW n \in Nat, NEW batch \in [1..n -> AttrKey \X AttrValue]
  PROVE  \E f : IsFoldOn(f, SUBSET (1..n), attributes, batch)
<1> DEFINE Pairs == AttrKey \X AttrValue
           F == [p \in Attributes \X Pairs |-> UpsertOne(attributes, p[1], p[2])]
<1>1. F \in [Attributes \X Pairs -> Attributes] /\ batch \in [1..n -> Pairs]
  BY UpsertOneTyped
<1>2. \A row \in Attributes, pair \in Pairs : F[<<row, pair>>] = UpsertOne(attributes, row, pair)
  OBVIOUS
<1> HIDE DEF F, Pairs
<1>3. PICK f : Unfolds(f, Attributes, Pairs, attributes, F, n, batch)
  BY <1>1, FoldUnfolds
<1>4. IsFoldOn(f, SUBSET (1..n), attributes, batch)
  BY <1>2, <1>3 DEF Unfolds, IsFoldOn
<1> QED BY <1>4

\* The rows between the attributes and what Upserted makes of them.
AreSteps(rows, attributes, batch, n) ==
  /\ rows[0] = attributes
  /\ rows[n] = Upserted(attributes, batch)
  /\ \A i \in 1..n : rows[i] = UpsertOne(attributes, rows[i - 1], batch[i])

LEMMA UpsertedSteps ==
  ASSUME NEW attributes \in Attributes, NEW n \in Nat, NEW batch \in [1..n -> AttrKey \X AttrValue]
  PROVE  \E rows : AreSteps(rows, attributes, batch, n)
<1> DEFINE f == CHOOSE g : IsFoldOn(g, SUBSET (1..n), attributes, batch)
<1>1. Upserted(attributes, batch) = f[1..n]
  <2>1. DOMAIN batch = 1..n
    OBVIOUS
  <2> QED BY <2>1 DEF Upserted, FoldLeft, MapThenFoldSet, UpsertOne, IsFoldOn
<1>2. IsFoldOn(f, SUBSET (1..n), attributes, batch)
  BY FoldExists
<1> HIDE DEF f
<1> DEFINE rows == [i \in 0..n |-> f[1..i]]
<1>3. rows[0] = attributes
  <2>1. 1..0 = {} /\ 1..0 \in SUBSET (1..n)
    OBVIOUS
  <2> QED BY <1>2, <2>1 DEF IsFoldOn
<1>4. ASSUME NEW i \in 1..n PROVE rows[i] = UpsertOne(attributes, rows[i - 1], batch[i])
  <2>1. f[1..i] = UpsertOne(attributes, f[1..(i - 1)], batch[i])
    BY <1>2, PrefixOfFold DEF IsFoldOn
  <2>2. i - 1 \in 0..n /\ i \in 0..n
    OBVIOUS
  <2> QED BY <2>1, <2>2
<1>5. rows[n] = Upserted(attributes, batch)
  BY <1>1
<1> HIDE DEF rows
<1>6. AreSteps(rows, attributes, batch, n)
  BY <1>3, <1>4, <1>5 DEF AreSteps
<1> QED BY <1>6
(***************************************************************************)
(* What a batch makes of attributes, key by key: the row keeps its type,   *)
(* and UpsertMeaning holds of it.  Shown for the first i pairs, for each   *)
(* i up to the length of the batch.                                        *)
(***************************************************************************)
UpsertedBy(old, batch, i, new) ==
  LET given(k) == {j \in 1..i : batch[j][1] = k} IN
  /\ new \in Attributes
  /\ DOMAIN new = DOMAIN old \cup {batch[j][1] : j \in 1..i}
  /\ \A k \in DOMAIN new :
       new[k] = IF given(k) = {} THEN old[k]
                ELSE IF k \in DOMAIN old THEN batch[Max(given(k))][2]
                ELSE batch[Min(given(k))][2]

LEMMA UpsertOneMore ==
  ASSUME NEW old \in Attributes, NEW n \in Nat, NEW batch \in [1..n -> AttrKey \X AttrValue],
         NEW i \in 1..n, NEW row, UpsertedBy(old, batch, i - 1, row)
  PROVE  UpsertedBy(old, batch, i, UpsertOne(old, row, batch[i]))
<1> DEFINE given(m, k) == {j \in 1..m : batch[j][1] = k}
           key == batch[i][1]
           value == batch[i][2]
           new == UpsertOne(old, row, batch[i])
<1>1. key \in AttrKey /\ value \in AttrValue
  BY DEF UpsertOne
<1>2. /\ row \in Attributes /\ IsTable(row, AttrKey, AttrValue)
      /\ DOMAIN row = DOMAIN old \cup {batch[j][1] : j \in 1..(i - 1)}
      /\ \A k \in DOMAIN row :
           row[k] = IF given(i - 1, k) = {} THEN old[k]
                    ELSE IF k \in DOMAIN old THEN batch[Max(given(i - 1, k))][2]
                    ELSE batch[Min(given(i - 1, k))][2]
  BY AttributesAreTables DEF UpsertedBy
<1>3. \A k : k # key => given(i, k) = given(i - 1, k)
  OBVIOUS
<1>4. given(i, key) = given(i - 1, key) \cup {i} /\ given(i - 1, key) \subseteq 1..(i - 1)
  OBVIOUS
<1>5. DOMAIN old \cup {batch[j][1] : j \in 1..i} = DOMAIN row \cup {key}
  BY <1>2
<1>6. new \in Attributes /\ DOMAIN new = DOMAIN row \cup {key}
  <2>1. new \in Attributes
    <3>1. batch[i] \in AttrKey \X AttrValue
      OBVIOUS
    <3> QED BY <1>2, <3>1, UpsertOneTyped
  <2>2. DOMAIN new = DOMAIN row \cup {key}
    BY DEF UpsertOne, Put
  <2> QED BY <2>1, <2>2
<1>7. \A k \in DOMAIN row : k # key => new[k] = row[k]
  BY DEF UpsertOne, Put
<1>8. new[key] = IF key \in DOMAIN old THEN batch[Max(given(i, key))][2]
                 ELSE batch[Min(given(i, key))][2]
  <2>1. CASE key \in DOMAIN old
    <3>1. Max(given(i, key)) = i
      <4> HIDE DEF given
      <4> QED BY <1>4 DEF Max
    <3>2. new[key] = value
      BY <2>1 DEF UpsertOne, Put
    <3> QED BY <2>1, <3>1, <3>2
  <2>2. CASE key \notin DOMAIN old /\ key \in DOMAIN row
    <3>1. given(i - 1, key) # {}
      <4>1. PICK j \in 1..(i - 1) : batch[j][1] = key
        BY <1>2, <2>2
      <4> QED BY <4>1
    <3>2. Min(given(i, key)) = Min(given(i - 1, key))
      <4> HIDE DEF given
      <4>1. /\ Min(given(i - 1, key)) \in given(i - 1, key)
            /\ \A m \in given(i - 1, key) : Min(given(i - 1, key)) <= m
        BY <1>4, <3>1, MinIsLeast
      <4> QED BY <1>4, <4>1 DEF Min
    <3>3. new[key] = row[key]
      BY <2>2 DEF UpsertOne
    <3> QED BY <1>2, <2>2, <3>1, <3>2, <3>3
  <2>3. CASE key \notin DOMAIN old /\ key \notin DOMAIN row
    <3>1. given(i - 1, key) = {}
      BY <1>2, <2>3
    <3>2. Min(given(i, key)) = i
      <4> HIDE DEF given
      <4> QED BY <1>4, <3>1 DEF Min
    <3>3. new[key] = value
      BY <2>3 DEF UpsertOne, Put
    <3> QED BY <2>3, <3>2, <3>3
  <2> QED BY <2>1, <2>2, <2>3
<1>9. given(i, key) # {}
  BY <1>4
<1> HIDE DEF new, key, given
<1>10. \A k \in DOMAIN new :
         new[k] = IF given(i, k) = {} THEN old[k]
                  ELSE IF k \in DOMAIN old THEN batch[Max(given(i, k))][2]
                  ELSE batch[Min(given(i, k))][2]
  BY <1>2, <1>3, <1>6, <1>7, <1>8, <1>9
<1> USE DEF given
<1> QED BY <1>5, <1>6, <1>10 DEF UpsertedBy, new

LEMMA UpsertedCorrect ==
  ASSUME NEW old \in Attributes, NEW n \in Nat, NEW batch \in [1..n -> AttrKey \X AttrValue]
  PROVE  UpsertedBy(old, batch, n, Upserted(old, batch))
<1>1. PICK rows : AreSteps(rows, old, batch, n)
  BY UpsertedSteps
<1> DEFINE wrong == {i \in 0..n : ~UpsertedBy(old, batch, i, rows[i])}
<1>2. UpsertedBy(old, batch, 0, rows[0])
  <2>1. 1..0 = {}
    OBVIOUS
  <2>2. UpsertedBy(old, batch, 0, old)
    BY <2>1 DEF UpsertedBy
  <2> QED BY <1>1, <2>2 DEF AreSteps
<1>3. wrong = {}
  <2> SUFFICES ASSUME wrong # {} PROVE FALSE
    OBVIOUS
  <2>1. PICK i \in wrong : \A k \in wrong : i <= k
    <3>1. wrong \subseteq Nat
      OBVIOUS
    <3> HIDE DEF wrong
    <3> QED BY <3>1, LeastNatural
  <2>2. i # 0
    BY <1>2
  <2>3. i \in 1..n /\ i - 1 \in 0..n /\ i - 1 \notin wrong
    BY <2>1, <2>2
  <2>4. UpsertedBy(old, batch, i - 1, rows[i - 1])
    BY <2>3
  <2>5. UpsertedBy(old, batch, i, UpsertOne(old, rows[i - 1], batch[i]))
    <3> HIDE DEF wrong
    <3> QED BY <2>3, <2>4, UpsertOneMore
  <2> QED BY <1>1, <2>3, <2>5 DEF AreSteps
<1>4. n \notin wrong
  BY <1>3
<1> QED BY <1>1, <1>4 DEF AreSteps

----------------------------------------------------------------------------
(* The rows of organizations. *)

(* Changing the description or the attributes of one organization. *)
LEMMA RowEdited ==
  ASSUME RegistryInv, NEW dao_id \in DOMAIN daos, NEW row \in DaoRow,
         row.dao = daos[dao_id].dao, row.tokens = daos[dao_id].tokens,
         daos' = [daos EXCEPT ![dao_id] = row], UNCHANGED <<tokens, config>>
  PROVE  RegistryInv'
<1>1. IsTable(daos, DaoId, DaoRow) /\ UNCHANGED tokens /\ UNCHANGED config
  BY DEF RegistryInv, RegistryTypeOK
<1>2. DOMAIN daos' = DOMAIN daos /\ daos' \in [DOMAIN daos -> DaoRow]
  BY <1>1 DEF IsTable
<1>3. \A d \in DOMAIN daos : daos'[d].dao = daos[d].dao /\ daos'[d].tokens = daos[d].tokens
  OBVIOUS
<1>4. RegistryTypeOK'
  BY <1>1, <1>2 DEF RegistryInv, RegistryTypeOK, IsTable
<1>5. NamesIncrease'
  BY <1>2, <1>3 DEF RegistryInv, NamesIncrease
<1>6. TablesFilled'
  BY <1>1 DEF RegistryInv, TablesFilled
<1>7. TokensConsistent'
  BY <1>1, <1>2, <1>3 DEF RegistryInv, TokensConsistent
<1> QED BY <1>4, <1>5, <1>6, <1>7 DEF RegistryInv

LEMMA UpdateKeeps ==
  ASSUME RegistryInv, NEW signer, NEW dao_id, NEW ipfs \in Ipfs, Update(signer, dao_id, ipfs)
  PROVE  RegistryInv'
<1> DEFINE row == [daos[dao_id] EXCEPT !.ipfs = ipfs]
<1>1. dao_id \in DOMAIN daos /\ daos[dao_id] \in DaoRow
  BY DEF Update, MayEdit, RegistryInv, RegistryTypeOK, IsTable
<1>2. row \in DaoRow /\ row.dao = daos[dao_id].dao /\ row.tokens = daos[dao_id].tokens
  BY <1>1 DEF DaoRow
<1>3. daos' = [daos EXCEPT ![dao_id] = row] /\ UNCHANGED <<tokens, config>>
  BY DEF Update
<1> HIDE DEF row
<1> QED BY <1>1, <1>2, <1>3, RowEdited

LEMMA UpsertAttrsKeeps ==
  ASSUME RegistryInv, NEW signer, NEW dao_id, NEW batch \in Batch,
         UpsertAttrs(signer, dao_id, batch)
  PROVE  RegistryInv'
<1> DEFINE new == Upserted(daos[dao_id].attributes, batch)
           row == [daos[dao_id] EXCEPT !.attributes = new]
<1>1. dao_id \in DOMAIN daos /\ daos[dao_id] \in DaoRow
  BY DEF UpsertAttrs, MayEdit, RegistryInv, RegistryTypeOK, IsTable
<1>2. PICK n \in 1..MaxBatch : batch \in [1..n -> AttrKey \X AttrValue]
  BY DEF Batch
<1>3. new \in Attributes
  <2>1. daos[dao_id].attributes \in Attributes /\ n \in Nat
    BY <1>1 DEF DaoRow, Attributes
  <2> QED BY <1>2, <2>1, UpsertedCorrect DEF UpsertedBy
<1>4. daos' = [daos EXCEPT ![dao_id] = row] /\ UNCHANGED <<tokens, config>>
  BY DEF UpsertAttrs
<1> HIDE DEF new
<1>5. row \in DaoRow /\ row.dao = daos[dao_id].dao /\ row.tokens = daos[dao_id].tokens
  BY <1>1, <1>3 DEF DaoRow, Attributes
<1> HIDE DEF row
<1> QED BY <1>1, <1>4, <1>5, RowEdited

LEMMA DelAttrsKeeps ==
  ASSUME RegistryInv, NEW signer, NEW dao_id, NEW keys, DelAttrs(signer, dao_id, keys)
  PROVE  RegistryInv'
<1> DEFINE old == daos[dao_id].attributes
           new == Restrict(old, DOMAIN old \ keys)
           row == [daos[dao_id] EXCEPT !.attributes = new]
<1>1. dao_id \in DOMAIN daos /\ daos[dao_id] \in DaoRow
  BY DEF DelAttrs, MayEdit, RegistryInv, RegistryTypeOK, IsTable
<1>2. new \in Attributes
  <2>1. old \in Attributes
    BY <1>1 DEF DaoRow, Attributes
  <2> HIDE DEF old
  <2>2. IsTable(new, AttrKey, AttrValue)
    BY <2>1, AttributesAreTables DEF IsTable, Restrict
  <2> QED BY <2>2, AttributesAreTables
<1>3. daos' = [daos EXCEPT ![dao_id] = row] /\ UNCHANGED <<tokens, config>>
  BY DEF DelAttrs
<1> HIDE DEF new
<1>4. row \in DaoRow /\ row.dao = daos[dao_id].dao /\ row.tokens = daos[dao_id].tokens
  BY <1>1, <1>2 DEF DaoRow, Attributes
<1> HIDE DEF row
<1> QED BY <1>1, <1>3, <1>4, RowEdited

LEMMA ResetDaosKeeps ==
  ASSUME RegistryInv, NEW signer, ResetDaos(signer)
  PROVE  RegistryInv'
<1>1. daos' = NoRows /\ UNCHANGED tokens /\ UNCHANGED config
  BY DEF ResetDaos
<1> QED BY <1>1 DEF RegistryInv, RegistryTypeOK, NamesIncrease, TablesFilled, TokensConsistent,
                    IsTable, NoRows

LEMMA DelOrgKeeps ==
  ASSUME RegistryInv, NEW signer, NEW dao_id, DelOrg(signer, dao_id)
  PROVE  RegistryInv'
<1>1. IsTable(daos, DaoId, DaoRow) /\ UNCHANGED tokens /\ UNCHANGED config
  BY DEF DelOrg, RegistryInv, RegistryTypeOK
<1>2. /\ IsTable(daos', DaoId, DaoRow)
      /\ DOMAIN daos' = DOMAIN daos \ {dao_id}
      /\ \A d \in DOMAIN daos' : daos'[d] = daos[d]
  <2>1. daos' = Erase(daos, dao_id)
    BY DEF DelOrg
  <2>2. IsTable(Erase(daos, dao_id), DaoId, DaoRow)
    BY <1>1, EraseTyped
  <2>3. /\ DOMAIN Erase(daos, dao_id) = DOMAIN daos \ {dao_id}
        /\ \A d \in DOMAIN daos \ {dao_id} : Erase(daos, dao_id)[d] = daos[d]
    BY DEF Erase, Restrict
  <2> QED BY <2>1, <2>2, <2>3
<1>3. RegistryTypeOK'
  BY <1>1, <1>2 DEF RegistryInv, RegistryTypeOK
<1>4. NamesIncrease'
  BY <1>2 DEF RegistryInv, NamesIncrease
<1>5. TablesFilled'
  BY <1>1 DEF RegistryInv, TablesFilled
<1>6. TokensConsistent'
  BY <1>1, <1>2 DEF RegistryInv, TokensConsistent
<1> QED BY <1>3, <1>4, <1>5, <1>6 DEF RegistryInv

(* Keys of organizations are numbers, so the key of a new one is new, and the largest. *)
LEMMA NewDaoId ==
  ASSUME IsTable(daos, DaoId, DaoRow)
  PROVE  /\ NonZeroKey(NextKey(daos)) \in Nat \ {0}
         /\ \A d \in DOMAIN daos : d \in Nat /\ d < NonZeroKey(NextKey(daos))
<1>1. MaxDaoId \in Nat /\ DOMAIN daos \subseteq 0..MaxDaoId
  BY RegistryAssumption DEF IsTable, DaoId
<1>2. NextKey(daos) \in 0..MaxDaoId + 1 /\ \A d \in DOMAIN daos : d < NextKey(daos)
  BY <1>1, NextKeyFresh
<1> QED BY <1>1, <1>2 DEF NonZeroKey

LEMMA CreateDaoKeeps ==
  ASSUME RegistryInv, NEW signer, NEW dao \in Name, NEW creator \in Name, NEW ipfs \in Ipfs,
         CreateDao(signer, dao, creator, ipfs)
  PROVE  RegistryInv'
<1> DEFINE dao_id == NonZeroKey(NextKey(daos))
           row == [dao |-> dao, creator |-> creator, ipfs |-> ipfs,
                   attributes |-> NoRows, tokens |-> <<>>]
<1>1. IsTable(daos, DaoId, DaoRow) /\ UNCHANGED tokens /\ UNCHANGED config
  BY DEF CreateDao, RegistryInv, RegistryTypeOK
<1>2. dao_id \in DaoId /\ \A d \in DOMAIN daos : d \in Nat /\ d < dao_id
  BY <1>1, NewDaoId, RegistryAssumption DEF CreateDao, DaoId
<1>3. row \in DaoRow
  <2>1. NoRows \in [{} -> AttrValue] /\ {} \in SUBSET AttrKey
    BY DEF NoRows
  <2>2. <<>> \in Seq(TokenRow)
    OBVIOUS
  <2> QED BY <2>1, <2>2 DEF DaoRow
<1>4. daos' = Put(daos, dao_id, row)
  BY DEF CreateDao
<1>5. \A d \in DOMAIN daos : daos[d].dao < dao
  BY DEF CreateDao, NameIsFree
<1>6. row.dao = dao /\ row.tokens = <<>>
  OBVIOUS
<1> HIDE DEF dao_id, row
<1>7. /\ IsTable(daos', DaoId, DaoRow)
      /\ DOMAIN daos' = DOMAIN daos \cup {dao_id}
      /\ daos'[dao_id] = row
      /\ \A d \in DOMAIN daos : d # dao_id => daos'[d] = daos[d]
  <2>1. IsTable(daos, DaoId, DaoRow)
    BY <1>1
  <2>2. IsTable(Put(daos, dao_id, row), DaoId, DaoRow)
    BY <1>2, <1>3, <2>1, PutTyped
  <2>3. /\ DOMAIN Put(daos, dao_id, row) = DOMAIN daos \cup {dao_id}
        /\ Put(daos, dao_id, row)[dao_id] = row
        /\ \A d \in DOMAIN daos : d # dao_id => Put(daos, dao_id, row)[d] = daos[d]
    BY DEF Put
  <2> QED BY <1>4, <2>2, <2>3
<1>8. dao_id \notin DOMAIN daos /\ dao_id \in Nat
  BY <1>2, RegistryAssumption DEF DaoId
<1>9. RegistryTypeOK'
  BY <1>1, <1>7 DEF RegistryInv, RegistryTypeOK
<1>10. NamesIncrease'
  <2> SUFFICES ASSUME NEW d \in DOMAIN daos', NEW e \in DOMAIN daos', d < e
               PROVE  daos'[d].dao < daos'[e].dao
    BY DEF NamesIncrease
  <2>1. d \in DOMAIN daos
    BY <1>2, <1>7, <1>8
  <2>2. CASE e = dao_id
    BY <1>5, <1>6, <1>7, <1>8, <2>1, <2>2
  <2>3. CASE e \in DOMAIN daos
    BY <1>7, <1>8, <2>1, <2>3 DEF RegistryInv, NamesIncrease
  <2> QED BY <1>7, <2>2, <2>3
<1>11. TablesFilled'
  BY <1>1 DEF RegistryInv, TablesFilled
<1>12. TokensConsistent'
  <2> SUFFICES ASSUME NEW d \in DOMAIN daos'
               PROVE  LET list  == daos'[d].tokens
                          older == Cardinality(DOMAIN tokens[d]) - Len(list)
                      IN  /\ DOMAIN tokens[d] = 1..(older + Len(list))
                          /\ older >= 0
                          /\ \A i \in DOMAIN list : tokens[d][older + i] = list[i]
                          /\ IsInjective(list)
    BY <1>1 DEF TokensConsistent
  <2>1. CASE d = dao_id
    <3>1. PICK n \in 0..(ByteRange - 1) : DOMAIN tokens[d] = 1..n
      BY <1>2, <2>1 DEF RegistryInv, TablesFilled
    <3>2. Cardinality(DOMAIN tokens[d]) = n /\ n \in Nat
      BY <3>1, FS_Interval, RegistryAssumption
    <3>3. daos'[d].tokens = <<>>
      BY <1>6, <1>7, <2>1
    <3> QED BY <3>1, <3>2, <3>3 DEF IsInjective
  <2>2. CASE d \in DOMAIN daos
    <3>1. daos'[d] = daos[d]
      BY <1>7, <1>8, <2>2
    <3> QED BY <2>2, <3>1 DEF RegistryInv, TokensConsistent
  <2> QED BY <1>7, <2>1, <2>2
<1> QED BY <1>9, <1>10, <1>11, <1>12 DEF RegistryInv

LEMMA SetParamKeeps ==
  ASSUME RegistryInv, NEW signer, NEW key \in ConfigKey, NEW value \in ConfigValue,
         SetParam(signer, key, value)
  PROVE  RegistryInv'
<1>1. config' = Put(config, key, value) /\ UNCHANGED daos /\ UNCHANGED tokens
  BY DEF SetParam
<1>2. IsTable(config, ConfigKey, ConfigValue)
  BY DEF RegistryInv, RegistryTypeOK
<1>3. IsTable(Put(config, key, value), ConfigKey, ConfigValue)
  BY <1>2, PutTyped
<1> QED BY <1>1, <1>3
        DEF RegistryInv, RegistryTypeOK, NamesIncrease, TablesFilled, TokensConsistent

LEMMA ResetSttngsKeeps ==
  ASSUME RegistryInv, NEW signer, ResetSttngs(signer)
  PROVE  RegistryInv'
<1>1. config' = NoRows /\ UNCHANGED daos /\ UNCHANGED tokens
  BY DEF ResetSttngs
<1>2. IsTable(NoRows, ConfigKey, ConfigValue)
  BY DEF IsTable, NoRows
<1> QED BY <1>1, <1>2
        DEF RegistryInv, RegistryTypeOK, NamesIncrease, TablesFilled, TokensConsistent

(***************************************************************************)
(* The id of a new token: the table has no gaps, so the next key comes     *)
(* right after its tokens, and when that is past the last value of a byte  *)
(* it wraps to an id in use, which addtoken refuses.                       *)
(***************************************************************************)
LEMMA NewTokenId ==
  ASSUME NEW rows, NEW n \in 0..(ByteRange - 1), DOMAIN rows = 1..n,
         NextTokenId(rows) \notin DOMAIN rows
  PROVE  NextTokenId(rows) = n + 1 /\ n + 1 \in TokenIdx
<1>1. ByteRange \in Nat /\ ByteRange > 1 /\ n \in Nat
  BY RegistryAssumption
<1>2. NextKey(rows) = IF n = 0 THEN 0 ELSE n + 1
  BY <1>1, NextKeyOfInterval
<1>3. CASE n = 0
  <2>1. 0 % ByteRange = 0
    BY <1>1
  <2> QED BY <1>1, <1>2, <1>3, <2>1 DEF NextTokenId, NonZeroKey, TokenIdx
<1>4. CASE n # 0 /\ n + 1 < ByteRange
  <2>1. (n + 1) % ByteRange = n + 1
    BY <1>1, <1>4
  <2> QED BY <1>1, <1>2, <1>4, <2>1 DEF NextTokenId, NonZeroKey, TokenIdx
<1>5. CASE n # 0 /\ ~(n + 1 < ByteRange)
  <2>1. n + 1 = ByteRange
    BY <1>1, <1>5
  <2>2. ByteRange % ByteRange = 0
    BY <1>1
  <2>3. NextTokenId(rows) = 1
    BY <1>2, <1>5, <2>1, <2>2 DEF NextTokenId, NonZeroKey
  <2> QED BY <1>1, <1>5, <2>3
<1> QED BY <1>3, <1>4, <1>5

LEMMA AddTokenKeeps ==
  ASSUME RegistryInv, NEW signer, NEW dao_id, NEW token_contract \in TokenContract,
         NEW token_symbol \in Symbol, AddToken(signer, dao_id, token_contract, token_symbol)
  PROVE  RegistryInv'
<1> DEFINE token == [account |-> token_contract, symbol |-> token_symbol]
           list == daos[dao_id].tokens
           rows == tokens[dao_id]
           row == [daos[dao_id] EXCEPT !.tokens = Append(list, token)]
<1>1. IsTable(daos, DaoId, DaoRow) /\ dao_id \in DOMAIN daos /\ dao_id \in DaoId
  BY DEF AddToken, MayEdit, RegistryInv, RegistryTypeOK, IsTable
<1>2. daos[dao_id] \in DaoRow /\ list \in Seq(TokenRow) /\ token \in TokenRow
  BY <1>1 DEF IsTable, DaoRow, TokenRow
<1>3. PICK n \in 0..(ByteRange - 1) : DOMAIN rows = 1..n
  BY <1>1 DEF RegistryInv, TablesFilled
<1>4. n + 1 \in TokenIdx /\ tokens' = [tokens EXCEPT ![dao_id] = Put(rows, n + 1, token)]
  <2>1. /\ NextTokenId(rows) \notin DOMAIN rows
        /\ tokens' = [tokens EXCEPT ![dao_id] = Put(rows, NextTokenId(rows), token)]
    BY DEF AddToken
  <2> QED BY <1>3, <2>1, NewTokenId
<1>5. daos' = [daos EXCEPT ![dao_id] = row] /\ UNCHANGED config
  BY DEF AddToken
<1>6. \A i \in DOMAIN list : list[i] # token
  BY DEF AddToken
<1>7. n \in Nat /\ n + 1 <= ByteRange - 1
  BY <1>4, RegistryAssumption DEF TokenIdx
<1>8. row \in DaoRow /\ row.dao = daos[dao_id].dao /\ row.tokens = Append(list, token)
  <2>1. Append(list, token) \in Seq(TokenRow)
    BY <1>2
  <2> HIDE DEF list, token
  <2> QED BY <1>2, <2>1 DEF DaoRow
<1>9. DOMAIN tokens = DaoId /\ IsTable(rows, TokenIdx, TokenRow)
  BY <1>1 DEF RegistryInv, RegistryTypeOK
<1> DEFINE more == Put(rows, n + 1, token)
<1>10. IsTable(more, TokenIdx, TokenRow)
  <2> HIDE DEF rows, token
  <2> QED BY <1>2, <1>4, <1>9, PutTyped
<1>11. /\ DOMAIN more = 1..(n + 1) /\ more[n + 1] = token
       /\ \A i \in 1..n : more[i] = rows[i]
  BY <1>3, <1>7 DEF Put
<1>12. /\ DOMAIN tokens' = DaoId /\ tokens'[dao_id] = more
       /\ \A d \in DaoId : d # dao_id => tokens'[d] = tokens[d]
  BY <1>1, <1>4, <1>9
<1>13. /\ DOMAIN daos' = DOMAIN daos /\ daos'[dao_id] = row
       /\ \A d \in DOMAIN daos : d # dao_id => daos'[d] = daos[d]
  BY <1>1, <1>5
<1>14. IsTable(daos', DaoId, DaoRow)
  BY <1>1, <1>5, <1>8 DEF IsTable
<1> HIDE DEF row, more
<1>15. RegistryTypeOK'
  BY <1>5, <1>10, <1>12, <1>14 DEF RegistryInv, RegistryTypeOK
<1>16. NamesIncrease'
  BY <1>8, <1>13 DEF RegistryInv, NamesIncrease
<1>17. TablesFilled'
  <2> SUFFICES ASSUME NEW d \in DaoId
               PROVE  \E m \in 0..(ByteRange - 1) : DOMAIN tokens'[d] = 1..m
    BY DEF TablesFilled
  <2>1. CASE d = dao_id
    <3>1. n + 1 \in 0..(ByteRange - 1)
      BY <1>7, RegistryAssumption
    <3> QED BY <1>11, <1>12, <2>1, <3>1
  <2>2. CASE d # dao_id
    BY <1>12, <2>2 DEF RegistryInv, TablesFilled
  <2> QED BY <2>1, <2>2
<1>18. TokensConsistent'
  <2> SUFFICES ASSUME NEW d \in DOMAIN daos'
               PROVE  LET list1 == daos'[d].tokens
                          older == Cardinality(DOMAIN tokens'[d]) - Len(list1)
                      IN  /\ DOMAIN tokens'[d] = 1..(older + Len(list1))
                          /\ older >= 0
                          /\ \A i \in DOMAIN list1 : tokens'[d][older + i] = list1[i]
                          /\ IsInjective(list1)
    BY DEF TokensConsistent
  <2>1. CASE d = dao_id
    <3>1. Cardinality(DOMAIN rows) = n /\ Cardinality(DOMAIN more) = n + 1
      <4>1. Cardinality(1..n) = n /\ Cardinality(1..(n + 1)) = n + 1
        BY <1>7, FS_Interval
      <4> QED BY <1>3, <1>11, <4>1
    <3>2. /\ n - Len(list) >= 0
          /\ \A i \in DOMAIN list : rows[(n - Len(list)) + i] = list[i]
          /\ IsInjective(list)
      BY <1>1, <3>1 DEF RegistryInv, TokensConsistent
    <3>3. /\ Len(list) \in Nat /\ DOMAIN list = 1..Len(list)
          /\ Len(Append(list, token)) = Len(list) + 1
          /\ DOMAIN Append(list, token) = 1..(Len(list) + 1)
          /\ \A i \in DOMAIN list : Append(list, token)[i] = list[i]
          /\ Append(list, token)[Len(list) + 1] = token
      BY <1>2
    <3> HIDE DEF list, token, rows
    <3> DEFINE longer == Append(list, token)
               older == n - Len(list)
    <3>4. (n + 1) - Len(longer) = older /\ older + Len(longer) = n + 1
      BY <1>7, <3>3
    <3>5. \A i \in DOMAIN longer : more[older + i] = longer[i]
      <4> SUFFICES ASSUME NEW i \in 1..(Len(list) + 1) PROVE more[older + i] = longer[i]
        BY <3>3
      <4>1. CASE i \in DOMAIN list
        <5>1. older + i \in 1..n
          BY <1>7, <3>2, <3>3, <4>1
        <5> QED BY <1>11, <3>2, <3>3, <4>1, <5>1
      <4>2. CASE i = Len(list) + 1
        <5>1. older + i = n + 1
          BY <1>7, <3>3, <4>2
        <5> QED BY <1>11, <3>3, <4>2, <5>1
      <4> QED BY <3>3, <4>1, <4>2
    <3>6. IsInjective(longer)
      <4> SUFFICES ASSUME NEW a \in 1..(Len(list) + 1), NEW b \in 1..(Len(list) + 1),
                          longer[a] = longer[b]
                   PROVE  a = b
        BY <3>3 DEF IsInjective
      <4> HIDE DEF longer
      <4>1. \A i \in DOMAIN list : longer[i] = list[i]
        BY <3>3 DEF longer
      <4>2. longer[Len(list) + 1] = token
        BY <3>3 DEF longer
      <4>3. CASE a \in DOMAIN list /\ b \in DOMAIN list
        BY <3>2, <4>1, <4>3 DEF IsInjective
      <4>4. CASE a \notin DOMAIN list /\ b \notin DOMAIN list
        BY <3>3, <4>4
      <4>5. CASE a \in DOMAIN list /\ b \notin DOMAIN list
        BY <1>6, <3>3, <4>1, <4>2, <4>5
      <4>6. CASE a \notin DOMAIN list /\ b \in DOMAIN list
        BY <1>6, <3>3, <4>1, <4>2, <4>6
      <4> QED BY <4>3, <4>4, <4>5, <4>6
    <3> HIDE DEF longer
    <3>7. daos'[d].tokens = longer /\ tokens'[d] = more
      BY <1>8, <1>12, <1>13, <2>1 DEF longer
    <3> QED BY <1>11, <3>1, <3>2, <3>4, <3>5, <3>6, <3>7
  <2>2. CASE d # dao_id
    <3>1. d \in DOMAIN daos /\ daos'[d] = daos[d] /\ tokens'[d] = tokens[d]
      BY <1>1, <1>12, <1>13, <2>2 DEF IsTable
    <3> QED BY <3>1 DEF RegistryInv, TokensConsistent
  <2> QED BY <2>1, <2>2
<1> QED BY <1>15, <1>16, <1>17, <1>18 DEF RegistryInv

----------------------------------------------------------------------------

LEMMA RegistryInvInit == RegistryInit => RegistryInv
<1> SUFFICES ASSUME RegistryInit PROVE RegistryInv
  OBVIOUS
<1>1. RegistryTypeOK
  BY DEF RegistryInit, RegistryTypeOK, IsTable, NoRows
<1>2. NamesIncrease /\ TokensConsistent
  BY DEF RegistryInit, NamesIncrease, TokensConsistent, NoRows
<1>3. TablesFilled
  <2>1. 0 \in 0..(ByteRange - 1) /\ 1..0 = {}
    BY RegistryAssumption
  <2> QED BY <2>1 DEF RegistryInit, TablesFilled, NoRows
<1> QED BY <1>1, <1>2, <1>3 DEF RegistryInv

LEMMA EditDaoKeeps == ASSUME RegistryInv, EditDao PROVE RegistryInv'
BY UpdateKeeps, DelOrgKeeps, UpsertAttrsKeeps, DelAttrsKeeps, AddTokenKeeps DEF EditDao

LEMMA SetConfigKeeps == ASSUME RegistryInv, SetConfig PROVE RegistryInv'
BY SetParamKeeps, ResetSttngsKeeps DEF SetConfig

LEMMA RegistryUnchanged == ASSUME RegistryInv, UNCHANGED registryVars PROVE RegistryInv'
BY DEF registryVars, RegistryInv, RegistryTypeOK, NamesIncrease, TablesFilled, TokensConsistent

LEMMA RegistryInvStep == RegistryInv /\ [RegistryNext]_registryVars => RegistryInv'
BY ResetDaosKeeps, CreateDaoKeeps, EditDaoKeeps, SetConfigKeeps, RegistryUnchanged
   DEF RegistryNext

LEMMA RegistryInvariant == RegistrySpec => []RegistryInv
<1> QED BY RegistryInvInit, RegistryInvStep, PTL DEF RegistrySpec

(***************************************************************************)
(* Rows of organizations, registered tokens and parameters always have     *)
(* their types; in particular upsertattrs, whatever batch it is given,     *)
(* leaves attributes.                                                      *)
(***************************************************************************)
THEOREM RegistryTypeCorrect == RegistrySpec => []RegistryTypeOK
<1>1. RegistryInv => RegistryTypeOK
  BY DEF RegistryInv
<1> QED BY <1>1, RegistryInvariant, PTL

(***************************************************************************)
(* No two organizations ever have the same name, however often ids are     *)
(* freed and taken over: names grow with ids, and ids are compared.        *)
(***************************************************************************)
THEOREM RegistryNamesUnique == RegistrySpec => []NamesUnique
<1>1. ASSUME RegistryInv
      PROVE  NamesUnique
  <2> SUFFICES ASSUME NEW d \in DOMAIN daos, NEW e \in DOMAIN daos, daos[d].dao = daos[e].dao
               PROVE  d = e
    BY DEF NamesUnique
  <2>1. d \in Nat /\ e \in Nat
    BY <1>1, RegistryAssumption DEF RegistryInv, RegistryTypeOK, IsTable, DaoId
  <2>2. daos[d].dao \in Nat
    BY <1>1, RegistryAssumption DEF RegistryInv, RegistryTypeOK, IsTable, DaoRow
  <2>3. ~(d < e) /\ ~(e < d)
    BY <1>1, <2>2 DEF RegistryInv, NamesIncrease
  <2> QED BY <2>1, <2>3
<1> QED BY <1>1, RegistryInvariant, PTL

(***************************************************************************)
(* The tokens an organization lists are the youngest part of its table of  *)
(* tokens, in order and without repetition, for any width of token ids.    *)
(***************************************************************************)
THEOREM RegistryTokensConsistent == RegistrySpec => []TokensConsistent
<1>1. RegistryInv => TokensConsistent
  BY DEF RegistryInv
<1> QED BY <1>1, RegistryInvariant, PTL

(***************************************************************************)
(* What upsertattrs makes of the attributes of any organization with any   *)
(* batch of any length: the last value given for a key it had, the first   *)
(* for a new key, and the other keys as they were.                         *)
(***************************************************************************)
THEOREM RegistryUpsertMeaning == RegistrySpec => []UpsertMeaning
<1>1. RegistryInv => UpsertMeaning
  <2> SUFFICES ASSUME RegistryInv, NEW old \in {daos[d].attributes : d \in DOMAIN daos},
                      NEW batch \in Batch
               PROVE  LET new      == Upserted(old, batch)
                          given(k) == {i \in DOMAIN batch : batch[i][1] = k}
                      IN  /\ DOMAIN new = DOMAIN old \cup {batch[i][1] : i \in DOMAIN batch}
                          /\ \A k \in DOMAIN new :
                               new[k] = IF given(k) = {} THEN old[k]
                                        ELSE IF k \in DOMAIN old THEN batch[Max(given(k))][2]
                                        ELSE batch[Min(given(k))][2]
    BY DEF UpsertMeaning
  <2>1. old \in Attributes
    BY DEF RegistryInv, RegistryTypeOK, IsTable, DaoRow, Attributes
  <2>2. PICK n \in 1..MaxBatch : batch \in [1..n -> AttrKey \X AttrValue]
    BY DEF Batch
  <2>3. n \in Nat /\ DOMAIN batch = 1..n
    BY <2>2
  <2>4. UpsertedBy(old, batch, n, Upserted(old, batch))
    BY <2>1, <2>2, <2>3, UpsertedCorrect
  <2> QED BY <2>3, <2>4 DEF UpsertedBy
<1> QED BY <1>1, RegistryInvariant, PTL

----------------------------------------------------------------------------
(* What a symbol stands for. *)

\* While an organization lives its list of tokens only ever gets longer at its end.
ListsGrow ==
  \A d \in DOMAIN daos \cap DOMAIN daos' :
    \/ daos'[d].tokens = daos[d].tokens
    \/ \E token : daos'[d].tokens = Append(daos[d].tokens, token)

LEMMA StepsGrowLists == RegistryInv /\ [RegistryNext]_registryVars => ListsGrow
<1> SUFFICES ASSUME RegistryInv, [RegistryNext]_registryVars PROVE ListsGrow
  OBVIOUS
<1>1. IsTable(daos, DaoId, DaoRow)
  BY DEF RegistryInv, RegistryTypeOK
<1>2. \A d \in DOMAIN daos : daos[d] \in DaoRow
  BY <1>1 DEF IsTable
<1>3. ASSUME NEW signer, ResetDaos(signer) PROVE ListsGrow
  BY <1>3 DEF ResetDaos, NoRows, ListsGrow
<1>4. ASSUME NEW signer, NEW dao, NEW creator, NEW ipfs, CreateDao(signer, dao, creator, ipfs)
      PROVE  ListsGrow
  <2>1. \A d \in DOMAIN daos : d # NonZeroKey(NextKey(daos))
    BY <1>1, NewDaoId
  <2> QED BY <1>4, <2>1 DEF CreateDao, Put, ListsGrow
<1>5. ASSUME NEW signer, NEW dao_id, NEW ipfs, Update(signer, dao_id, ipfs) PROVE ListsGrow
  BY <1>2, <1>5 DEF Update, MayEdit, DaoRow, ListsGrow
<1>6. ASSUME NEW signer, NEW dao_id, DelOrg(signer, dao_id) PROVE ListsGrow
  BY <1>6 DEF DelOrg, Erase, Restrict, ListsGrow
<1>7. ASSUME NEW signer, NEW dao_id, NEW batch, UpsertAttrs(signer, dao_id, batch)
      PROVE  ListsGrow
  <2> DEFINE new == Upserted(daos[dao_id].attributes, batch)
  <2>1. daos' = [daos EXCEPT ![dao_id].attributes = new]
    BY <1>7 DEF UpsertAttrs
  <2> HIDE DEF new
  <2> QED BY <1>2, <2>1 DEF DaoRow, ListsGrow
<1>8. ASSUME NEW signer, NEW dao_id, NEW keys, DelAttrs(signer, dao_id, keys) PROVE ListsGrow
  BY <1>2, <1>8 DEF DelAttrs, DaoRow, ListsGrow
<1>9. ASSUME NEW signer, NEW dao_id, NEW token_contract, NEW token_symbol,
             AddToken(signer, dao_id, token_contract, token_symbol)
      PROVE  ListsGrow
  <2> DEFINE token == [account |-> token_contract, symbol |-> token_symbol]
  <2>1. daos' = [daos EXCEPT ![dao_id].tokens = Append(@, token)]
    BY <1>9 DEF AddToken
  <2> HIDE DEF token
  <2> QED BY <1>2, <2>1 DEF DaoRow, ListsGrow
<1>10. CASE SetConfig \/ UNCHANGED registryVars
  BY <1>10 DEF SetConfig, SetParam, ResetSttngs, registryVars, ListsGrow
<1>11. CASE EditDao
  BY <1>5, <1>6, <1>7, <1>8, <1>9, <1>11 DEF EditDao
<1> QED BY <1>3, <1>4, <1>10, <1>11 DEF RegistryNext

(* A symbol that is listed stays so, for the same contract. *)
LEMMA ListedStaysSo ==
  ASSUME RegistryInv, ListsGrow, NEW d \in DOMAIN daos \cap DOMAIN daos', NEW s \in Symbol,
         Positions(d, s) # {}
  PROVE  Positions(d, s)' # {} /\ TokenAccount(d, s)' = TokenAccount(d, s)
<1> DEFINE list == daos[d].tokens
           first == Min(Positions(d, s))
<1>1. list \in Seq(TokenRow)
  BY DEF RegistryInv, RegistryTypeOK, IsTable, DaoRow
<1>2. Positions(d, s) \subseteq 1..Len(list) /\ Len(list) \in Nat
  BY <1>1 DEF Positions
<1>3. first \in Positions(d, s) /\ \A i \in Positions(d, s) : first <= i
  <2>1. Positions(d, s) \subseteq Nat
    BY <1>2
  <2> QED BY <2>1, MinIsLeast
<1>4. TokenAccount(d, s) = list[first].account
  BY DEF TokenAccount
<1>5. CASE daos'[d].tokens = list
  BY <1>5 DEF TokenAccount, Positions
<1>6. ASSUME NEW token, daos'[d].tokens = Append(list, token)
      PROVE  Positions(d, s)' # {} /\ TokenAccount(d, s)' = TokenAccount(d, s)
  <2>1. /\ DOMAIN daos'[d].tokens = 1..(Len(list) + 1)
        /\ \A i \in 1..Len(list) : daos'[d].tokens[i] = list[i]
    BY <1>1, <1>6
  <2>2. first \in Positions(d, s)' /\ first \in 1..Len(list)
    <3>1. first \in 1..Len(list) /\ list[first].symbol = s
      BY <1>2, <1>3 DEF Positions
    <3>2. first \in DOMAIN daos'[d].tokens /\ daos'[d].tokens[first].symbol = s
      BY <1>2, <2>1, <3>1
    <3> HIDE DEF first
    <3> QED BY <3>1, <3>2 DEF Positions
  <2>3. \A i \in Positions(d, s)' : first <= i
    BY <1>1, <1>2, <1>3, <2>1, <2>2 DEF Positions
  <2>4. Min(Positions(d, s)') = first
    <3>1. Positions(d, s)' \subseteq Nat
      BY <2>1 DEF Positions
    <3> HIDE DEF first
    <3>2. /\ Min(Positions(d, s)') \in Positions(d, s)'
          /\ \A m \in Positions(d, s)' : Min(Positions(d, s)') <= m
      BY <2>2, <3>1, MinIsLeast
    <3> QED BY <2>2, <2>3, <3>1, <3>2
  <2>5. TokenAccount(d, s)' = daos'[d].tokens[first].account
    BY <2>2, <2>4 DEF TokenAccount
  <2> QED BY <1>4, <2>1, <2>2, <2>5
<1> QED BY <1>5, <1>6 DEF ListsGrow

(***************************************************************************)
(* A symbol that stands for a registered token keeps standing for the      *)
(* same contract as long as the organization lives.                        *)
(***************************************************************************)
THEOREM RegistryResolutionStable == RegistrySpec => ResolutionStable
<1> DEFINE Stable == \A d \in DOMAIN daos \cap DOMAIN daos', s \in Symbol :
                       Positions(d, s) # {} => TokenAccount(d, s)' = TokenAccount(d, s)
<1>1. ASSUME RegistryInv, ListsGrow PROVE Stable
  BY <1>1, ListedStaysSo
<1>2. RegistryInv /\ [RegistryNext]_registryVars => [Stable]_registryVars
  BY <1>1, StepsGrowLists
<1> QED BY <1>2, RegistryInvariant, PTL DEF RegistrySpec, ResolutionStable
=============================================================================
