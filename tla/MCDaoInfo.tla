----------------------------- MODULE MCDaoInfo ------------------------------
(***************************************************************************)
(* A small instance of the info contract: two creators, one of them the    *)
(* contract itself, and the ids one and two beside those that read as the  *)
(* edge names "daos" and "hasdaos"; one label without a meaning.           *)
(***************************************************************************)
EXTENDS DaoInfo

\* Keys of which no two are equal.
DistinctEdge(from, to, name) == <<from, to, name>>
DistinctPair(one, other)     == <<one, other>>

Spoken == {String("x"), Nothing}
=============================================================================
