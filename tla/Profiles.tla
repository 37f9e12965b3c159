------------------------------ MODULE Profiles ------------------------------
(***************************************************************************)
(* What a register of profiles promises: profiles are added blank, one at  *)
(* a time, what one says is changed one at a time, and whose it is never;  *)
(* no two of the same owner ever say the same.  Only clearing the register *)
(* removes any.                                                            *)
(***************************************************************************)
CONSTANT Blank     \* what a new profile says

VARIABLE profiles  \* a set of [dao_id, fixed, says] records

Init == profiles = {}

Unsaid(p) == \A q \in profiles : q.fixed = p.fixed => q.says # p.says

Add(p) ==
  /\ p.says = Blank
  /\ profiles' = profiles \cup {p}

Change(q, p) ==
  /\ p.dao_id = q.dao_id /\ p.fixed = q.fixed
  /\ profiles' = (profiles \ {q}) \cup {p}

Clear == profiles' = {}

Next ==
  \/ Clear
  \/ \E p \in profiles' \ profiles :
       Unsaid(p) /\ (Add(p) \/ \E q \in profiles : Change(q, p))

Spec == Init /\ [][Next]_profiles
=============================================================================
