----------------------------- MODULE MCJobPolicy -----------------------------
(* TLC instances of JobPolicy: lists of one and two basic policies, among   *)
(* them two for the same condition.                                         *)
EXTENDS JobPolicy, TLC

CONSTANTS bad_handle, new_any, allow, deny

Entry(c, a) == [condition |-> c, action |-> a]
Lists == {<<Entry(bad_handle, deny)>>,
          <<Entry(new_any, deny), Entry(bad_handle, allow)>>,
          <<Entry(bad_handle, deny), Entry(bad_handle, allow)>>}

Symmetry == Permutations(Callers)
=============================================================================
