----------------------------- MODULE MCRowWrites -----------------------------
(* Two requests on a table of two rows and one tag, with key columns that  *)
(* tell the rows apart or do not.                                          *)
EXTENDS RowWrites, TLC

CONSTANTS r1, r2, k1, k2, t1, q1, q2

MCUnique == {r1 :> k1 @@ r2 :> k2}
MCKeyings == MCUnique \cup {r1 :> k @@ r2 :> k : k \in {k1, k2}}

\* Requests are alike, and so are the rows when the keys follow them: each
\* exchange maps the keyings to themselves.
MCSymmetry == Permutations({q1, q2}) \cup {r1 :> r2 @@ r2 :> r1 @@ k1 :> k2 @@ k2 :> k1}

\* A grant is taken away where no statement fails and requests come one after the
\* other.  Where a key means several rows they come so, too, and neither happens.
MCNext ==
  /\ Next
  /\ ~revoked' \/ (faults' = 0 /\ overlapped' = {})
  /\ keyOf \in MCUnique \/ (faults' = 0 /\ ~revoked' /\ overlapped' = {})

MCSpec == Init /\ [][MCNext]_vars
=============================================================================
