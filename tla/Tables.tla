------------------------------- MODULE Tables -------------------------------
(***************************************************************************)
(* Tables as functions from keys to rows, rows as records, and what a      *)
(* statement leaves in them: the rows (or the columns) it writes, over     *)
(* those that were there.                                                  *)
(***************************************************************************)

\* f, and g wherever f says nothing.
Over(f, g) == [x \in DOMAIN f \cup DOMAIN g |-> IF x \in DOMAIN f THEN f[x] ELSE g[x]]

\* A table of one row.
One(key, row) == [k \in {key} |-> row]

=============================================================================
