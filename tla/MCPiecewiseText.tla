-------------------------- MODULE MCPiecewiseText -------------------------
(* The characters each of the two readers tells apart. *)
EXTENDS PiecewiseText

MCAlphabets ==
  [r \in Readers |-> IF r = "events" THEN {"LF", "CR", "other"}
                     ELSE {"tick", "LF", "space", "other"}]
=============================================================================
