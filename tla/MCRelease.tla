----------------------------- MODULE MCRelease -----------------------------
(* Below 1.0.0 and across it: a person keeps the version or raises it. *)
EXTENDS Release

MCFirst == <<0, 1, 0>>

\* Kept, set to 1.0.0, or raised above what any change calls for.
MCRaises(v) == {v, IF v[1] = 0 THEN <<1, 0, 0>> ELSE <<1, v[2] + 2, 0>>}

=============================================================================
