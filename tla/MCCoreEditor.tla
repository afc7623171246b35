---------------------------- MODULE MCCoreEditor ----------------------------
(* A small instance of CoreEditor.                                         *)
EXTENDS CoreEditor, TLC

CONSTANTS c1, c2   \* core ids

\* A row whose section "part" is not the default one.
Row(kind, part, form) ==
  [name |-> "n1", kind |-> kind, tags |-> FALSE,
   cfg |-> [body |-> [s \in Sections |-> IF s = part THEN 1 ELSE 0], form |-> form]]

\* An Xray core somebody wrote by hand, and a WireGuard core the kit rejects.
StoredRows == {Row("xray", "in", "other"), Row("wg", "in", "bad")}

\* What another admin may store.
TheirRows == {Row("xray", "out", "kit")}

\* The two ids are interchangeable.
CoreSymmetry == Permutations(Cores)
=============================================================================
