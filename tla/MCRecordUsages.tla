--------------------------- MODULE MCRecordUsages ---------------------------
(* Small instances of RecordUsages: two users of one admin, one or two nodes. *)
EXTENDS RecordUsages

CONSTANTS u1, u2, a1, n1, n2

MCOwner == [u \in Users |-> a1]
MCSplitOwner == [u \in Users |-> IF u = u1 THEN a1 ELSE NoAdmin]
MCLimit == [a \in Admins |-> 2]
MCNoLimit == [a \in Admins |-> 0]

\* Coefficients 0.5 and 1.0, or 1.0 and 2.0.
MCUnit == 2
MCDouble == {2, 4}
MCHalf == {1, 2}
MCOne == {2}
=============================================================================
