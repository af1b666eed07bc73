-------------------------- MODULE MCTCPConnection ---------------------------
(* Model-checking instances of TCPConnection and TCPLiveness.               *)
EXTENDS TCPLiveness

CONSTANTS A, B

BothPeers == {A, B}
OnlyA == {A}
\* A's numbers wrap around during the connection.
FarIsn == [p \in BothPeers |-> IF p = A THEN MOD - 2 ELSE 2]

OneTick == {1}

\* Bytes each side writes.
TwoFromA == [p \in BothPeers |-> IF p = A THEN 2 ELSE 0]
TwoAndOne == [p \in BothPeers |-> IF p = A THEN 2 ELSE 1]
FourFromA == [p \in BothPeers |-> IF p = A THEN 4 ELSE 0]
=============================================================================
