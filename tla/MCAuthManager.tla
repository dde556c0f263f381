--------------------------- MODULE MCAuthManager ---------------------------
(* AuthManager with one bond that expires, and lists short enough that an  *)
(* outcome is popped.                                                      *)
EXTENDS AuthManager

MCExpires == [b \in Bonds |-> 0]
MCLimit == [match |-> 1, preimage |-> 2, order |-> 2]
=============================================================================
