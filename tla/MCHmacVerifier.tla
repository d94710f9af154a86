--------------------------- MODULE MCHmacVerifier ---------------------------
(* Instances of HmacVerifier for TLC. *)
EXTENDS HmacVerifier

Sig(v, t) == [dev |-> CHOOSE d \in Devices : TRUE, ver |-> v, ts |-> t,
              nonce |-> CHOOSE n \in Nonces : TRUE]

\* From an agent whose clock is right and one that runs ahead, under the first
\* secret, the second, and none.
SentAll == {Sig(0, 1), Sig(1, 0), Sig(1, 1), Sig(2, 1)}
=============================================================================
