------------------------------ MODULE Prekeys -------------------------------
(***************************************************************************)
(* Prekey bundles (internal/crypto/x3dh.go).  A session key depends on the *)
(* two parties and on the prekeys of the responder that went into it, so   *)
(* a key is written as those: the signed prekey and the one-time prekey,   *)
(* or NoOPK after three Diffie-Hellman exchanges instead of four.          *)
(***************************************************************************)
EXTENDS Naturals

NoOPK == 0

\* What a node caches of a peer before it has heard its bundle; as a key, the
\* long-term one (ECDH of the identities), which any later state can derive.
NoBundle == [spk |-> 0, opk |-> NoOPK]

\* The owner's bundle, new in every run of the process.
GenerateBundle(life) == [spk |-> life, opk |-> 1, has |-> TRUE]

\* PublicJSON, and ParseBundle on the other side.
Public(b) == [spk |-> b.spk, opk |-> IF b.has THEN b.opk ELSE NoOPK]

StripRemoteOPK(r) == [r EXCEPT !.opk = NoOPK]

\* The key the initiator derives from the bundle it has cached.
InitiatorSecret(r) == r

\* The key the responder derives: with its one-time prekey whenever it has one.
ResponderSecret(b) == [spk |-> b.spk, opk |-> IF b.has THEN b.opk ELSE NoOPK]

ConsumeOPK(b) == [b EXCEPT !.has = FALSE]

\* Mutant: a bundle gets its old one-time prekey back.
RotateToSame(b) == [b EXCEPT !.has = TRUE]

RotateOPK(b) == [b EXCEPT !.opk = @ + 1, !.has = TRUE]
=============================================================================
