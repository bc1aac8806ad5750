---------------------------- MODULE MCConnection ----------------------------
(* Small instances of Connection for TLC: the sets a cfg cannot write.     *)
EXTENDS Connection

\* A peer that follows the protocol.
Honest == {}

\* Bytes that do not decode, from a peer that else follows the protocol.
Garbled == {Msg("corrupt", 0, 0)}
=============================================================================
