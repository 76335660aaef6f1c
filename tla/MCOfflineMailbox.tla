-------------------------- MODULE MCOfflineMailbox --------------------------
(* Instances of OfflineMailbox for TLC.                                    *)
EXTENDS OfflineMailbox, TLC

\* No action or property tells one envelope from another.
EnvelopeSymmetry == Permutations(Envelopes)
=============================================================================
