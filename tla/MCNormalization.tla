-------------------------- MODULE MCNormalization --------------------------
(* Instances of Normalization for TLC.                                     *)
EXTENDS Normalization

CONSTANTS t1, t2, p1

TwoTitles == {t1, t2}
OnePath == {p1}
=============================================================================
