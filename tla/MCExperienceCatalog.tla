------------------------ MODULE MCExperienceCatalog ------------------------
(* Instances of ExperienceCatalog for TLC.  Requests are model values: they  *)
(* only differ by name, so that permuting them is a symmetry.                *)
EXTENDS ExperienceCatalog, TLC

CONSTANTS t1, t2, t3, t4, portal, intake

Two == {t1, t2}
Three == {t1, t2, t3}
Four == {t1, t2, t3, t4}
Symmetry == Permutations(Txns)

One == {portal}
Both == {portal, intake}
=============================================================================
