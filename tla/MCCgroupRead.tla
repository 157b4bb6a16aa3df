--------------------------- MODULE MCCgroupRead ---------------------------
(* Small limits: files below, at and above the limit of each kind, and a    *)
(* budget that three files together exceed.                                 *)
EXTENDS CgroupRead

MCFileLimit == [k \in Kinds |-> IF k = "RESOURCE" THEN 3 ELSE 5]
===========================================================================
