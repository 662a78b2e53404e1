------------------------------ MODULE Dictionary ------------------------------
(***************************************************************************)
(* What the hash map of PDB/include/map.h promises to those who use it: a  *)
(* function from a finite set of keys to values, which a save and a reload *)
(* leave as it is.                                                         *)
(***************************************************************************)
CONSTANTS Keys, Values

VARIABLE dict

Without(d) == [k \in DOMAIN dict \ {d} |-> dict[k]]
With(d, r) == [k \in DOMAIN dict \cup {d} |-> IF k = d THEN r ELSE dict[k]]

DictInit == dict = <<>>

DictNext ==
  \/ dict' = <<>>
  \/ \E d \in Keys : dict' = Without(d)
  \/ \E d \in Keys, r \in Values : dict' = With(d, r)

DictSpec == DictInit /\ [][DictNext]_dict
=============================================================================
