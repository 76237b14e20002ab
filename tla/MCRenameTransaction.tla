------------------------- MODULE MCRenameTransaction -------------------------
(***************************************************************************)
(* The instance the transaction is checked on: two rows that exchange      *)
(* their names, which takes a temporary name and three steps (the shortest *)
(* schedule with a temporary hop).  f and g are the rows and fi and gi     *)
(* their identities: equal when the rows are hard links of one file.       *)
(***************************************************************************)
EXTENDS RenameTransaction

CONSTANTS f, g, fi, gi, kf, kg, kt

MCEntries    == {f, g}
MCIdentities == {fi, gi}
MCKeys       == {kf, kg, kt}

MCRows ==
  <<[entry |-> f, identity |-> fi, source |-> kf, destination |-> kg],
    [entry |-> g, identity |-> gi, source |-> kg, destination |-> kf]>>

MCSteps ==
  <<[entry |-> f, identity |-> fi, source |-> kf, destination |-> kt,
     phase |-> "IntoTemporary"],
    [entry |-> g, identity |-> gi, source |-> kg, destination |-> kf,
     phase |-> "None"],
    [entry |-> f, identity |-> fi, source |-> kt, destination |-> kg,
     phase |-> "FromTemporary"]>>

MCOcc[i \in 0..3] ==
  IF i = 0
  THEN [k \in MCKeys |-> IF k = kf THEN fi ELSE IF k = kg THEN gi ELSE None]
  ELSE ApplyStep(MCOcc[i - 1], MCSteps[i])
=============================================================================
