------------------------- MODULE MCInstructionCodec -------------------------
(* Every instruction, with every field 0 and with each field in turn set to  *)
(* each of two values: one that fills the lowest byte and one that fills all. *)
EXTENDS InstructionCodec, TLC

FieldsOf(ix) == IF ix = "UpdateMarketMetadata" THEN MetadataFields ELSE PackFields(ix)

ZeroOf(type) == IF type = "option" THEN << >> ELSE 0

ProbesOf(type) ==
  CASE type = "option" -> {<<0>>, <<Base ^ 3 - 1>>}
    [] type = "reserve_type" -> {1}
    [] OTHER -> {1, Base ^ Width[type] - 1}

Blank(ix) ==
  [name \in {FieldsOf(ix)[k][1] : k \in DOMAIN FieldsOf(ix)} |->
     ZeroOf((CHOOSE f \in Range(FieldsOf(ix)) : f[1] = name)[2])]

MCSamples ==
  UNION {{[ix |-> ix, fields |-> Blank(ix)]}
           \cup UNION {{[ix |-> ix, fields |-> [Blank(ix) EXCEPT ![f[1]] = v]]
                          : v \in ProbesOf(f[2])}
                         : f \in Range(FieldsOf(ix))}
         : ix \in Instructions}
=============================================================================
