-------------------------------- MODULE Rates --------------------------------
(* Numbers of bytes in the units of rates and quotas: get_rate() of          *)
(* statement.c prints them, rate_to_bytes() of parser_json.c and             *)
(* data_unit_parse() of datatype.c read them.                                *)
EXTENDS Integers

Kilo == 1024
Units == {"bytes", "kbytes", "mbytes"}
RateBytes == [u \in Units |-> IF u = "bytes" THEN 1 ELSE IF u = "kbytes" THEN Kilo ELSE Kilo * Kilo]

(* The largest unit the number is a multiple of.                             *)
RateUnit(bytes) ==
  IF bytes = 0 \/ bytes % Kilo # 0 THEN "bytes"
  ELSE IF (bytes \div Kilo) % Kilo # 0 THEN "kbytes" ELSE "mbytes"
RateJson(bytes) == [val |-> bytes \div RateBytes[RateUnit(bytes)], unit |-> RateUnit(bytes)]

(* Mutant: units are decimal.                                                *)
RateOfThousand(r) == r.val * (IF r.unit = "bytes" THEN 1 ELSE IF r.unit = "kbytes" THEN 1000 ELSE 1000000)
RateOf(r) == r.val * RateBytes[r.unit]
=============================================================================
