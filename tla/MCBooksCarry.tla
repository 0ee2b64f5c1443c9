---------------------------- MODULE MCBooksCarry ----------------------------
(* An intraday sleeve and one that carries its position overnight, on a    *)
(* symbol they share: S3's GLD, with GLD in the universe configured for S0. *)
EXTENDS Books

MCRunners  == <<"S0", "S3">>
MCIntraday == {"S0"}
MCSymbols  == {"GLD"}
MCUniverse == [sl \in {"S0", "S3"} |-> {"GLD"}]
=============================================================================
