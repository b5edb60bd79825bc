---- MODULE MCEnvParse ----
EXTENDS EnvParse

CONSTANTS MaxLength

(* All short files of two letters and the two special characters.          *)
MCFiles == UNION {[1..n -> {"A", "B", Newline, Equals}] : n \in 0..MaxLength}
MCNames == {<<"A">>, <<"A", "B">>, <<"A", "A">>}
====
