--------------------------- MODULE MCBackupIdentity ---------------------------
(* A finite instance of BackupIdentity, with GCP's bounds scaled down: ids  *)
(* are cut to 2 characters, the suffix has 2, and accounts 3 to 4.          *)
EXTENDS BackupIdentity

Letters == {"a", "g"}
Digits == {"1"}
LowerCase == [ch \in {"a", "g", "1", "-", "A", "_"} |-> IF ch = "A" THEN "a" ELSE ch]
ShortSuffix == <<"-", "a">>

(* Clean ids; ids to be put in lower case, sanitised, stripped on either    *)
(* side or away altogether, given a letter, cut, and cut before a dash.     *)
SomeIds == {<<"a">>, <<"a", "a">>, <<"a", "g">>, <<"A", "g">>, <<"_", "a">>,
            <<"-", "a", "-">>, <<"_">>, <<>>, <<"1">>, <<"a", "-">>,
            <<"1", "a", "g">>, <<"a", "g", "a">>, <<"a", "_", "a">>}
=============================================================================
