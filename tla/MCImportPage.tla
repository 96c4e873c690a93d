---------------------------- MODULE MCImportPage ----------------------------
(* Two keys; an export with a password, one without, a hosted backup, and a *)
(* file with one key.                                                       *)
EXTENDS ImportPage

CONSTANTS k1, k2

MCKeys == {k1, k2}
MCFiles == {[kind |-> "export", keys |-> {k1}, open |-> FALSE],
            [kind |-> "export", keys |-> {k1, k2}, open |-> TRUE],
            [kind |-> "hosted", keys |-> {k1}, open |-> TRUE],
            [kind |-> "wif", keys |-> {k2}, open |-> TRUE]}
=============================================================================
