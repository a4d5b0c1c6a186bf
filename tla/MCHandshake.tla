---------------------------- MODULE MCHandshake ----------------------------
(* Values of Handshake's constants. *)
EXTENDS Handshake

AllOptions ==
    [mode : Modes, name : Plugins, compress : BOOLEAN, right : BOOLEAN,
     list : {{"Srp256", "Srp", "Legacy_Auth"}, {"Srp256", "Srp"}, {"Srp256"}},
     ciphers : {<<"ChaCha64", "ChaCha", "Arc4">>, <<"ChaCha", "ChaCha64">>, <<>>},
     server : {{"answers"}, {"compresses"}}]
ValidOptions == {o \in AllOptions : o.name \in o.list}

\* Compression and encryption are not asked for together.
SeparateOptions == {o \in ValidOptions : o.compress => o.mode = "disabled"}

\* As the servers do, and a nonce that does not fit.
ServerOffers ==
    {[c \in Ciphers |-> "no"],
     [c \in Ciphers |-> IF c = "Arc4" THEN "bare" ELSE "fit"],
     [c \in Ciphers |-> IF c = "Arc4" THEN "bare" ELSE "no"],
     [c \in Ciphers |-> CASE c = "ChaCha" -> "fit" [] c = "Arc4" -> "bare" [] OTHER -> "no"],
     [c \in Ciphers |-> CASE c = "ChaCha" -> "unfit" [] c = "Arc4" -> "no" [] OTHER -> "fit"],
     [c \in Ciphers |-> CASE c = "ChaCha64" -> "unfit" [] c = "Arc4" -> "bare" [] OTHER -> "fit"]}
=============================================================================
