--------------------------------- MODULE Names ---------------------------------
(***************************************************************************)
(* The names a program gives the driver and what they stand for: the parts *)
(* of a data source name (dsn.go), the zone of a time (timezone_resolve.go *)
(* and timezonemap.go), the encoding of a text (charset.go) and the        *)
(* version in a server's banner (firebird_version.go).                     *)
(***************************************************************************)
EXTENDS Integers, Sequences, FiniteSets, SequencesExt

CONSTANTS
    Zones,    \* timezonemap.go: the number of each zone it knows
    Encodings \* charset.go: the encoding of each character set it knows

(***************************************************************************)
(* A DSN once net/url has taken it apart: [user, host, port, path, query]. *)
(* user is <<>> when there is none; port is "" when there is none; a path  *)
(* is a sequence of characters; query gives each name's values.            *)
(***************************************************************************)
From(s, n) == SubSeq(s, n + 1, Len(s))

(* A plausible slip: every path loses its first slash. *)
WithoutSlash_Always(path) == IF path # <<>> THEN Tail(path) ELSE path

WithoutSlash(path) == IF path # <<>> /\ ~Contains(Tail(path), "/") THEN Tail(path) ELSE path

WithoutDriveSlash(name) == IF Len(name) >= 2 /\ Contains(From(name, 2), ":") THEN Tail(name) ELSE name
DbName(path) == WithoutDriveSlash(WithoutSlash(path))

AuthPlugins == <<"Srp256", "Srp", "Legacy_Auth">>
ValidPlugins(name, list) == list # <<>> /\ ToSet(list) \subseteq ToSet(AuthPlugins) /\ Contains(list, name)
DefaultOptions ==
    [auth_plugin_name |-> "Srp256", auth_plugin_list |-> AuthPlugins,
     charset |-> "UTF8", client_version |-> "", column_name_to_lower |-> "false",
     host_name |-> "", os_user |-> "", role |-> "", timezone |-> "", wire_crypt |-> "true",
     wire_crypt_plugin |-> "ChaCha64,ChaCha,Arc4", wire_compress |-> "false",
     max_inline_blob_size |-> "65536", max_blob_cache_size |-> "10485760"]
Aliases == [max_inline_blob_size |-> "inline_blob_size", max_blob_cache_size |-> "blob_cache_size"]

Options(query) ==
    LET asked(k) == IF k \in DOMAIN query THEN query[k][1] ELSE DefaultOptions[k]
    IN  [k \in DOMAIN DefaultOptions |->
            IF k \in DOMAIN Aliases /\ Aliases[k] \in DOMAIN query /\ query[Aliases[k]] # <<>>
            THEN query[Aliases[k]][1] ELSE asked(k)]

CryptModes == {"", "true", "1", "enabled", "false", "0", "disabled", "required"}

ParseDSN(u) ==
    LET name == DbName(u.path)
        opts == Options(u.query)
        bad(why) == [err |-> why, addr |-> <<>>, dbName |-> <<>>, options |-> opts]
        okay == [err |-> "", addr |-> <<u.host, IF u.port = "" THEN "3050" ELSE u.port>>,
                 dbName |-> name, options |-> opts]
        complaints == <<<<u.user = <<>>, "user unknown">>,
                        <<ToSet(name) \subseteq {"/"}, "database name unknown">>,
                        <<opts.wire_crypt \notin CryptModes, "wire_crypt">>,
                        <<~ValidPlugins(opts.auth_plugin_name, opts.auth_plugin_list), "auth plugins">> >>
        found == SelectSeq(complaints, LAMBDA c : c[1])
    IN  IF found = <<>> THEN okay ELSE bad(found[1][2])

(***************************************************************************)
(* The zone a time is sent in: its own, the session's, or UTC.             *)
(***************************************************************************)
TimezoneId(name) == IF name \in DOMAIN Zones THEN Zones[name] ELSE 0
ResolveTimezone(name, session) ==
    LET known == SelectSeq(<<TimezoneId(name), TimezoneId(session), TimezoneId("UTC")>>,
                           LAMBDA id : id # 0)
    IN  known[1]

(***************************************************************************)
(* A text in the session's character set.  An encoding maps characters to  *)
(* bytes one to one.  A set the table does not know leaves the text alone, *)
(* and one that lacks a character of the text makes it empty: the error is *)
(* dropped.                                                                *)
(***************************************************************************)
EncodeCharset(text, charset) ==
    LET code == Encodings[charset]
    IN  CASE charset \notin DOMAIN Encodings -> text
          [] charset \in DOMAIN Encodings /\ ToSet(text) \subseteq DOMAIN code ->
               [i \in DOMAIN text |-> code[text[i]]]
          [] OTHER -> <<>>
DecodeCharset(raw, charset) ==
    LET code == Encodings[charset]
    IN  IF charset \notin DOMAIN Encodings THEN raw
        ELSE [i \in DOMAIN raw |-> CHOOSE c \in DOMAIN code : code[c] = raw[i]]

(***************************************************************************)
(* A banner: <<platform, type, major, minor, patch, build>>, or any other  *)
(* sequence, which no feature may be inferred from.                        *)
(***************************************************************************)
ParseFirebirdVersion(banner) ==
    IF Len(banner) = 6 THEN [Full |-> TRUE, Major |-> banner[3], Minor |-> banner[4], Patch |-> banner[5]]
    ELSE [Full |-> FALSE, Major |-> 0, Minor |-> 0, Patch |-> 0]
EqualOrGreater(v, major, minor) == v.Major > major \/ (v.Major = major /\ v.Minor >= minor)
EqualOrGreaterPatch(v, major, minor, patch) ==
    \/ v.Major > major
    \/ v.Major = major /\ (v.Minor > minor \/ (v.Minor = minor /\ v.Patch >= patch))
===============================================================================
