----------------------------- MODULE Handshake -----------------------------
(* How a connection comes about: opConnect, _parse_connect_response and the   *)
(* attachment that openFirebirdsqlConn asks for then, with wirechannel.go's    *)
(* switch to compression and to encryption.                                   *)
(*                                                                            *)
(* Every packet carries the form in which it was written: compressed or not,  *)
(* and under which cipher.  The two ends change the form at a position of the  *)
(* stream, and nothing on the wire says where.                                *)
EXTENDS Integers, Sequences, SequencesExt

CONSTANTS
    Options,     \* the data source names explored
    Offers,      \* what a server may say of each cipher
    MaxDummies   \* bound: op_dummy packets

Plugins == {"Srp256", "Srp", "Legacy_Auth"}
Ciphers == {"ChaCha64", "ChaCha", "Arc4"}
Modes   == {"disabled", "enabled", "required"}

\* A cipher is not offered, or offered without a nonce, with one whose length
\* does not fit, or with one that fits.
Offer == [Ciphers -> {"no", "bare", "unfit", "fit"}]
NoOffer == [c \in Ciphers |-> "no"]

\* validateAuthPlugins has seen every data source name.
\* At its address is a server that may, or may not, answer op_connect or the
\* public key with a response that reports no error, and compress after a plain
\* op_accept.
ASSUME OptionsAssumption ==
    /\ Options \subseteq [mode : Modes, name : Plugins, list : SUBSET Plugins,
                          ciphers : Seq(Ciphers), compress : BOOLEAN, right : BOOLEAN,
                          server : SUBSET {"answers", "compresses"}]
    /\ \A o \in Options : o.name \in o.list
    /\ Offers \subseteq Offer /\ MaxDummies \in Nat

VARIABLES
    opts,      \* the data source name; right: its password is the user's;
               \* server: what the server at its address may do
    pc,        \* what the driver does or waits for
    opcode,    \* how the server has accepted
    plugin,    \* wireProtocol.pluginName
    key,       \* whether the driver has a session key
    zip,       \* whether wireChannel has its compressor
    cipher,    \* wireChannel.plugin
    toServer, toDriver,   \* packets on their way
    srv,       \* what the server waits for
    srvForm,   \* the form in which the server reads and writes
    srvAuth,   \* what the server knows of the driver, and has offered it
    dead,      \* the socket has broken
    dummies    \* op_dummy packets sent

driverVars == <<opcode, plugin, key, zip, cipher>>
serverVars == <<srv, srvForm, srvAuth>>
vars == <<opts, pc, driverVars, toServer, toDriver, serverVars, dead, dummies>>

Accepts == {"accept", "accept_data", "cond_accept"}
Waiting == {"opcode", "header", "inflate", "auth_data", "cont_auth", "verdict", "ack", "attach"}
Over    == {"open", "failed"}
IsSrp(name) == name \in {"Srp256", "Srp"}

Init ==
    /\ opts \in Options /\ pc = "start"
    /\ opcode = "none" /\ plugin = "" /\ key = FALSE /\ zip = FALSE /\ cipher = ""
    /\ toServer = <<>> /\ toDriver = <<>>
    /\ srv = "connect" /\ srvForm = [zip |-> FALSE, cipher |-> ""]
    /\ srvAuth = [by |-> "none", plugin |-> "", done |-> FALSE, key |-> FALSE, offer |-> NoOffer]
    /\ dead = FALSE /\ dummies = 0

-----------------------------------------------------------------------------
(* wirechannel.go.                                                            *)

\* Read and Write: the compressor goes before everything else.
FormOf(z, c) == [zip |-> z, cipher |-> IF z THEN "" ELSE c]
Form == FormOf(zip, cipher)

\* sendPackets: a write on a broken socket is lost, and nobody is told.
Tell(op, arg, form) ==
    toServer' = IF dead THEN toServer ELSE Append(toServer, [op |-> op, arg |-> arg, form |-> form])

\* The driver, waiting at p, has received a packet.  Read in another form than
\* it was written it would be none: SameForm excludes that.
Hears(p, ops) ==
    /\ pc = p /\ toDriver # <<>>
    /\ Head(toDriver).form = Form /\ Head(toDriver).op \in ops
    /\ toDriver' = Tail(toDriver)
    /\ UNCHANGED <<opts, serverVars, dead, dummies>>

Fail == pc' = "failed" /\ UNCHANGED <<toServer, driverVars>>

-----------------------------------------------------------------------------
(* wireprotocol.go: opConnect, _parse_connect_response.                       *)

\* uid: the data for the plugin that auth_plugin_name prefers, sent before the
\* server has said which one it wants.
Uid == opts.name

Connect ==
    /\ pc = "start" /\ pc' = "opcode"
    /\ Tell("connect", Uid, Form)
    /\ UNCHANGED <<opts, driverVars, toDriver, serverVars, dead, dummies>>

\* opAttach, opCreate: the password itself is always there (isc_dpb_password),
\* what has been computed of it for a plugin where it has not been sent before.
Dpb(secret) == {"password"} \cup ({secret} \ {""})

Attach(secret, z, c) ==
    /\ pc' = "attach"
    /\ Tell("attach", Dpb(secret), FormOf(z, c))

\* opContAuth: the public key, or the proof.
ContAuth(op, name) == Tell(op, name, Form)

\* wireCryptResolve.
Encrypt(enc, k) == enc # "" /\ opts.mode # "disabled" /\ k

\* Mutant: required is looked at only where a cipher has been negotiated.
FailClosed_IfNegotiated(enc, k) == enc # "" /\ ~Encrypt(enc, k) /\ opts.mode = "required"

FailClosed(enc, k) == ~Encrypt(enc, k) /\ opts.mode = "required"

\* The one decision.  op_crypt is sent as everything before, and what follows is
\* under the cipher; a nonce that no cipher takes shows only now.
Conclude(secret, z, k, enc, offer) ==
    /\ zip' = z /\ key' = k
    /\ \/ /\ Encrypt(enc, k)
          /\ Tell("crypt", enc, FormOf(z, cipher)) /\ cipher' = enc
          /\ pc' = IF enc # "Arc4" /\ offer[enc] # "fit" THEN "failed" ELSE "ack"
       \/ /\ FailClosed(enc, k)
          /\ pc' = "failed" /\ UNCHANGED <<toServer, cipher>>
       \/ /\ ~Encrypt(enc, k) /\ ~FailClosed(enc, k)
          /\ Attach(secret, z, cipher) /\ UNCHANGED cipher

\* A response without an error ends it without one, and wireCryptResolve is not
\* come to.
ReadOpcode ==
    \/ /\ Hears("opcode", {"dummy"})
       /\ UNCHANGED <<pc, toServer, driverVars>>
    \/ Hears("opcode", {"reject", "error"}) /\ Fail
    \/ Hears("opcode", {"response"}) /\ Attach("", zip, cipher) /\ UNCHANGED driverVars
    \/ /\ Hears("opcode", Accepts \cup {"other"})
       /\ opcode' = Head(toDriver).op /\ pc' = "header"
       /\ UNCHANGED <<toServer, plugin, key, zip, cipher>>

\* The protocol that the server has chosen; a read that fails leaves zeros.
Accepted(z) ==
    \/ opcode = "accept" /\ Conclude("", z, FALSE, "", NoOffer) /\ UNCHANGED <<opcode, plugin>>
    \/ /\ opcode \in {"accept_data", "cond_accept"}
       /\ zip' = z /\ pc' = "auth_data"
       /\ UNCHANGED <<toServer, opcode, plugin, key, cipher>>
    \/ /\ opcode \notin Accepts
       /\ zip' = z /\ pc' = "failed"
       /\ UNCHANGED <<toServer, opcode, plugin, key, cipher>>

\* zlib.NewReader waits for the first bytes of the compressed stream.
ReadHeader ==
    /\ Hears("header", {"header"})
    /\ \/ ~Head(toDriver).arg /\ Accepted(FALSE)
       \/ /\ Head(toDriver).arg
          /\ zip' = TRUE /\ pc' = "inflate"
          /\ UNCHANGED <<toServer, opcode, plugin, key, cipher>>

\* enableCompression: whatever comes of that read.
Inflate ==
    /\ pc = "inflate" /\ (toDriver # <<>> \/ dead)
    /\ Accepted(TRUE)
    /\ UNCHANGED <<opts, toDriver, serverVars, dead, dummies>>

HeaderLost ==
    /\ pc = "header" /\ dead /\ toDriver = <<>>
    /\ Accepted(FALSE)
    /\ UNCHANGED <<opts, toDriver, serverVars, dead, dummies>>

\* authData and the session key have been computed for name, or the server
\* wants none.
Prove(name) ==
    /\ UNCHANGED opcode
    /\ plugin' = name
    /\ \/ /\ opcode = "cond_accept"
          /\ ContAuth("proof", name) /\ key' = IsSrp(name) /\ pc' = "verdict"
          /\ UNCHANGED <<zip, cipher>>
       \/ opcode = "accept_data" /\ Conclude(name, zip, IsSrp(name), "", NoOffer)

\* Mutant: the driver waits for the server's data without asking for it.
ReadAcceptData_DoesNotAsk ==
    /\ Hears("auth_data", {"auth_data"})
    /\ LET a == Head(toDriver).arg
       IN  \/ Fail
           \/ /\ ~a.done /\ a.plugin \in opts.list /\ IsSrp(a.plugin) /\ ~a.data
              /\ plugin' = a.plugin /\ pc' = "cont_auth"
              /\ UNCHANGED <<toServer, opcode, key, zip, cipher>>
           \/ ~a.done /\ a.plugin \in opts.list /\ (IsSrp(a.plugin) => a.data) /\ Prove(a.plugin)
           \/ a.done /\ Prove("")

\* Fails also if a length or the salt is not as it should be.
ReadAcceptData ==
    /\ Hears("auth_data", {"auth_data"})
    /\ LET a == Head(toDriver).arg
       IN  \/ Fail
           \/ /\ ~a.done /\ a.plugin \in opts.list /\ IsSrp(a.plugin) /\ ~a.data
              /\ plugin' = a.plugin /\ pc' = "cont_auth" /\ ContAuth("public", a.plugin)
              /\ UNCHANGED <<opcode, key, zip, cipher>>
           \/ ~a.done /\ a.plugin \in opts.list /\ (IsSrp(a.plugin) => a.data) /\ Prove(a.plugin)
           \/ a.done /\ Prove("")

ReadContAuth ==
    \/ Hears("cont_auth", {"cont_auth"}) /\ (Fail \/ Prove(plugin))
    \/ Hears("cont_auth", {"error", "other", "dummy"}) /\ Fail
    \/ Hears("cont_auth", {"response"}) /\ Attach("", zip, cipher) /\ UNCHANGED driverVars

\* Mutant: the server's order of preference.
Guess_Any(offer) ==
    IF \E c \in Ciphers : offer[c] = "fit" /\ c \in Range(opts.ciphers)
    THEN CHOOSE c \in Ciphers : offer[c] = "fit" /\ c \in Range(opts.ciphers)
    ELSE ""

\* _guess_wire_crypt: the first cipher of the driver's list that the server has.
Usable(c, offer) ==
    offer[c] \in (CASE c = "ChaCha64" -> {"unfit", "fit"}
                    [] c = "ChaCha"   -> {"fit"}
                    [] c = "Arc4"     -> {"bare", "unfit", "fit"})
First(i, offer) ==
    /\ Usable(opts.ciphers[i], offer)
    /\ \A j \in 1..(i - 1) : ~Usable(opts.ciphers[j], offer)
Guess(offer) ==
    IF \E i \in DOMAIN opts.ciphers : First(i, offer)
    THEN opts.ciphers[CHOOSE i \in DOMAIN opts.ciphers : First(i, offer)] ELSE ""

\* opResponse reads over op_dummy.
SkipDummy ==
    /\ \E p \in {"verdict", "ack", "attach"} : Hears(p, {"dummy"})
    /\ UNCHANGED <<pc, toServer, driverVars>>

Refused == (\E p \in {"verdict", "ack", "attach"} : Hears(p, {"error", "other"})) /\ Fail

ReadVerdict ==
    /\ Hears("verdict", {"response"})
    /\ LET offer == Head(toDriver).arg
       IN  Conclude(plugin, zip, key, Guess(offer), offer)
    /\ UNCHANGED <<opcode, plugin>>

\* Mutant: setCryptKey arms the reader only.
ReadAck_WriterPlain ==
    /\ Hears("ack", {"response"})
    /\ Attach("", zip, "")
    /\ UNCHANGED driverVars

ReadAck ==
    /\ Hears("ack", {"response"})
    /\ Attach("", zip, cipher)
    /\ UNCHANGED driverVars

\* Mutant: an error is not looked at.
ReadAttach_AnyResponse ==
    /\ Hears("attach", {"response", "error"})
    /\ pc' = "open"
    /\ UNCHANGED <<toServer, driverVars>>

ReadAttach ==
    /\ Hears("attach", {"response"})
    /\ pc' = "open"
    /\ UNCHANGED <<toServer, driverVars>>

ReadFails ==
    /\ pc \in Waiting \ {"header", "inflate"} /\ dead /\ toDriver = <<>>
    /\ Fail
    /\ UNCHANGED <<opts, toDriver, serverVars, dead, dummies>>

Driver ==
    \/ Connect \/ ReadOpcode \/ ReadHeader \/ Inflate \/ HeaderLost \/ ReadAcceptData
    \/ ReadContAuth \/ SkipDummy \/ Refused \/ ReadVerdict \/ ReadAck \/ ReadAttach \/ ReadFails

-----------------------------------------------------------------------------
(* The server, as far as the driver depends on it.                            *)

Serves(p, op) ==
    /\ srv = p /\ toServer # <<>> /\ ~dead
    /\ Head(toServer).form = srvForm /\ Head(toServer).op = op
    /\ toServer' = Tail(toServer)
    /\ UNCHANGED <<opts, pc, driverVars, dead, dummies>>

Packet(op, arg, form) == [op |-> op, arg |-> arg, form |-> form]
Reply(packets) == toDriver' = toDriver \o packets

RefuseWith(ops) ==
    /\ \E op \in ops : Reply(<<Packet(op, "", srvForm)>>)
    /\ srv' = "closed" /\ UNCHANGED <<srvForm, srvAuth>>

\* Clean: it reports no error, and promises nothing.
AnswerClean ==
    /\ "answers" \in opts.server
    /\ Reply(<<Packet("response", "", srvForm)>>)
    /\ srv' = "request" /\ UNCHANGED <<srvForm, srvAuth>>

\* op_accept: no plugin is asked for.
AcceptPlain(z) ==
    /\ z => "compresses" \in opts.server
    /\ \E op \in {"accept", "other"} :
          /\ Reply(<<Packet(op, "", srvForm), Packet("header", z, srvForm)>>)
          /\ srv' = "request" /\ srvAuth' = [srvAuth EXCEPT !.by = op]

\* It may go on from what op_connect has brought for the plugin sent.  What
\* follows the header is compressed already.
AcceptWith(z, sent) ==
    \E op \in {"accept_data", "cond_accept"}, name \in Plugins, data, done \in BOOLEAN :
        /\ data => name = sent /\ IsSrp(name)
        /\ done => name = sent /\ ~IsSrp(name) /\ opts.right
        /\ Reply(<<Packet(op, "", srvForm), Packet("header", z, srvForm),
                   Packet("auth_data", [plugin |-> name, data |-> data, done |-> done], srvForm')>>)
        /\ srvAuth' = [srvAuth EXCEPT !.by = op, !.plugin = name, !.done = done]
        /\ srv' = CASE IsSrp(name) /\ ~data -> "public"
                    [] (IsSrp(name) => data) /\ op = "cond_accept" -> "proof"
                    [] OTHER -> "request"

ServeConnect ==
    /\ Serves("connect", "connect")
    /\ \/ RefuseWith({"reject", "error"}) \/ AnswerClean
       \/ \E z \in {FALSE, opts.compress} :
             /\ srvForm' = [srvForm EXCEPT !.zip = z]
             /\ AcceptPlain(z) \/ AcceptWith(z, Head(toServer).arg)

ServePublic ==
    /\ Serves("public", "public")
    /\ \/ RefuseWith({"error", "other"}) \/ AnswerClean
       \/ /\ Reply(<<Packet("cont_auth", "", srvForm)>>)
          /\ srv' = IF srvAuth.by = "cond_accept" THEN "proof" ELSE "request"
          /\ UNCHANGED <<srvForm, srvAuth>>

ServeProof ==
    /\ Serves("proof", "proof")
    /\ \/ RefuseWith({"error"})
       \/ /\ opts.right
          /\ \E o \in Offers :
                /\ Reply(<<Packet("response", o, srvForm)>>)
                /\ srvAuth' = [srvAuth EXCEPT !.done = TRUE, !.key = IsSrp(srvAuth.plugin), !.offer = o]
          /\ srv' = "request" /\ UNCHANGED srvForm

\* The response to op_crypt is the first packet under the cipher.  The server
\* does what it has offered: the driver could not read a refusal.
ServeCrypt ==
    /\ Serves("request", "crypt")
    /\ srvAuth.key /\ srvAuth.offer[Head(toServer).arg] # "no"
    /\ srvForm' = [srvForm EXCEPT !.cipher = Head(toServer).arg]
    /\ Reply(<<Packet("response", "", srvForm')>>)
    /\ UNCHANGED <<srv, srvAuth>>

ServeAttach ==
    /\ Serves("request", "attach")
    /\ \/ RefuseWith({"error", "other"})
       \/ /\ opts.right
          /\ Reply(<<Packet("response", "", srvForm)>>)
          /\ srv' = "attached" /\ UNCHANGED <<srvForm, srvAuth>>

Server ==
    \/ ServeConnect \/ ServePublic \/ ServeProof \/ ServeCrypt \/ ServeAttach

\* While it works on a request; not on op_crypt, whose response would then not
\* be the first packet under the cipher.
Dummy ==
    /\ srv # "closed" /\ toServer # <<>> /\ ~dead /\ dummies < MaxDummies
    /\ Head(toServer).op # "crypt"
    /\ dummies' = dummies + 1
    /\ Reply(<<Packet("dummy", "", srvForm)>>)
    /\ UNCHANGED <<opts, pc, driverVars, toServer, serverVars, dead>>

\* The socket breaks; part of what was sent may still arrive.
Die ==
    /\ ~dead /\ pc \notin Over
    /\ dead' = TRUE /\ toServer' = <<>>
    /\ \E n \in 0..Len(toDriver) : toDriver' = SubSeq(toDriver, 1, n)
    /\ srv' = IF srv = "attached" THEN srv ELSE "closed"
    /\ UNCHANGED <<opts, pc, driverVars, srvForm, srvAuth, dummies>>

Stopped == pc \in Over /\ UNCHANGED vars

Next == Driver \/ Server \/ Dummy \/ Die \/ Stopped

Spec == Init /\ [][Next]_vars
FairSpec == Spec /\ WF_vars(Driver) /\ WF_vars(Server)

-----------------------------------------------------------------------------
\* Who reads a packet reads it in the form in which it was written: the
\* compressor and the cipher are switched on at the same byte by both ends
\* (_parse_connect_response: enableCompression, opCrypt, setCryptKey).
SameForm ==
    /\ pc \in Waiting /\ toDriver # <<>> => Head(toDriver).form = Form
    /\ srv # "closed" /\ toServer # <<>> => Head(toServer).form = srvForm

\* No attachment is asked for, and none is open, but under a cipher.
EncryptedAttach ==
    /\ pc \in {"attach", "open"} => Form.cipher # ""
    /\ \A i \in DOMAIN toServer : toServer[i].op = "attach" => toServer[i].form.cipher # ""

\* wire_crypt=required: nothing goes on but under a cipher (wireCryptResolve),
\* with a server whose responses to op_connect and to the public key report
\* errors.
RequiredEncrypted ==
    opts.mode = "required" /\ "answers" \notin opts.server => EncryptedAttach

\* wire_crypt=required "fails the connection closed on every non-encrypting
\* handshake outcome ... refusing before any credentials are sent"
\* (README.md:134), whatever the server says.
RequiredOnEveryOutcome == opts.mode = "required" => EncryptedAttach

\* An open connection is open at both ends, in the same form, with a key where
\* there is a cipher (openFirebirdsqlConn returns no error).
OpenAgrees ==
    pc = "open" => /\ srv = "attached" /\ opts.right
                   /\ srvForm = Form
                   /\ cipher # "" => key /\ srvAuth.key

\* Mutually supported: the server offers it with what the driver needs for it.
Fits(c) == srvAuth.offer[c] = "fit" \/ (c = "Arc4" /\ srvAuth.offer[c] # "no")

\* Where both ends have a key the driver encrypts if it can, with the cipher its
\* list prefers (wire_crypt=enabled, wire_crypt_plugin).
Preferred ==
    pc = "open" /\ opts.mode # "disabled" /\ srvAuth.key =>
        IF cipher = "" THEN \A i \in DOMAIN opts.ciphers : ~Fits(opts.ciphers[i])
        ELSE \E i \in DOMAIN opts.ciphers :
                /\ opts.ciphers[i] = cipher
                /\ \A j \in 1..(i - 1) : ~Fits(opts.ciphers[j])

\* What the driver computes of the password is for a plugin of its list, and once
\* the server has selected one for that (validateAuthPlugins, isAuthPluginAllowed).
Sanctioned ==
    \A i \in DOMAIN toServer :
        LET p == toServer[i]
        IN  /\ p.op \in {"connect", "public", "proof"} /\ p.arg # "" =>
                  p.arg \in opts.list /\ (p.op # "connect" => p.arg = srvAuth.plugin)
            /\ p.op = "attach" =>
                  p.arg \ {"password"} \subseteq {x \in opts.list : x = srvAuth.plugin}

\* The password itself, which every attach carries (isc_dpb_password), goes under
\* a cipher where both ends have a key and a cipher for it.
Guarded ==
    \A i \in DOMAIN toServer :
        /\ toServer[i].op = "attach" /\ opts.mode # "disabled" /\ srvAuth.key
        /\ \E j \in DOMAIN opts.ciphers : Fits(opts.ciphers[j])
        => toServer[i].form.cipher # ""

\* The driver negotiates what its data source name allows and prefers.
Chosen == Preferred /\ Sanctioned /\ Guarded

\* With a server that answers, or a socket that breaks, opening comes to an end;
\* not with one that compresses after a plain op_accept, and has nothing to say
\* before op_attach: zlib.NewReader waits for it (enableCompression).
HandshakeEnds == "compresses" \notin opts.server => <>(pc \in Over)
=============================================================================
