--------------------------- MODULE Handshake_proofs ---------------------------
(* wire_crypt=required is kept with a server whose responses to op_connect and  *)
(* to the public key report errors, both ends read what the other has written,  *)
(* and an open connection is open at both, in the form both have chosen;        *)
(* provided that no data source name asks for compression and encryption        *)
(* together.                                                                    *)
EXTENDS Handshake, SequenceTheorems, WellFoundedInduction, TLAPS

\* The compressor goes before the cipher, so the two exclude each other.
Separate == \A o \in Options : o.compress => o.mode = "disabled"

Forms == [zip : BOOLEAN, cipher : Ciphers \cup {""}]
AcceptData == [plugin : Plugins, data : BOOLEAN, done : BOOLEAN]

\* The connection must be under a cipher, and the server gives no occasion to go
\* on without one.
Must == opts.mode = "required" /\ "answers" \notin opts.server

\* What a packet of the driver's carries; an attach, what is in its DPB.
Written == Ciphers \cup Plugins \cup {""} \cup SUBSET ({"password"} \cup Plugins)

\* What is on its way: an attachment is asked for under a cipher if it must be,
\* and the server compresses only if it has been asked to.
ToServer ==
    {p \in [op : {"connect", "public", "proof", "crypt", "attach"},
            arg : Written, form : Forms] :
        /\ p.op = "crypt" => p.arg \in Ciphers
        /\ Must /\ p.op = "attach" => p.form.cipher # ""}
ToDriver ==
    {p \in [op : {"reject", "error", "other", "accept", "accept_data", "cond_accept", "header",
                  "auth_data", "cont_auth", "response", "dummy"},
            arg : BOOLEAN \cup AcceptData \cup Offers \cup {""}, form : Forms] :
        /\ p.op = "header" => p.arg \in {FALSE, opts.compress}
        /\ p.op = "auth_data" => p.arg \in AcceptData}

DataType ==
    /\ opts \in Options
    /\ plugin \in Plugins \cup {""}
    /\ zip \in BOOLEAN /\ cipher \in Ciphers \cup {""}
    /\ srvForm \in Forms
    /\ toServer \in Seq(ToServer) /\ toDriver \in Seq(ToDriver)

\* RequiredEncrypted is not inductive: the driver must have a cipher already
\* when the response to op_crypt comes, and no compressor.
Places ==
    /\ zip => opts.compress
    /\ pc = "inflate" => zip
    /\ pc = "ack" => cipher # ""
    /\ pc \in {"attach", "open"} /\ Must => cipher # ""

IInv == DataType /\ Places

\* Only a server that answers so has sent a response where the driver reads it as
\* the end of the handshake.
Clean ==
    /\ pc \in {"opcode", "cont_auth"} /\ toDriver # <<>> /\ Head(toDriver).op = "response"
    => "answers" \in opts.server

LEMMA OptsType ==
    opts \in Options => /\ opts.mode \in Modes /\ opts.compress \in BOOLEAN
                        /\ opts.list \subseteq Plugins /\ opts.name \in Plugins
  BY OptionsAssumption

LEMMA FormType ==
    ASSUME NEW z \in BOOLEAN, NEW c \in Ciphers \cup {""}
    PROVE  FormOf(z, c) \in Forms /\ (~z => FormOf(z, c).cipher = c)
  BY DEF FormOf, Forms

LEMMA TellType ==
    ASSUME IInv, NEW op \in {"connect", "public", "proof", "crypt", "attach"},
           NEW arg \in Written, NEW form \in Forms, Tell(op, arg, form),
           op = "crypt" => arg \in Ciphers, UNCHANGED opts,
           Must /\ op = "attach" => form.cipher # ""
    PROVE  toServer' \in Seq(ToServer')
<1> DEFINE p == [op |-> op, arg |-> arg, form |-> form]
<1>1. p \in ToServer  BY DEF ToServer
<1>2. toServer \in Seq(ToServer)  BY DEF IInv, DataType
<1>3. Append(toServer, p) \in Seq(ToServer)  BY <1>1, <1>2, AppendProperties
<1>4. ToServer' = ToServer  BY DEF ToServer, Must
<1>5. toServer' \in Seq(ToServer)  BY <1>2, <1>3 DEF Tell
<1> QED  BY <1>4, <1>5

LEMMA HearsType ==
    ASSUME IInv, NEW p, NEW ops, Hears(p, ops)
    PROVE  /\ toDriver' \in Seq(ToDriver') /\ Head(toDriver) \in ToDriver
           /\ pc = p /\ Head(toDriver).op \in ops
           /\ opts' = opts /\ srvForm' = srvForm
<1>1. toDriver \in Seq(ToDriver) /\ toDriver # <<>> /\ toDriver' = Tail(toDriver) /\ opts' = opts
  BY DEF Hears, IInv, DataType
<1>2. Tail(toDriver) \in Seq(ToDriver) /\ Head(toDriver) \in ToDriver
  BY <1>1, HeadTailProperties
<1>3. ToDriver' = ToDriver  BY <1>1 DEF ToDriver
<1> QED  BY <1>1, <1>2, <1>3 DEF Hears, serverVars

LEMMA ReplyType ==
    ASSUME IInv, NEW ps \in Seq(ToDriver), Reply(ps), UNCHANGED opts
    PROVE  toDriver' \in Seq(ToDriver')
<1>1. toDriver \o ps \in Seq(ToDriver)  BY ConcatProperties DEF IInv, DataType
<1>2. ToDriver' = ToDriver  BY DEF ToDriver
<1> QED  BY <1>1, <1>2 DEF Reply

LEMMA Unchanged ==
    UNCHANGED opts => ToServer' = ToServer /\ ToDriver' = ToDriver
  BY DEF ToServer, ToDriver, Must

LEMMA DpbType ==
    ASSUME NEW secret \in Plugins \cup {""}
    PROVE  Dpb(secret) \in Written
  BY DEF Dpb, Written

\* An attachment is asked for, in the form in which the driver writes.
LEMMA AttachInv ==
    ASSUME IInv, NEW secret \in Plugins \cup {""}, NEW z \in {FALSE, opts.compress},
           Attach(secret, z, cipher), cipher' = cipher, zip' = z,
           UNCHANGED <<opts, srvForm>>, ~Must \/ (~z /\ cipher # ""),
           plugin' \in Plugins \cup {""}, toDriver' \in Seq(ToDriver')
    PROVE  IInv'
<1>1. opts \in Options /\ cipher \in Ciphers \cup {""} /\ z \in BOOLEAN /\ (z => opts.compress)
  BY OptsType DEF IInv, DataType
<1>2. FormOf(z, cipher) \in Forms /\ (~z => FormOf(z, cipher).cipher = cipher)
  BY <1>1, FormType
<1>3. toServer' \in Seq(ToServer')  BY <1>2, DpbType, TellType DEF Attach
<1> QED  BY <1>1, <1>3 DEF Attach, IInv, DataType, Places, Must

-----------------------------------------------------------------------------
(* The driver.                                                                *)

\* What the driver concludes keeps IInv, the compressor as in the answer.
LEMMA ConcludeInv ==
    ASSUME IInv, Separate, NEW secret \in Plugins \cup {""}, NEW z \in {FALSE, opts.compress},
           NEW k, NEW enc \in Ciphers \cup {""}, NEW offer,
           Conclude(secret, z, k, enc, offer), UNCHANGED <<opts, srvForm>>,
           plugin' \in Plugins \cup {""}, toDriver' \in Seq(ToDriver')
    PROVE  IInv'
<1>1. opts \in Options /\ cipher \in Ciphers \cup {""} /\ z \in BOOLEAN
  BY OptsType DEF IInv, DataType
<1>2. FormOf(z, cipher) \in Forms  BY <1>1, FormType
<1>3. zip' = z /\ key' = k /\ (zip' => opts.compress)  BY <1>1, OptsType DEF Conclude
<1>4. CASE /\ Encrypt(enc, k) /\ Tell("crypt", enc, FormOf(z, cipher)) /\ cipher' = enc
           /\ pc' = IF enc # "Arc4" /\ offer[enc] # "fit" THEN "failed" ELSE "ack"
  <2>1. pc' \in {"failed", "ack"} /\ enc # ""  BY <1>4 DEF Encrypt
  <2>2. toServer' \in Seq(ToServer')
    <3>1. enc \in Written /\ enc \in Ciphers  BY <2>1 DEF Written
    <3> QED  BY <1>2, <1>4, <3>1, TellType
  <2> QED  BY <1>1, <1>3, <1>4, <2>1, <2>2 DEF IInv, DataType, Places
<1>5. CASE FailClosed(enc, k) /\ pc' = "failed" /\ UNCHANGED <<toServer, cipher>>
  BY <1>1, <1>3, <1>5, Unchanged DEF IInv, DataType, Places
<1>6. CASE /\ ~Encrypt(enc, k) /\ ~FailClosed(enc, k)
           /\ Attach(secret, z, cipher) /\ UNCHANGED cipher
  <2>1. ~Must  BY <1>6 DEF FailClosed, Must
  <2> QED  BY <1>3, <1>6, <2>1, AttachInv
<1> QED  BY <1>4, <1>5, <1>6 DEF Conclude

LEMMA FailInv ==
    ASSUME IInv, Fail, UNCHANGED <<opts, srvForm>>, toDriver' \in Seq(ToDriver')
    PROVE  IInv'
  BY Unchanged DEF Fail, driverVars, IInv, DataType, Places

LEMMA ConnectInv == IInv /\ Connect => IInv'
<1> SUFFICES ASSUME IInv, Connect PROVE IInv'
  OBVIOUS
<1>1. Form \in Forms /\ Uid \in Plugins  BY FormType, OptsType DEF Form, Uid, IInv, DataType
<1>2. toServer' \in Seq(ToServer')
  <2>1. Uid \in Written  BY <1>1 DEF Written
  <2> QED  BY <1>1, <2>1, TellType DEF Connect
<1> QED  BY <1>2, Unchanged DEF Connect, driverVars, serverVars, IInv, DataType, Places

\* A response without an error ends the handshake where it is.
LEMMA CleanInv ==
    ASSUME IInv, Clean, NEW p \in {"opcode", "cont_auth"},
           Hears(p, {"response"}), Attach("", zip, cipher), UNCHANGED driverVars
    PROVE  IInv'
<1>1. pc = p /\ toDriver # <<>> /\ Head(toDriver).op = "response"
      /\ toDriver' \in Seq(ToDriver') /\ UNCHANGED <<opts, srvForm>>
  BY HearsType DEF Hears
<1>2. ~Must  BY <1>1 DEF Clean, Must
<1>3. zip \in {FALSE, opts.compress}  BY OptsType DEF IInv, DataType, Places
<1>4. plugin' = plugin /\ zip' = zip /\ cipher' = cipher /\ plugin \in Plugins \cup {""}
  BY DEF driverVars, IInv, DataType
<1> QED  BY <1>1, <1>2, <1>3, <1>4, AttachInv

LEMMA ReadOpcodeInv == IInv /\ Clean /\ ReadOpcode => IInv'
<1> SUFFICES ASSUME IInv, Clean, ReadOpcode PROVE IInv'
  OBVIOUS
<1>1. CASE Hears("opcode", {"dummy"}) /\ UNCHANGED <<pc, toServer, driverVars>>
  BY <1>1, HearsType, Unchanged DEF driverVars, IInv, DataType, Places, Must
<1>2. CASE Hears("opcode", {"reject", "error"}) /\ Fail
  BY <1>2, HearsType, FailInv
<1>3. CASE /\ Hears("opcode", Accepts \cup {"other"})
           /\ opcode' = Head(toDriver).op /\ pc' = "header"
           /\ UNCHANGED <<toServer, plugin, key, zip, cipher>>
  BY <1>3, HearsType, Unchanged DEF IInv, DataType, Places
<1>4. CASE Hears("opcode", {"response"}) /\ Attach("", zip, cipher) /\ UNCHANGED driverVars
  BY <1>4, CleanInv
<1> QED  BY <1>1, <1>2, <1>3, <1>4 DEF ReadOpcode

LEMMA AcceptedInv ==
    ASSUME IInv, Separate, NEW z \in {FALSE, opts.compress}, Accepted(z),
           UNCHANGED <<opts, srvForm>>, toDriver' \in Seq(ToDriver')
    PROVE  IInv'
<1>1. CASE Conclude("", z, FALSE, "", NoOffer) /\ UNCHANGED <<opcode, plugin>>
  BY <1>1, ConcludeInv DEF IInv, DataType
<1>2. CASE zip' = z /\ pc' \in {"auth_data", "failed"} /\ UNCHANGED <<toServer, plugin, key, cipher>>
  BY <1>2, OptsType, Unchanged DEF IInv, DataType, Places
<1> QED  BY <1>1, <1>2 DEF Accepted

LEMMA ReadHeaderInv == IInv /\ Separate /\ (ReadHeader \/ Inflate \/ HeaderLost) => IInv'
<1> SUFFICES ASSUME IInv, Separate, ReadHeader \/ Inflate \/ HeaderLost PROVE IInv'
  OBVIOUS
<1>1. CASE ReadHeader
  <2>1. Hears("header", {"header"})  BY <1>1 DEF ReadHeader
  <2>2. Head(toDriver) \in ToDriver /\ Head(toDriver).op = "header"
        /\ toDriver' \in Seq(ToDriver') /\ UNCHANGED <<opts, srvForm>>
    BY <2>1, HearsType
  <2>3. Head(toDriver).arg \in {FALSE, opts.compress}  BY <2>2 DEF ToDriver
  <2>4. CASE Accepted(FALSE)  BY <2>2, <2>4, AcceptedInv
  <2>5. CASE /\ Head(toDriver).arg /\ zip' = TRUE /\ pc' = "inflate"
             /\ UNCHANGED <<toServer, opcode, plugin, key, cipher>>
    <3>1. opts.compress  BY <2>3, <2>5
    <3> QED  BY <2>2, <2>5, <3>1, Unchanged DEF IInv, DataType, Places
  <2> QED  BY <1>1, <2>4, <2>5 DEF ReadHeader
<1>2. CASE HeaderLost
  BY <1>2, AcceptedInv, Unchanged DEF HeaderLost, serverVars, IInv, DataType
<1>3. CASE Inflate
  <2>1. TRUE \in {FALSE, opts.compress}
    BY <1>3, OptsType DEF Inflate, IInv, DataType, Places
  <2>2. Accepted(TRUE) /\ UNCHANGED <<opts, srvForm>> /\ toDriver' \in Seq(ToDriver')
    BY <1>3, Unchanged DEF Inflate, serverVars, IInv, DataType
  <2> QED  BY <2>1, <2>2, AcceptedInv
<1> QED  BY <1>1, <1>2, <1>3

LEMMA ProveInv ==
    ASSUME IInv, Separate, NEW name \in Plugins \cup {""}, Prove(name),
           UNCHANGED <<opts, srvForm>>, toDriver' \in Seq(ToDriver')
    PROVE  IInv'
<1>1. zip \in {FALSE, opts.compress} /\ Form \in Forms
  <2>1. zip \in {FALSE, opts.compress}
    BY OptsType DEF IInv, DataType, Places
  <2>3. Form \in Forms  BY FormType DEF IInv, DataType, Form
  <2> QED  BY <2>1, <2>3
<1>2. CASE /\ ContAuth("proof", name) /\ key' = IsSrp(name) /\ pc' = "verdict"
           /\ UNCHANGED <<zip, cipher>>
  <2>1. toServer' \in Seq(ToServer')
    <3>1. name \in Written  BY DEF Written
    <3> QED  BY <1>1, <1>2, <3>1, TellType DEF ContAuth
  <2> QED  BY <1>1, <1>2, <2>1 DEF Prove, IInv, DataType, Places
<1>3. CASE Conclude(name, zip, IsSrp(name), "", NoOffer)
  BY <1>1, <1>3, ConcludeInv DEF Prove
<1> QED  BY <1>2, <1>3 DEF Prove

LEMMA ReadAcceptDataInv == IInv /\ Separate /\ ReadAcceptData => IInv'
<1> SUFFICES ASSUME IInv, Separate, ReadAcceptData PROVE IInv'
  OBVIOUS
<1> DEFINE a == Head(toDriver).arg
<1>1. /\ toDriver' \in Seq(ToDriver') /\ UNCHANGED <<opts, srvForm>>
      /\ Head(toDriver) \in ToDriver /\ Head(toDriver).op = "auth_data"
  <2>1. Hears("auth_data", {"auth_data"})  BY DEF ReadAcceptData
  <2>2. Head(toDriver).op \in {"auth_data"}  BY <2>1, HearsType
  <2>3. opts' = opts /\ srvForm' = srvForm  BY <2>1, HearsType
  <2>4. toDriver' \in Seq(ToDriver') /\ Head(toDriver) \in ToDriver  BY <2>1, HearsType
  <2> QED  BY <2>2, <2>3, <2>4
<1>2. a.plugin \in Plugins  BY <1>1 DEF ToDriver, AcceptData
<1>3. CASE Fail  BY <1>1, <1>3, FailInv
<1>4. CASE /\ plugin' = a.plugin /\ pc' = "cont_auth" /\ ContAuth("public", a.plugin)
           /\ UNCHANGED <<opcode, key, zip, cipher>>
  <2>1. Form \in Forms /\ a.plugin \in Written
    BY <1>2, FormType DEF Form, IInv, DataType, Written
  <2>2. toServer' \in Seq(ToServer')  BY <1>1, <1>4, <2>1, TellType DEF ContAuth
  <2> QED  BY <1>1, <1>2, <1>4, <2>2 DEF IInv, DataType, Places
<1>5. CASE Prove(a.plugin)  BY <1>1, <1>2, <1>5, ProveInv
<1>6. CASE Prove("")  BY <1>1, <1>6, ProveInv
<1> QED  BY <1>3, <1>4, <1>5, <1>6 DEF ReadAcceptData

LEMMA ReadContAuthInv == IInv /\ Clean /\ Separate /\ ReadContAuth => IInv'
<1> SUFFICES ASSUME IInv, Clean, Separate, ReadContAuth PROVE IInv'
  OBVIOUS
<1>1. toDriver' \in Seq(ToDriver') /\ UNCHANGED <<opts, srvForm>>
  BY HearsType DEF ReadContAuth
<1>2. CASE Fail  BY <1>1, <1>2, FailInv
<1>3. CASE Prove(plugin)  BY <1>1, <1>3, ProveInv DEF IInv, DataType
<1>4. CASE Hears("cont_auth", {"response"}) /\ Attach("", zip, cipher) /\ UNCHANGED driverVars
  BY <1>4, CleanInv
<1> QED  BY <1>2, <1>3, <1>4 DEF ReadContAuth

LEMMA GuessType ==
    ASSUME NEW offer, opts \in Options
    PROVE  Guess(offer) \in Ciphers \cup {""}
<1>1. opts.ciphers \in Seq(Ciphers)  BY OptionsAssumption
<1>2. CASE \E i \in DOMAIN opts.ciphers : First(i, offer)
  <2> DEFINE n == CHOOSE i \in DOMAIN opts.ciphers : First(i, offer)
  <2>1. n \in DOMAIN opts.ciphers  BY <1>2
  <2>2. Guess(offer) = opts.ciphers[n]  BY <1>2, Zenon DEF Guess
  <2>3. \A s \in Seq(Ciphers) : \A k \in DOMAIN s : s[k] \in Ciphers
    OBVIOUS
  <2> HIDE DEF n
  <2>4. opts.ciphers[n] \in Ciphers  BY <1>1, <2>1, <2>3
  <2> QED  BY <2>2, <2>4
<1>3. CASE ~\E i \in DOMAIN opts.ciphers : First(i, offer)
  BY <1>3, Zenon DEF Guess
<1> QED  BY <1>2, <1>3

LEMMA ResponseInv ==
    IInv /\ Separate /\ (SkipDummy \/ Refused \/ ReadVerdict \/ ReadAck \/ ReadAttach \/ ReadFails) => IInv'
<1> SUFFICES ASSUME IInv, Separate,
                    SkipDummy \/ Refused \/ ReadVerdict \/ ReadAck \/ ReadAttach \/ ReadFails
             PROVE  IInv'
  OBVIOUS
<1>1. CASE SkipDummy
  <2>1. toDriver' \in Seq(ToDriver') /\ UNCHANGED <<opts, srvForm>>
    BY <1>1, HearsType DEF SkipDummy
  <2> QED  BY <1>1, <2>1, Unchanged DEF SkipDummy, driverVars, IInv, DataType, Places, Must
<1>2. CASE Refused
  BY <1>2, HearsType, FailInv DEF Refused
<1>3. CASE ReadVerdict
  <2> DEFINE offer == Head(toDriver).arg
  <2>1. toDriver' \in Seq(ToDriver') /\ UNCHANGED <<opts, srvForm>>
    BY <1>3, HearsType DEF ReadVerdict
  <2>2. Conclude(plugin, zip, key, Guess(offer), offer) /\ plugin' = plugin
    BY <1>3 DEF ReadVerdict
  <2>3. /\ plugin \in Plugins \cup {""} /\ zip \in {FALSE, opts.compress}
        /\ Guess(offer) \in Ciphers \cup {""}
    BY GuessType, OptsType DEF IInv, DataType, Places
  <2> HIDE DEF offer
  <2> QED  BY <2>1, <2>2, <2>3, ConcludeInv
<1>4. CASE ReadAck
  <2>1. toDriver' \in Seq(ToDriver') /\ UNCHANGED <<opts, srvForm>> /\ pc = "ack"
    BY <1>4, HearsType DEF ReadAck
  <2>2. /\ cipher # "" /\ zip \in {FALSE, opts.compress} /\ plugin \in Plugins \cup {""}
        /\ Must => ~zip
    BY <2>1, OptsType DEF IInv, DataType, Places, Separate, Must
  <2>3. Attach("", zip, cipher) /\ plugin' = plugin /\ zip' = zip /\ cipher' = cipher
    BY <1>4 DEF ReadAck, driverVars
  <2> QED  BY <2>1, <2>2, <2>3, AttachInv
<1>5. CASE ReadAttach
  <2>1. toDriver' \in Seq(ToDriver') /\ UNCHANGED <<opts, srvForm>> /\ pc = "attach"
    BY <1>5, HearsType DEF ReadAttach
  <2> QED  BY <1>5, <2>1, Unchanged DEF ReadAttach, driverVars, IInv, DataType, Places, Must
<1>6. CASE ReadFails
  <2>1. UNCHANGED <<opts, srvForm>> /\ toDriver' \in Seq(ToDriver') /\ Fail
    BY <1>6, Unchanged DEF ReadFails, serverVars, IInv, DataType
  <2> QED  BY <2>1, FailInv
<1> QED  BY <1>1, <1>2, <1>3, <1>4, <1>5, <1>6

-----------------------------------------------------------------------------
(* The server and the network.                                                *)

LEMMA ServesType ==
    ASSUME IInv, NEW p, NEW op, Serves(p, op)
    PROVE  /\ toServer' \in Seq(ToServer') /\ Head(toServer) \in ToServer
           /\ Head(toServer).op = op
           /\ opts' = opts /\ pc' = pc /\ plugin' = plugin /\ zip' = zip /\ cipher' = cipher
<1>1. /\ toServer \in Seq(ToServer) /\ toServer # <<>> /\ toServer' = Tail(toServer)
      /\ Head(toServer).op = op
      /\ opts' = opts /\ pc' = pc /\ plugin' = plugin /\ zip' = zip /\ cipher' = cipher
  BY DEF Serves, driverVars, IInv, DataType
<1>2. Tail(toServer) \in Seq(ToServer) /\ Head(toServer) \in ToServer
  BY <1>1, HeadTailProperties
<1> QED  BY <1>1, <1>2, Unchanged

\* A step of the server keeps IInv if its form and what it replies are as they
\* should be.
LEMMA ServerStep ==
    ASSUME IInv, NEW p, NEW op, Serves(p, op), srvForm' \in Forms,
           NEW ps \in Seq(ToDriver), Reply(ps)
    PROVE  IInv'
<1>1. /\ toServer' \in Seq(ToServer') /\ opts' = opts
      /\ pc' = pc /\ plugin' = plugin /\ zip' = zip /\ cipher' = cipher
  BY ServesType
<1>2. toDriver' \in Seq(ToDriver')  BY <1>1, ReplyType
<1> QED  BY <1>1, <1>2 DEF IInv, DataType, Places, Must

\* One packet without an argument.
LEMMA PlainPacket ==
    ASSUME NEW op \in {"reject", "error", "other", "accept", "accept_data", "cond_accept",
                       "cont_auth", "response", "dummy"},
           NEW arg \in Offers \cup {""}, NEW form \in Forms
    PROVE  Packet(op, arg, form) \in ToDriver
  BY DEF Packet, ToDriver

LEMMA Packets ==
    ASSUME NEW S, NEW e \in S, NEW f \in S, NEW g \in S
    PROVE  <<e>> \in Seq(S) /\ <<e, f>> \in Seq(S) /\ <<e, f, g>> \in Seq(S)
  OBVIOUS

LEMMA RefuseInv ==
    ASSUME IInv, NEW p, NEW op, Serves(p, op),
           NEW ops \in SUBSET {"reject", "error", "other"}, RefuseWith(ops)
    PROVE  IInv'
<1>1. PICK o \in ops : Reply(<<Packet(o, "", srvForm)>>)  BY DEF RefuseWith
<1>2. srvForm \in Forms /\ srvForm' = srvForm  BY DEF RefuseWith, IInv, DataType
<1>3. Packet(o, "", srvForm) \in ToDriver  BY <1>2, PlainPacket
<1>4. <<Packet(o, "", srvForm)>> \in Seq(ToDriver)  BY <1>3, Packets
<1> QED  BY <1>1, <1>2, <1>4, ServerStep

LEMMA AnswerCleanInv ==
    ASSUME IInv, NEW p, NEW op, Serves(p, op), AnswerClean
    PROVE  IInv'
<1>1. Reply(<<Packet("response", "", srvForm)>>) /\ srvForm \in Forms /\ srvForm' = srvForm
  BY DEF AnswerClean, IInv, DataType
<1>2. <<Packet("response", "", srvForm)>> \in Seq(ToDriver)  BY <1>1, PlainPacket, Packets
<1> QED  BY <1>1, <1>2, ServerStep

LEMMA ServeConnectInv == IInv /\ ServeConnect => IInv'
<1> SUFFICES ASSUME IInv, ServeConnect PROVE IInv'
  OBVIOUS
<1>1. Serves("connect", "connect")  BY DEF ServeConnect
<1>2. CASE RefuseWith({"reject", "error"})
  BY <1>1, <1>2, RefuseInv
<1>4. CASE AnswerClean  BY <1>1, <1>4, AnswerCleanInv
<1>3. CASE ~RefuseWith({"reject", "error"}) /\ ~AnswerClean
  <2>1. PICK z \in {FALSE, opts.compress} :
           srvForm' = [srvForm EXCEPT !.zip = z] /\ (AcceptPlain(z) \/ AcceptWith(z, Head(toServer).arg))
    BY <1>3 DEF ServeConnect
  <2>2. srvForm \in Forms /\ z \in BOOLEAN  BY OptsType DEF IInv, DataType
  <2>3. srvForm' \in Forms  BY <2>1, <2>2 DEF Forms
  <2>4. \A op \in {"accept", "other", "accept_data", "cond_accept"} : Packet(op, "", srvForm) \in ToDriver
    BY <2>2, PlainPacket
  <2>5. Packet("header", z, srvForm) \in ToDriver  BY <2>2 DEF Packet, ToDriver
  <2>6. CASE AcceptPlain(z)
    <3>1. PICK op \in {"accept", "other"} :
             Reply(<<Packet(op, "", srvForm), Packet("header", z, srvForm)>>)
      BY <2>6, Zenon DEF AcceptPlain
    <3>2. <<Packet(op, "", srvForm), Packet("header", z, srvForm)>> \in Seq(ToDriver)
      BY <2>4, <2>5, Packets
    <3> QED  BY <1>1, <2>3, <3>1, <3>2, ServerStep
  <2>7. CASE AcceptWith(z, Head(toServer).arg)
    <3>1. PICK op \in {"accept_data", "cond_accept"}, name \in Plugins, data \in BOOLEAN, done \in BOOLEAN :
             Reply(<<Packet(op, "", srvForm), Packet("header", z, srvForm),
                     Packet("auth_data", [plugin |-> name, data |-> data, done |-> done], srvForm')>>)
      BY <2>7, ZenonT(40) DEF AcceptWith
    <3> DEFINE accept == Packet("auth_data", [plugin |-> name, data |-> data, done |-> done], srvForm')
    <3>2. accept \in ToDriver  BY <2>3 DEF Packet, ToDriver, AcceptData
    <3> HIDE DEF accept
    <3>3. <<Packet(op, "", srvForm), Packet("header", z, srvForm), accept>> \in Seq(ToDriver)
      BY <2>4, <2>5, <3>2, Packets
    <3>4. Reply(<<Packet(op, "", srvForm), Packet("header", z, srvForm), accept>>)
      BY <3>1 DEF accept
    <3> QED  BY <1>1, <2>3, <3>3, <3>4, ServerStep
  <2> QED  BY <2>1, <2>6, <2>7
<1> QED  BY <1>2, <1>3, <1>4

LEMMA ServerInv == IInv /\ Server => IInv'
<1> SUFFICES ASSUME IInv, Server PROVE IInv'
  OBVIOUS
<1> USE Packets
<1>1. srvForm \in Forms  BY DEF IInv, DataType
<1>2. CASE ServeConnect  BY <1>2, ServeConnectInv
<1>3. CASE ServePublic
  <2>1. Serves("public", "public")  BY <1>3 DEF ServePublic
  <2>2. CASE RefuseWith({"error", "other"})  BY <2>1, <2>2, RefuseInv
  <2>3. CASE Reply(<<Packet("cont_auth", "", srvForm)>>) /\ UNCHANGED srvForm
    <3>1. <<Packet("cont_auth", "", srvForm)>> \in Seq(ToDriver)  BY <1>1, PlainPacket
    <3> QED  BY <1>1, <2>1, <2>3, <3>1, ServerStep
  <2>4. CASE AnswerClean  BY <2>1, <2>4, AnswerCleanInv
  <2> QED  BY <1>3, <2>2, <2>3, <2>4 DEF ServePublic
<1>4. CASE ServeProof
  <2>1. Serves("proof", "proof")  BY <1>4 DEF ServeProof
  <2>2. CASE RefuseWith({"error"})  BY <2>1, <2>2, RefuseInv
  <2>3. CASE (\E o \in Offers : Reply(<<Packet("response", o, srvForm)>>)) /\ UNCHANGED srvForm
    <3>1. PICK o \in Offers : Reply(<<Packet("response", o, srvForm)>>)  BY <2>3
    <3>2. <<Packet("response", o, srvForm)>> \in Seq(ToDriver)  BY <1>1, PlainPacket
    <3> QED  BY <1>1, <2>1, <2>3, <3>1, <3>2, ServerStep
  <2> QED  BY <1>4, <2>2, <2>3 DEF ServeProof
<1>5. CASE ServeCrypt
  <2>1. Serves("request", "crypt")  BY <1>5 DEF ServeCrypt
  <2>2. Head(toServer) \in ToServer  BY <2>1, ServesType
  <2>3. Head(toServer).arg \in Ciphers
    BY <2>1, <2>2, ServesType DEF ToServer
  <2>4. srvForm' \in Forms  BY <1>1, <1>5, <2>3 DEF ServeCrypt, Forms
  <2>5. <<Packet("response", "", srvForm')>> \in Seq(ToDriver)  BY <2>4, PlainPacket
  <2>6. Reply(<<Packet("response", "", srvForm')>>)  BY <1>5 DEF ServeCrypt
  <2> QED  BY <2>1, <2>4, <2>5, <2>6, ServerStep
<1>6. CASE ServeAttach
  <2>1. Serves("request", "attach")  BY <1>6 DEF ServeAttach
  <2>2. CASE RefuseWith({"error", "other"})  BY <2>1, <2>2, RefuseInv
  <2>3. CASE Reply(<<Packet("response", "", srvForm)>>) /\ UNCHANGED srvForm
    <3>1. <<Packet("response", "", srvForm)>> \in Seq(ToDriver)  BY <1>1, PlainPacket
    <3> QED  BY <1>1, <2>1, <2>3, <3>1, ServerStep
  <2> QED  BY <1>6, <2>2, <2>3 DEF ServeAttach
<1> QED  BY <1>2, <1>3, <1>4, <1>5, <1>6 DEF Server

LEMMA NetworkInv == IInv /\ (Dummy \/ Die) => IInv'
<1> SUFFICES ASSUME IInv, Dummy \/ Die PROVE IInv'
  OBVIOUS
<1>1. CASE Dummy
  <2>1. srvForm \in Forms /\ Reply(<<Packet("dummy", "", srvForm)>>) /\ UNCHANGED opts
    BY <1>1 DEF Dummy, IInv, DataType
  <2>2. <<Packet("dummy", "", srvForm)>> \in Seq(ToDriver)  BY <2>1, PlainPacket, Packets
  <2>3. toDriver' \in Seq(ToDriver')  BY <2>1, <2>2, ReplyType
  <2> QED  BY <1>1, <2>1, <2>3, Unchanged DEF Dummy, driverVars, serverVars, IInv, DataType, Places, Must
<1>2. CASE Die
  <2>1. PICK n \in 0..Len(toDriver) : toDriver' = SubSeq(toDriver, 1, n)
    BY <1>2 DEF Die
  <2>2. toDriver \in Seq(ToDriver)  BY DEF IInv, DataType
  <2>3. toDriver' \in Seq(ToDriver)
    BY <2>1, <2>2, SubSeqProperties
  <2>4. toServer' = <<>> /\ UNCHANGED <<opts, pc, driverVars, srvForm>>
    BY <1>2 DEF Die
  <2>5. toServer' \in Seq(ToServer)  BY <2>4
  <2> QED  BY <2>3, <2>4, <2>5, Unchanged DEF driverVars, IInv, DataType, Places, Must
<1> QED  BY <1>1, <1>2

-----------------------------------------------------------------------------
LEMMA InitInv == Init => IInv
<1> SUFFICES ASSUME Init PROVE IInv
  OBVIOUS
<1>1. srvForm \in Forms  BY DEF Init, Forms
<1>2. toServer \in Seq(ToServer) /\ toDriver \in Seq(ToDriver)
  <2>1. toServer = <<>> /\ toDriver = <<>>  BY DEF Init
  <2>2. \A S : <<>> \in Seq(S)  OBVIOUS
  <2> QED  BY <2>1, <2>2
<1>3. /\ opts \in Options /\ plugin = "" /\ zip = FALSE /\ cipher = "" /\ pc = "start"
  BY DEF Init
<1> QED  BY <1>1, <1>2, <1>3 DEF IInv, DataType, Places

LEMMA StepInv == Separate /\ IInv /\ Clean /\ [Next]_vars => IInv'
<1> SUFFICES ASSUME Separate, IInv, Clean, [Next]_vars PROVE IInv'
  OBVIOUS
<1>1. CASE Driver
  BY <1>1, ConnectInv, ReadOpcodeInv, ReadHeaderInv, ReadAcceptDataInv, ReadContAuthInv, ResponseInv
     DEF Driver
<1>2. CASE Server  BY <1>2, ServerInv
<1>3. CASE Dummy \/ Die  BY <1>3, NetworkInv
<1>4. CASE UNCHANGED vars
  BY <1>4, Unchanged DEF vars, driverVars, serverVars, IInv, DataType, Places, Must
<1> QED  BY <1>1, <1>2, <1>3, <1>4 DEF Next, Stopped

-----------------------------------------------------------------------------
(* Both ends: who reads what, in which form.                                   *)

Plain == FormOf(FALSE, "")

\* Nothing more will be heard.
Lost == dead /\ toDriver = <<>>

\* The driver has sent the request and waits for its answer, or has given up.
Awaits(op) ==
    \/ pc = "failed"
    \/ op = "connect" /\ pc = "opcode"
    \/ op = "public" /\ pc = "cont_auth"
    \/ op = "proof" /\ pc = "verdict"
    \/ op = "crypt" /\ pc = "ack"
    \/ op = "attach" /\ pc = "attach"

\* One request is on its way at most; it is written as the server reads, and only
\* op_dummy comes before it is answered.
Asked ==
    /\ toServer = <<>> \/ Len(toServer) = 1
    /\ toServer # <<>> =>
          /\ ~dead /\ toServer[1].form = srvForm /\ Awaits(toServer[1].op)
          /\ \A i \in 1..Len(toDriver) :
                toDriver[i].op = "dummy" /\ toDriver[i].form = srvForm
          /\ toServer[1].op = "crypt" => toDriver = <<>>

\* The i-th packet is the k-th of an acceptance; what follows the header is
\* compressed.
Acceptance(k, i) ==
    LET q == toDriver[i]
    IN  \/ k = 1 /\ q.op \in Accepts \cup {"other"} /\ q.op = srvAuth.by /\ q.form = Plain
        \/ k = 2 /\ q.op = "header" /\ q.form = Plain /\ q.arg = srvForm.zip
        \/ /\ k = 3 /\ q.op = "auth_data" /\ q.form = srvForm
           /\ srvAuth.by \in {"accept_data", "cond_accept"}
           /\ q.arg.plugin = srvAuth.plugin
           /\ q.arg.done => ~IsSrp(srvAuth.plugin)

\* The i-th packet, the answer or an op_dummy before it.
Answer(i) ==
    LET q == toDriver[i]
    IN  /\ q.form = srvForm
        /\ q.op = "dummy" \/ i = Len(toDriver)
        /\ q.op = "response" /\ pc = "verdict" =>
              q.arg = srvAuth.offer /\ (srvAuth.key <=> IsSrp(srvAuth.plugin))
        /\ q.op = "response" /\ pc = "attach" => srv = "attached" /\ opts.right
        /\ q.op = "response" /\ pc = "cont_auth" => "answers" \in opts.server

\* The handshake ends with this answer to op_connect.
Final(q) ==
    \/ q.op \in {"reject", "error"}
    \/ q.op = "response" /\ "answers" \in opts.server /\ srvForm = Plain

\* Of the packets before n all are op_dummy; then the server refuses, or accepts,
\* or answers with a response.
Opening(n) ==
    \A i \in 1..Len(toDriver) :
       \/ i <= n /\ toDriver[i].op = "dummy" /\ toDriver[i].form = Plain
       \/ /\ i = n + 1 /\ i = Len(toDriver)
          /\ Final(toDriver[i]) /\ toDriver[i].form = Plain
       \/ i > n /\ Acceptance(i - n, i)

\* What the server has sent, wherever the socket has cut it off.
Answered ==
    /\ pc = "opcode" /\ toServer = <<>> => \E n \in Nat : Opening(n)
    /\ pc = "header" =>
          \A i \in 1..Len(toDriver) : Acceptance(i + 1, i)
    /\ pc \in {"inflate", "auth_data"} =>
          \A i \in 1..Len(toDriver) : Acceptance(i + 2, i)
    /\ pc \in {"cont_auth", "verdict", "ack", "attach"} /\ toServer = <<>> =>
          \A i \in 1..Len(toDriver) : Answer(i)

\* The form of the bytes, at each place.
Tuned ==
    /\ srvForm.zip => opts.compress
    /\ cipher # "" => opts.mode # "disabled"
    /\ pc \in {"start", "opcode", "header"} => ~zip
    /\ pc \in {"start", "opcode", "header", "inflate", "auth_data", "cont_auth", "verdict"} =>
          cipher = "" /\ srvForm.cipher = ""
    /\ pc = "start" \/ (pc = "opcode" /\ toServer # <<>>) => ~srvForm.zip
    /\ pc \in {"inflate", "auth_data", "cont_auth", "verdict"} => Lost \/ srvForm.zip = zip
    /\ pc = "ack" => /\ ~zip /\ cipher # ""
                     /\ toDriver # <<>> => srvForm = Form
                     /\ toServer # <<>> => srvForm = Plain /\ toServer[1].arg = cipher
    /\ pc = "attach" => Lost \/ srvForm = Form

\* The cipher the driver has, or its having none, is what its list prefers.
Best ==
    opts.mode # "disabled" /\ srvAuth.key =>
        IF cipher = "" THEN \A i \in DOMAIN opts.ciphers : ~Fits(opts.ciphers[i])
        ELSE \E i \in DOMAIN opts.ciphers :
                /\ opts.ciphers[i] = cipher
                /\ \A j \in 1..(i - 1) : ~Fits(opts.ciphers[j])

\* What both ends know of each other.
Agreed ==
    /\ pc = "start" => toServer = <<>> /\ toDriver = <<>>
    /\ pc \in {"header", "inflate", "auth_data", "cont_auth", "verdict", "ack"} => opcode = srvAuth.by
    /\ pc = "cont_auth" => plugin = srvAuth.plugin /\ plugin \in opts.list
    /\ pc \in {"start", "opcode", "header", "inflate", "auth_data", "cont_auth"} => ~srvAuth.key
    /\ pc = "verdict" => /\ \/ plugin = srvAuth.plugin /\ plugin \in opts.list
                            \/ plugin = "" /\ ~IsSrp(srvAuth.plugin)
                         /\ key <=> IsSrp(srvAuth.plugin)
    /\ pc \in {"ack", "attach", "open"} => Best /\ (cipher # "" => key /\ srvAuth.key)
    /\ pc = "open" => srv = "attached" /\ opts.right /\ srvForm = Form

AuthType ==
    srvAuth \in [by : Accepts \cup {"none", "other"}, plugin : Plugins \cup {""}, done : BOOLEAN,
                 key : BOOLEAN, offer : Offers \cup {NoOffer}]

\* What the driver sends of the password.
Careful == Sanctioned /\ Guarded

Talk == AuthType /\ Asked /\ Answered /\ Tuned /\ Agreed /\ Careful

LEMMA NothingAsked == toServer = <<>> => Careful
<1> SUFFICES ASSUME toServer = <<>> PROVE Careful
  OBVIOUS
<1>1. DOMAIN toServer = {}  OBVIOUS
<1> QED  BY <1>1 DEF Careful, Sanctioned, Guarded

LEMMA NothingAskedNext == toServer' = <<>> => Careful'
<1> SUFFICES ASSUME toServer' = <<>> PROVE Careful'
  OBVIOUS
<1>1. DOMAIN toServer' = {}  OBVIOUS
<1> QED  BY <1>1 DEF Careful, Sanctioned, Guarded

LEMMA SameCareful == Talk /\ UNCHANGED <<opts, srvAuth, toServer>> => Careful'
  BY DEF Talk, Careful, Sanctioned, Guarded, Fits

-----------------------------------------------------------------------------
(* Choosing a cipher.                                                         *)

LEMMA Least ==
    ASSUME NEW T, T \subseteq Nat, T # {}
    PROVE  \E x \in T : \A y \in T : x <= y
<1> DEFINE R == {ss \in Nat \X Nat : ss[1] < ss[2]}
<1>1. IsWellFoundedOn(R, Nat)  BY NatLessThanWellFounded DEF OpToRel
<1>2. \A x, y \in Nat : <<x, y>> \in R <=> x < y  OBVIOUS
<1> HIDE DEF R
<1>3. PICK x \in T : \A y \in T : ~(<<y, x>> \in R)  BY <1>1, WFMin
<1>4. \A y \in T : ~(y < x)  BY <1>2, <1>3
<1> QED  BY <1>4

\* _guess_wire_crypt finds the first cipher of the list that can be used.
LEMMA GuessFirst ==
    ASSUME opts \in Options, NEW offer
    PROVE  \/ /\ Guess(offer) = ""
              /\ \A i \in DOMAIN opts.ciphers : ~Usable(opts.ciphers[i], offer)
           \/ \E i \in DOMAIN opts.ciphers :
                 First(i, offer) /\ Guess(offer) = opts.ciphers[i] /\ opts.ciphers[i] \in Ciphers
<1>1. /\ opts.ciphers \in Seq(Ciphers)
      /\ DOMAIN opts.ciphers = 1..Len(opts.ciphers) /\ Len(opts.ciphers) \in Nat
      /\ \A i \in DOMAIN opts.ciphers : opts.ciphers[i] \in Ciphers
  BY OptionsAssumption
<1>2. CASE \E i \in DOMAIN opts.ciphers : Usable(opts.ciphers[i], offer)
  <2> DEFINE T == {i \in DOMAIN opts.ciphers : Usable(opts.ciphers[i], offer)}
  <2>1. T \subseteq Nat /\ T # {}  BY <1>1, <1>2
  <2>2. \A i \in T : i \in DOMAIN opts.ciphers /\ Usable(opts.ciphers[i], offer)  OBVIOUS
  <2>3. \A i \in DOMAIN opts.ciphers : Usable(opts.ciphers[i], offer) => i \in T  OBVIOUS
  <2> HIDE DEF T
  <2>4. PICK x \in T : \A y \in T : x <= y  BY <2>1, Least
  <2>5. \A j \in 1..(x - 1) : ~Usable(opts.ciphers[j], offer)
    <3> SUFFICES ASSUME NEW j \in 1..(x - 1), Usable(opts.ciphers[j], offer) PROVE FALSE
      OBVIOUS
    <3>1. x \in DOMAIN opts.ciphers  BY <2>2, <2>4
    <3>2. j \in DOMAIN opts.ciphers  BY <1>1, <3>1
    <3>3. j \in T  BY <2>3, <3>2
    <3> QED  BY <2>1, <2>4, <3>3
  <2>6. x \in DOMAIN opts.ciphers /\ First(x, offer)  BY <2>2, <2>4, <2>5 DEF First
  <2> DEFINE n == CHOOSE i \in DOMAIN opts.ciphers : First(i, offer)
  <2>7. n \in DOMAIN opts.ciphers /\ First(n, offer)  BY <2>6
  <2>8. Guess(offer) = opts.ciphers[n]  BY <2>6, Zenon DEF Guess
  <2> HIDE DEF n
  <2> QED  BY <1>1, <2>7, <2>8
<1>3. CASE ~\E i \in DOMAIN opts.ciphers : Usable(opts.ciphers[i], offer)
  <2>1. ~\E i \in DOMAIN opts.ciphers : First(i, offer)  BY <1>3 DEF First
  <2>2. Guess(offer) = ""  BY <2>1, Zenon DEF Guess
  <2> QED  BY <1>3, <2>2
<1> QED  BY <1>2, <1>3

\* What fits both ends is usable.
LEMMA FitsUsable ==
    ASSUME AuthType, NEW c \in Ciphers, Fits(c)
    PROVE  Usable(c, srvAuth.offer)
<1>1. srvAuth.offer \in Offer
  <2>1. NoOffer \in Offer  BY DEF NoOffer, Offer
  <2>2. srvAuth.offer \in Offers \cup {NoOffer}  BY DEF AuthType
  <2>3. Offers \subseteq Offer  BY OptionsAssumption
  <2> QED  BY <2>1, <2>2, <2>3
<1>2. srvAuth.offer[c] \in {"no", "bare", "unfit", "fit"}  BY <1>1 DEF Offer
<1> QED  BY <1>2 DEF Fits, Usable, Ciphers

LEMMA GuessBest ==
    ASSUME IInv, AuthType, cipher' = Guess(srvAuth.offer), UNCHANGED <<opts, srvAuth>>
    PROVE  Best'
<1>0. opts \in Options  BY DEF IInv, DataType
<1>1. \A i \in DOMAIN opts.ciphers : opts.ciphers[i] \in Ciphers
  BY <1>0, OptionsAssumption
<1>2. \A c : Fits(c)' <=> Fits(c)  BY DEF Fits
<1>3. CASE /\ cipher' = ""
           /\ \A i \in DOMAIN opts.ciphers : ~Usable(opts.ciphers[i], srvAuth.offer)
  <2>1. \A i \in DOMAIN opts.ciphers : ~Fits(opts.ciphers[i])
    BY <1>1, <1>3, FitsUsable
  <2> QED  BY <1>2, <1>3, <2>1 DEF Best
<1>4. CASE \E i \in DOMAIN opts.ciphers :
              First(i, srvAuth.offer) /\ cipher' = opts.ciphers[i] /\ opts.ciphers[i] \in Ciphers
  <2>1. PICK i \in DOMAIN opts.ciphers :
           First(i, srvAuth.offer) /\ cipher' = opts.ciphers[i] /\ opts.ciphers[i] \in Ciphers
    BY <1>4
  <2>2. \A j \in 1..(i - 1) : ~Fits(opts.ciphers[j])
    <3> TAKE j \in 1..(i - 1)
    <3>1. j \in DOMAIN opts.ciphers
      <4>1. opts.ciphers \in Seq(Ciphers)  BY <1>0, OptionsAssumption
      <4> QED  BY <4>1
    <3> QED  BY <1>1, <2>1, <3>1, FitsUsable DEF First
  <2>3. cipher' # ""  BY <2>1 DEF Ciphers
  <2> QED  BY <1>2, <2>1, <2>2, <2>3 DEF Best
<1> QED  BY <1>0, <1>3, <1>4, GuessFirst

LEMMA OnePacket ==
    ASSUME NEW r
    PROVE  /\ Append(<<>>, r) = <<r>> /\ <<r>> # <<>>
           /\ Len(<<r>>) = 1 /\ <<r>>[1] = r /\ DOMAIN <<r>> = {1}
<1>1. <<r>> \in Seq({r}) /\ <<>> \in Seq({r})  OBVIOUS
<1>2. Append(<<>>, r) = <<r>>  BY <1>1
<1>3. Len(<<r>>) = 1  OBVIOUS
<1>4. <<r>>[1] = r  OBVIOUS
<1>5. <<r>> # <<>>  BY <1>1, <1>3
<1>6. DOMAIN <<r>> = {1}  BY <1>1, <1>3
<1> QED  BY <1>2, <1>3, <1>4, <1>5, <1>6

LEMMA NoPacket ==
    ASSUME NEW s, s = <<>>
    PROVE  Len(s) = 0 /\ DOMAIN s = {} /\ \A i : i \notin 1..Len(s)
<1>1. Len(<<>>) = 0 /\ DOMAIN <<>> = {}  OBVIOUS
<1>2. \A i : i \notin 1..0  OBVIOUS
<1> QED  BY <1>1, <1>2

LEMMA Lengths ==
    ASSUME IInv
    PROVE  /\ Len(toDriver) \in Nat /\ (Len(toDriver) = 0 <=> toDriver = <<>>)
           /\ Len(toServer) \in Nat /\ (Len(toServer) = 0 <=> toServer = <<>>)
<1>1. toServer \in Seq(ToServer) /\ toDriver \in Seq(ToDriver)  BY DEF IInv, DataType
<1> QED  BY <1>1

\* The packet that is read, and what is left.
LEMMA HearsOne ==
    ASSUME IInv, NEW p, NEW ops, Hears(p, ops)
    PROVE  /\ pc = p /\ toDriver[1].op \in ops /\ toDriver[1].form = Form
           /\ Head(toDriver) = toDriver[1]
           /\ Len(toDriver) \in Nat /\ Len(toDriver) >= 1 /\ toDriver # <<>>
           /\ Len(toDriver') = Len(toDriver) - 1
           /\ \A i \in 1..Len(toDriver') :
                 i + 1 \in 1..Len(toDriver) /\ toDriver'[i] = toDriver[i + 1]
           /\ Len(toDriver) = 1 => toDriver' = <<>>
           /\ UNCHANGED <<opts, srv, srvForm, srvAuth, dead>>
<1>1. toDriver \in Seq(ToDriver) /\ toDriver # <<>> /\ toDriver' = Tail(toDriver)
  BY DEF IInv, DataType, Hears
<1>2. /\ Head(toDriver) = toDriver[1] /\ Len(toDriver) \in Nat /\ Len(toDriver) >= 1
      /\ Len(toDriver') = Len(toDriver) - 1
      /\ \A i \in 1..Len(toDriver') : toDriver'[i] = toDriver[i + 1]
      /\ Len(toDriver) = 1 => toDriver' = <<>>
  BY <1>1
<1> QED  BY <1>1, <1>2 DEF Hears, serverVars

\* A packet that is no op_dummy answers the request, and is the last one.
LEMMA HearsAnswer ==
    ASSUME IInv, Talk, NEW p \in {"cont_auth", "verdict", "ack", "attach"}, NEW ops, Hears(p, ops),
           "dummy" \notin ops
    PROVE  toServer = <<>> /\ toDriver' = <<>> /\ Answer(1)
<1>1. /\ pc = p /\ toDriver[1].op # "dummy" /\ Len(toDriver) \in Nat /\ Len(toDriver) >= 1
      /\ Len(toDriver) = 1 => toDriver' = <<>>
  BY HearsOne
<1>2. toServer = <<>>  BY <1>1 DEF Talk, Asked
<1>3. Answer(1)
  <2>1. \A i \in 1..Len(toDriver) : Answer(i)  BY <1>1, <1>2 DEF Talk, Answered
  <2>2. 1 \in 1..Len(toDriver)  BY <1>1
  <2> QED  BY <2>1, <2>2
<1>4. Len(toDriver) = 1  BY <1>1, <1>3 DEF Answer
<1> QED  BY <1>1, <1>2, <1>3, <1>4

\* What a packet is is a matter of what the server knows and has said, wherever
\* the packet is.
LEMMA Moved ==
    ASSUME UNCHANGED <<srvForm, srvAuth>>,
           NEW i, NEW j, toDriver'[i] = toDriver[j], NEW k, Acceptance(k, j)
    PROVE  Acceptance(k, i)'
  BY DEF Acceptance

LEMMA MovedFinal ==
    ASSUME UNCHANGED <<opts, srvForm>>, NEW i, NEW j, toDriver'[i] = toDriver[j], Final(toDriver[j])
    PROVE  Final(toDriver[i])'
  BY DEF Final, Plain, FormOf

\* The driver has sent a request, and has heard everything before.
LEMMA Sends ==
    ASSUME Talk, toServer = <<>>, toDriver' = <<>>, UNCHANGED <<opts, serverVars, dead>>,
           NEW op \in {"public", "proof", "crypt", "attach"}, NEW arg, NEW form,
           Tell(op, arg, form), dead \/ srvForm = form, Awaits(op)',
           op \in {"public", "proof"} /\ arg # "" => arg \in opts.list /\ arg = srvAuth.plugin,
           op = "attach" =>
              /\ arg \ {"password"} \subseteq {x \in opts.list : x = srvAuth.plugin}
              /\ opts.mode # "disabled" /\ srvAuth.key
                 /\ (\E j \in DOMAIN opts.ciphers : Fits(opts.ciphers[j])) => form.cipher # ""
    PROVE  /\ Asked' /\ Careful' /\ Answered'
           /\ toServer' # <<>> => ~dead /\ toServer'[1].arg = arg /\ toServer'[1].op = op
<1> DEFINE r == [op |-> op, arg |-> arg, form |-> form]
<1>0. r.op = op /\ r.arg = arg /\ r.form = form
  OBVIOUS
<1>1. toServer' = <<>> \/ (~dead /\ toServer' = <<r>>)
  BY OnePacket DEF Tell
<1> HIDE DEF r
<1>2. Answered'
  <2>2. \A i : i \notin 1..Len(toDriver')  BY NoPacket
  <2>3. Opening(0)'  BY <2>2 DEF Opening
  <2> QED  BY <2>2, <2>3 DEF Answered
<1>3. CASE toServer' = <<>>
  <2>2. Careful'  BY <1>3, NothingAskedNext
  <2>3. Asked'  BY <1>3 DEF Asked
  <2> QED  BY <1>2, <1>3, <2>2, <2>3
<1>4. CASE ~dead /\ toServer' = <<r>>
  <2>1. /\ Len(toServer') = 1 /\ DOMAIN toServer' = {1} /\ toServer' # <<>>
        /\ toServer'[1] = r
    BY <1>4, OnePacket
  <2>2. \A i : i \notin 1..Len(toDriver')  BY NoPacket
  <2>3. Asked'  BY <1>0, <1>4, <2>1, <2>2 DEF Asked, serverVars
  <2>4. Careful'
    <3>1. /\ toServer'[1].op = op /\ toServer'[1].arg = arg /\ toServer'[1].form = form
          /\ opts' = opts /\ srvAuth' = srvAuth
      BY <1>0, <2>1 DEF serverVars
    <3>2. \A c : Fits(c)' <=> Fits(c)  BY <3>1 DEF Fits
    <3>3. Sanctioned'  BY <2>1, <3>1 DEF Sanctioned
    <3>4. Guarded'  BY <2>1, <3>1, <3>2 DEF Guarded
    <3> QED  BY <3>3, <3>4 DEF Careful
  <2> QED  BY <1>0, <1>2, <1>4, <2>1, <2>3, <2>4
<1> QED  BY <1>1, <1>3, <1>4

\* Best depends on the driver's cipher and what the server knows.
LEMMA SameBest ==
    ASSUME UNCHANGED <<opts, cipher, srvAuth>>, Best
    PROVE  Best'
  BY DEF Best, Fits

\* The attempt fails.
LEMMA FailTalk ==
    ASSUME Talk, IInv, pc' = "failed", UNCHANGED <<opts, serverVars, dead, toServer>>,
           toDriver' \in {toDriver, <<>>} \/ \E p, ops : Hears(p, ops),
           cipher' # "" => opts.mode # "disabled"
    PROVE  Talk'
<1>1. \A i \in 1..Len(toDriver') :
         \E j \in 1..Len(toDriver) : toDriver'[i] = toDriver[j]
  BY HearsOne, NoPacket
<1>2. toDriver = <<>> => toDriver' = <<>>
  BY DEF Hears
<1>3. Asked'  BY ZenonT(40), <1>1, <1>2 DEF Talk, Asked, Awaits, serverVars
<1>4. Careful'  BY SameCareful DEF serverVars
<1>5. Answered' /\ Tuned' /\ Agreed'
  BY DEF Talk, Answered, Tuned, Agreed, serverVars
<1>6. AuthType'  BY DEF Talk, AuthType, serverVars
<1> QED  BY <1>3, <1>4, <1>5, <1>6 DEF Talk

-----------------------------------------------------------------------------
(* The driver's steps.                                                        *)

LEMMA AttachTalk ==
    ASSUME IInv, Separate, Talk, toServer = <<>>, toDriver' = <<>>,
           UNCHANGED <<opts, serverVars, dead>>,
           NEW secret, NEW z \in {FALSE, opts.compress}, Attach(secret, z, cipher'), zip' = z,
           dead \/ srvForm = FormOf(z, cipher'),
           secret # "" => secret \in opts.list /\ secret = srvAuth.plugin,
           Best', cipher' # "" => key' /\ srvAuth.key /\ opts.mode # "disabled"
    PROVE  Talk'
<1>1. pc' = "attach" /\ Tell("attach", Dpb(secret), FormOf(z, cipher')) /\ Awaits("attach")'
  BY DEF Attach, Awaits
<1>6. Dpb(secret) \ {"password"} \subseteq {x \in opts.list : x = srvAuth.plugin}
  BY DEF Dpb
<1>7. ASSUME opts.mode # "disabled", srvAuth.key,
             \E j \in DOMAIN opts.ciphers : Fits(opts.ciphers[j])
      PROVE  FormOf(z, cipher').cipher # ""
  <2>1. z = FALSE  BY <1>7, OptsType DEF Separate, IInv, DataType
  <2>2. FormOf(z, cipher').cipher = cipher'  BY <2>1 DEF FormOf
  <2>3. \A c : Fits(c)' <=> Fits(c)  BY DEF Fits, serverVars
  <2>4. cipher' # ""  BY <1>7, <2>3 DEF Best, serverVars
  <2> QED  BY <2>2, <2>4
<1>2. Asked' /\ Careful' /\ Answered'  BY <1>1, <1>6, <1>7, Sends
<1>3. Tuned'
  BY <1>1 DEF Talk, Tuned, Lost, Form, serverVars
<1>4. Agreed'  BY <1>1 DEF Agreed, serverVars
<1>5. AuthType'  BY DEF Talk, AuthType, serverVars
<1> QED  BY <1>2, <1>3, <1>4, <1>5 DEF Talk

LEMMA PlainForm ==
    ASSUME IInv, srvForm.cipher = "", NEW z, srvForm.zip = z
    PROVE  srvForm = FormOf(z, "")
<1>1. srvForm \in Forms  BY DEF IInv, DataType
<1> QED  BY <1>1 DEF Forms, FormOf

LEMMA ConcludeTalk ==
    ASSUME IInv, Separate, Talk, toServer = <<>>, toDriver' = <<>>,
           UNCHANGED <<opts, serverVars, dead>>,
           NEW secret, NEW z \in {FALSE, opts.compress}, NEW k, NEW enc, NEW offer,
           Conclude(secret, z, k, enc, offer),
           cipher = "", srvForm.cipher = "", dead \/ srvForm.zip = z,
           secret # "" => secret \in opts.list /\ secret = srvAuth.plugin,
           \/ enc = "" /\ ~srvAuth.key
           \/ /\ k <=> srvAuth.key
              /\ enc = Guess(srvAuth.offer) /\ opcode' = srvAuth.by
    PROVE  Talk'
<1>0. /\ opts \in Options /\ opts.compress \in BOOLEAN /\ AuthType /\ srvForm.zip \in BOOLEAN
      /\ opts.mode # "disabled" => ~opts.compress
  BY OptsType DEF IInv, DataType, Forms, Separate, Talk
<1>1. zip' = z /\ key' = k  BY DEF Conclude
<1>2. dead \/ srvForm = FormOf(z, "")  BY PlainForm
<1>3. CASE /\ Encrypt(enc, k)
           /\ Tell("crypt", enc, FormOf(z, cipher)) /\ cipher' = enc
           /\ pc' = IF enc # "Arc4" /\ offer[enc] # "fit" THEN "failed" ELSE "ack"
  <2>1. enc # "" /\ opts.mode # "disabled" /\ k /\ pc' \in {"failed", "ack"}
    BY <1>3 DEF Encrypt
  <2>2. srvAuth.key /\ enc = Guess(srvAuth.offer) /\ opcode' = srvAuth.by
    BY <2>1
  <2>3. ~z /\ ~srvForm.zip /\ srvForm = Plain
    <3>1. ~opts.compress /\ z = FALSE  BY <1>0, <2>1
    <3>2. srvForm.zip = FALSE  BY <1>0, <3>1 DEF Talk, Tuned
    <3> QED  BY <3>1, <3>2, PlainForm DEF Plain
  <2>4. Awaits("crypt")'  BY <2>1 DEF Awaits
  <2>5. /\ Asked' /\ Careful' /\ Answered'
        /\ toServer' # <<>> => toServer'[1].arg = enc
    <3>1. FormOf(z, cipher) = Plain
      <4>1. z = FALSE  BY <1>0, <2>3
      <4> QED  BY <4>1 DEF Plain
    <3> QED  BY <1>3, <2>3, <2>4, <3>1, Sends
  <2>6. Best'  BY <1>0, <1>3, <2>2, GuessBest DEF serverVars
  <2>7. Tuned'
    BY <1>1, <1>3, <2>1, <2>3, <2>5 DEF Talk, Tuned, serverVars, Plain, FormOf
  <2>8. Agreed'  BY <1>1, <2>1, <2>2, <2>6 DEF Agreed, serverVars
  <2>9. AuthType'  BY <1>0, <1>1 DEF AuthType, serverVars
  <2> QED  BY <2>5, <2>7, <2>8, <2>9 DEF Talk
<1>4. CASE FailClosed(enc, k) /\ pc' = "failed" /\ UNCHANGED <<toServer, cipher>>
  <2>1. toDriver' \in {toDriver, <<>>} /\ cipher' = ""  BY <1>4
  <2> QED  BY <1>1, <1>4, <2>1, FailTalk
<1>5. CASE /\ ~Encrypt(enc, k) /\ ~FailClosed(enc, k)
           /\ Attach(secret, z, cipher) /\ UNCHANGED cipher
  <2>1. Best'
    <3>1. CASE opts.mode = "disabled" \/ ~srvAuth.key
      BY <3>1 DEF Best, serverVars
    <3>2. CASE opts.mode # "disabled" /\ srvAuth.key
      <4>1. enc = Guess(srvAuth.offer) /\ k  BY <3>2
      <4>2. enc = ""  BY <1>5, <3>2, <4>1 DEF Encrypt
      <4> QED  BY <1>0, <1>5, <4>1, <4>2, GuessBest DEF serverVars
    <3> QED  BY <3>1, <3>2
  <2> QED  BY <1>1, <1>2, <1>5, <2>1, AttachTalk
<1> QED  BY <1>3, <1>4, <1>5 DEF Conclude

LEMMA ConnectTalk == IInv /\ Talk /\ Connect => Talk'
<1> SUFFICES ASSUME IInv, Talk, Connect PROVE Talk'
  OBVIOUS
<1>1. /\ pc = "start" /\ pc' = "opcode" /\ toServer = <<>> /\ toDriver = <<>> /\ toDriver' = <<>>
      /\ Tell("connect", Uid, Form)
      /\ UNCHANGED <<opts, driverVars, toDriver, serverVars, dead>>
  BY DEF Connect, Talk, Agreed
<1>2. srvForm = Form
  <2>1. zip = FALSE /\ cipher = "" /\ srvForm.zip = FALSE /\ srvForm.cipher = ""
    BY <1>1 DEF Talk, Tuned, IInv, DataType, Forms
  <2> QED  BY <2>1, PlainForm DEF Form
<1> DEFINE r == [op |-> "connect", arg |-> Uid, form |-> Form]
<1>3. r.op = "connect" /\ r.arg = Uid /\ r.form = Form
  OBVIOUS
<1>4. toServer' = <<>> \/ (~dead /\ toServer' = <<r>>)
  BY <1>1, OnePacket DEF Tell
<1> HIDE DEF r
<1>5. \A i : i \notin 1..Len(toDriver')  BY <1>1, NoPacket
<1>6. Asked' /\ Careful'
  <2>1. CASE toServer' = <<>>
    <3> QED  BY <2>1, NothingAskedNext DEF Asked
  <2>2. CASE ~dead /\ toServer' = <<r>>
    <3>1. /\ Len(toServer') = 1 /\ DOMAIN toServer' = {1} /\ toServer' # <<>> /\ toServer'[1] = r
      BY <2>2, OnePacket
    <3>2. Asked'  BY <1>1, <1>2, <1>3, <1>5, <2>2, <3>1 DEF Asked, Awaits, serverVars
    <3>3. Uid \in opts.list  BY OptionsAssumption DEF Uid, IInv, DataType
    <3>4. Careful'  BY <1>1, <1>3, <3>1, <3>3 DEF Careful, Sanctioned, Guarded, serverVars
    <3> QED  BY <3>2, <3>4
  <2> QED  BY <1>4, <2>1, <2>2
<1>7. Answered'
  <2>1. Opening(0)'  BY <1>5 DEF Opening
  <2> QED  BY <1>1, <2>1 DEF Answered
<1>8. Tuned' /\ Agreed' /\ AuthType'
  BY <1>1 DEF Talk, Tuned, Agreed, AuthType, serverVars, driverVars
<1> QED  BY <1>6, <1>7, <1>8 DEF Talk

LEMMA ReadOpcodeTalk == IInv /\ Separate /\ Talk /\ ReadOpcode => Talk'
<1> SUFFICES ASSUME IInv, Separate, Talk, ReadOpcode PROVE Talk'
  OBVIOUS
<1>1. CASE Hears("opcode", {"dummy"}) /\ UNCHANGED <<pc, toServer, driverVars>>
  <2>1. /\ pc = "opcode" /\ toDriver[1].op = "dummy" /\ Len(toDriver) \in Nat /\ Len(toDriver) >= 1
        /\ Len(toDriver') = Len(toDriver) - 1
        /\ \A i \in 1..Len(toDriver') :
              i + 1 \in 1..Len(toDriver) /\ toDriver'[i] = toDriver[i + 1]
        /\ toDriver = <<>> => toDriver' = <<>>
        /\ UNCHANGED <<opts, srv, srvForm, srvAuth, dead, pc, toServer, driverVars>>
    BY <1>1, HearsOne
  <2>2. Asked'
    <3>1. toServer = <<>> => Asked'  BY <2>1 DEF Talk, Asked
    <3>2. toServer # <<>> => toDriver = <<>> \/ toServer[1].op # "crypt"
      BY DEF Talk, Asked
    <3>3. toServer # <<>> => Asked'
      BY <2>1, <3>2 DEF Talk, Asked, Awaits
    <3> QED  BY <3>1, <3>3
  <2>3. Answered'
    <3>1. ASSUME toServer = <<>> PROVE \E n \in Nat : Opening(n)'
      <4>1. PICK n \in Nat : Opening(n)  BY <2>1, <3>1 DEF Talk, Answered
      <4>2. 1 \in 1..Len(toDriver)  BY <2>1
      <4>3. \E m \in Nat : n = m + 1
        <5>1. \/ 1 <= n
              \/ 1 > n /\ Acceptance(1 - n, 1)
          BY <2>1, <4>1, <4>2 DEF Opening, Final
        <5>2. ~Acceptance(1 - n, 1)
          BY <2>1 DEF Acceptance, Accepts
        <5>3. n >= 1  BY <5>1, <5>2
        <5>4. n - 1 \in Nat /\ n = (n - 1) + 1  BY <5>3
        <5> QED  BY <5>4
      <4>4. PICK m \in Nat : n = m + 1  BY <4>3
      <4>5. Opening(m)'
        <5>1. SUFFICES ASSUME NEW i \in 1..Len(toDriver')
              PROVE  \/ i <= m /\ toDriver'[i].op = "dummy" /\ toDriver'[i].form = Plain
                     \/ /\ i = m + 1 /\ i = Len(toDriver')
                        /\ Final(toDriver[i])' /\ toDriver'[i].form = Plain
                     \/ i > m /\ Acceptance(i - m, i)'
          BY DEF Opening, Plain, FormOf
        <5>2. i + 1 \in 1..Len(toDriver) /\ toDriver'[i] = toDriver[i + 1] /\ i \in Nat
          BY <2>1
        <5>3. \/ i + 1 <= n /\ toDriver[i + 1].op = "dummy" /\ toDriver[i + 1].form = Plain
              \/ /\ i + 1 = n + 1 /\ i + 1 = Len(toDriver)
                 /\ Final(toDriver[i + 1]) /\ toDriver[i + 1].form = Plain
              \/ i + 1 > n /\ Acceptance((i + 1) - n, i + 1)
          BY <4>1, <5>2 DEF Opening
        <5>4. (i + 1) - n = i - m  BY <4>4, <5>2
        <5>5. CASE i + 1 > n /\ Acceptance((i + 1) - n, i + 1)
          <6>1. Acceptance(i - m, i + 1) /\ i > m  BY <4>4, <5>2, <5>4, <5>5
          <6>2. Acceptance(i - m, i)'  BY <2>1, <5>2, <6>1, Moved
          <6> QED  BY <6>1, <6>2
        <5>6. CASE ~(i + 1 > n /\ Acceptance((i + 1) - n, i + 1))
          <6>1. Final(toDriver[i + 1]) => Final(toDriver[i])'  BY <2>1, <5>2, MovedFinal
          <6> QED  BY <2>1, <4>4, <5>2, <5>3, <5>6, <6>1
        <5> QED  BY <5>5, <5>6
      <4> QED  BY <4>5
    <3> QED  BY <2>1, <3>1 DEF Answered
  <2>4. Tuned'
    BY <2>1 DEF Talk, Tuned, driverVars
  <2>5. Agreed' /\ AuthType' /\ Careful'
    BY <2>1, SameCareful DEF Talk, Agreed, AuthType, driverVars
  <2> QED  BY <2>2, <2>3, <2>4, <2>5 DEF Talk
<1>2. CASE Hears("opcode", {"reject", "error"}) /\ Fail
  <2>1. UNCHANGED <<opts, serverVars, dead>>  BY <1>2 DEF Hears
  <2>2. pc' = "failed" /\ UNCHANGED <<toServer, cipher, key>>  BY <1>2 DEF Fail, driverVars
  <2> QED  BY <1>2, <2>1, <2>2, FailTalk DEF Talk, Tuned, AuthType
<1>3. CASE /\ Hears("opcode", Accepts \cup {"other"})
           /\ opcode' = Head(toDriver).op /\ pc' = "header"
           /\ UNCHANGED <<toServer, plugin, key, zip, cipher>>
  <2>1. /\ pc = "opcode" /\ toDriver[1].op \in Accepts \cup {"other"} /\ opcode' = toDriver[1].op
        /\ Len(toDriver) \in Nat /\ Len(toDriver) >= 1
        /\ Len(toDriver') = Len(toDriver) - 1
        /\ \A i \in 1..Len(toDriver') :
              i + 1 \in 1..Len(toDriver) /\ toDriver'[i] = toDriver[i + 1]
        /\ UNCHANGED <<opts, srv, srvForm, srvAuth, dead>>
    BY <1>3, HearsOne
  <2>2. 1 \in 1..Len(toDriver)  BY <2>1
  <2>3. toDriver[1].op \notin {"dummy", "reject", "error", "response", "header", "auth_data"}
    BY <2>1 DEF Accepts
  <2>4. toServer = <<>>  BY <2>2, <2>3 DEF Talk, Asked
  <2>5. PICK n \in Nat : Opening(n)  BY <2>1, <2>4 DEF Talk, Answered
  <2>6. n = 0 /\ Acceptance(1, 1)
    <3>1. 1 > n /\ Acceptance(1 - n, 1)  BY <2>2, <2>3, <2>5 DEF Opening, Final
    <3>2. n = 0  BY <3>1
    <3> QED  BY <3>1, <3>2
  <2>7. opcode' = srvAuth.by  BY <2>1, <2>6 DEF Acceptance
  <2>8. (\A i \in 1..Len(toDriver) : Acceptance(i + 1, i))'
    <3> SUFFICES ASSUME NEW i \in 1..Len(toDriver') PROVE Acceptance(i + 1, i)'
      OBVIOUS
    <3>1. i + 1 \in 1..Len(toDriver) /\ toDriver'[i] = toDriver[i + 1] /\ i \in Nat /\ i >= 1
      BY <2>1
    <3>2. Acceptance((i + 1) - 0, i + 1)  BY <2>5, <2>6, <3>1 DEF Opening
    <3>3. Acceptance(i + 1, i + 1)  BY <3>1, <3>2
    <3> QED  BY <2>1, <3>1, <3>3, Moved
  <2>9. Answered'  BY <1>3, <2>8 DEF Answered
  <2>10. Asked' /\ Careful'
    BY <1>3, <2>1, <2>4, NothingAskedNext DEF Asked
  <2>11. Tuned' /\ Agreed' /\ AuthType'
    BY <1>3, <2>1, <2>7 DEF Talk, Tuned, Agreed, AuthType
  <2> QED  BY <2>9, <2>10, <2>11 DEF Talk
<1>4. CASE Hears("opcode", {"response"}) /\ Attach("", zip, cipher) /\ UNCHANGED driverVars
  <2>1. /\ pc = "opcode" /\ toDriver[1].op = "response" /\ toDriver[1].form = Form
        /\ Len(toDriver) \in Nat /\ Len(toDriver) >= 1
        /\ Len(toDriver) = 1 => toDriver' = <<>>
        /\ UNCHANGED <<opts, serverVars, dead>>
    <3>1. Hears("opcode", {"response"})  BY <1>4
    <3>2. toDriver[1].op \in {"response"}  BY <3>1, HearsOne
    <3>3. UNCHANGED <<opts, serverVars, dead>>  BY <3>1 DEF Hears
    <3> QED  BY <3>1, <3>2, <3>3, HearsOne
  <2>2. 1 \in 1..Len(toDriver)  BY <2>1
  <2>3. toServer = <<>>  BY <2>1, <2>2 DEF Talk, Asked
  <2>4. PICK n \in Nat : Opening(n)  BY <2>1, <2>3 DEF Talk, Answered
  <2>5. Final(toDriver[1]) /\ Len(toDriver) = 1
    <3>1. \A k : ~Acceptance(k, 1)  BY <2>1 DEF Acceptance, Accepts
    <3> QED  BY <2>1, <2>2, <2>4, <3>1 DEF Opening
  <2>6. srvForm = Plain  BY <2>1, <2>5 DEF Final
  <2>7. /\ zip = FALSE /\ cipher = "" /\ ~srvAuth.key
        /\ zip' = zip /\ cipher' = cipher
    BY <1>4, <2>1 DEF Talk, Tuned, Agreed, IInv, DataType, driverVars
  <2>8. Best'  BY <2>1, <2>7 DEF Best, serverVars
  <2>9. Attach("", FALSE, cipher') /\ srvForm = FormOf(FALSE, cipher') /\ zip' = FALSE
    BY <1>4, <2>6, <2>7 DEF Plain
  <2> QED  BY <2>1, <2>3, <2>5, <2>7, <2>8, <2>9, AttachTalk
<1> QED  BY <1>1, <1>2, <1>3, <1>4 DEF ReadOpcode

\* While the driver reads the acceptance nothing is on its way to the server.
LEMMA NotAsked == Talk /\ pc \in {"header", "inflate", "auth_data"} => toServer = <<>>
  BY DEF Talk, Asked, Awaits

LEMMA AcceptedTalk ==
    ASSUME IInv, Separate, Talk, pc \in {"header", "inflate"}, NEW z \in {FALSE, opts.compress}, Accepted(z),
           UNCHANGED <<opts, serverVars, dead>>,
           toDriver' \in {toDriver, <<>>} \/ \E p, ops : Hears(p, ops),
           (\A i \in 1..Len(toDriver) : Acceptance(i + 2, i))',
           (dead /\ toDriver' = <<>>) \/ srvForm.zip = z
    PROVE  Talk'
<1>1. /\ toServer = <<>> /\ cipher = "" /\ srvForm.cipher = "" /\ ~srvAuth.key
      /\ opcode = srvAuth.by /\ srvAuth' = srvAuth
  BY NotAsked DEF Talk, Tuned, Agreed, AuthType, serverVars
<1>2. CASE opcode = "accept" /\ Conclude("", z, FALSE, "", NoOffer) /\ UNCHANGED <<opcode, plugin>>
  <2>1. srvAuth'.by = "accept"  BY <1>1, <1>2
  <2>2. ~Acceptance(3, 1)'  BY <2>1 DEF Acceptance
  <2>3. 1 \notin 1..Len(toDriver')
    <3>1. 1 \in 1..Len(toDriver') => Acceptance(1 + 2, 1)'  OBVIOUS
    <3> QED  BY <2>2, <3>1
  <2>4. toDriver' = <<>>
    <3>1. toDriver' \in Seq(ToDriver) \/ toDriver' = <<>>
      <4>1. toDriver \in Seq(ToDriver)  BY DEF IInv, DataType
      <4>2. (\E p, ops : Hears(p, ops)) => toDriver' \in Seq(ToDriver)
        BY HearsType, Unchanged
      <4> QED  BY <4>1, <4>2
    <3> QED  BY <2>3, <3>1
  <2>5. dead \/ srvForm.zip = z  OBVIOUS
  <2> QED  BY <1>1, <1>2, <2>4, <2>5, ConcludeTalk
<1>3. CASE /\ zip' = z /\ pc' = "auth_data"
           /\ UNCHANGED <<toServer, opcode, plugin, key, cipher>>
  <2>1. Answered'  BY <1>3 DEF Answered
  <2>2. Asked' /\ Careful'  BY <1>1, <1>3, NothingAskedNext DEF Asked
  <2>3. Tuned'  BY <1>1, <1>3 DEF Talk, Tuned, Lost, serverVars
  <2>4. Agreed' /\ AuthType'  BY <1>1, <1>3 DEF Talk, Agreed, AuthType, serverVars
  <2> QED  BY <2>1, <2>2, <2>3, <2>4 DEF Talk
<1>4. CASE zip' = z /\ pc' = "failed" /\ UNCHANGED <<toServer, opcode, plugin, key, cipher>>
  <2>1. cipher' = ""  BY <1>1, <1>4
  <2> QED  BY <1>4, <2>1, FailTalk
<1> QED  BY <1>2, <1>3, <1>4 DEF Accepted

LEMMA ReadHeaderTalk == IInv /\ Separate /\ Talk /\ (ReadHeader \/ Inflate \/ HeaderLost) => Talk'
<1> SUFFICES ASSUME IInv, Separate, Talk, ReadHeader \/ Inflate \/ HeaderLost PROVE Talk'
  OBVIOUS
<1>1. CASE ReadHeader
  <2>1. Hears("header", {"header"})  BY <1>1 DEF ReadHeader
  <2>2. /\ pc = "header" /\ Head(toDriver) = toDriver[1] /\ Len(toDriver) \in Nat /\ Len(toDriver) >= 1
        /\ \A i \in 1..Len(toDriver') :
              i + 1 \in 1..Len(toDriver) /\ toDriver'[i] = toDriver[i + 1]
        /\ UNCHANGED <<opts, srv, srvForm, srvAuth, dead>>
    BY <2>1, HearsOne
  <2>3. \A i \in 1..Len(toDriver) : Acceptance(i + 1, i)  BY <2>2 DEF Talk, Answered
  <2>4. Head(toDriver).arg = srvForm.zip
    <3>1. Acceptance(1 + 1, 1)  BY <2>2, <2>3
    <3> QED  BY <2>2, <3>1 DEF Acceptance
  <2>5. (\A i \in 1..Len(toDriver) : Acceptance(i + 2, i))'
    <3> SUFFICES ASSUME NEW i \in 1..Len(toDriver') PROVE Acceptance(i + 2, i)'
      OBVIOUS
    <3>1. i + 1 \in 1..Len(toDriver) /\ toDriver'[i] = toDriver[i + 1] /\ i \in Int
      BY <2>2
    <3>2. Acceptance((i + 1) + 1, i + 1)  BY <2>3, <3>1
    <3>3. (i + 1) + 1 = i + 2  BY <3>1
    <3>4. Acceptance(i + 2, i + 1)  BY <3>2, <3>3
    <3> QED  BY <2>2, <3>1, <3>4, Moved
  <2>6. Head(toDriver).arg \in {FALSE, opts.compress}
    <3>1. Head(toDriver) \in ToDriver /\ Head(toDriver).op \in {"header"}  BY <2>1, HearsType
    <3> QED  BY <3>1 DEF ToDriver
  <2>7. \E p, ops : Hears(p, ops)  BY <2>1
  <2>8. UNCHANGED <<opts, serverVars, dead>>  BY <2>2 DEF serverVars
  <2>9. CASE ~Head(toDriver).arg /\ Accepted(FALSE)
    <3>1. srvForm.zip = FALSE  BY <2>4, <2>9 DEF IInv, DataType, Forms
    <3> QED  BY <2>2, <2>5, <2>7, <2>8, <2>9, <3>1, AcceptedTalk
  <2>10. CASE /\ Head(toDriver).arg /\ zip' = TRUE /\ pc' = "inflate"
              /\ UNCHANGED <<toServer, opcode, plugin, key, cipher>>
    <3>1. srvForm.zip = TRUE  BY <2>4, <2>10 DEF IInv, DataType, Forms
    <3>2. toServer = <<>>  BY <2>2, NotAsked
    <3>3. Answered'  BY <2>5, <2>10 DEF Answered
    <3>4. Asked' /\ Careful'  BY <2>10, <3>2, NothingAskedNext DEF Asked
    <3>5. Tuned'  BY <2>2, <2>10, <3>1 DEF Talk, Tuned, Lost
    <3>6. Agreed' /\ AuthType'  BY <2>2, <2>10 DEF Talk, Agreed, AuthType
    <3> QED  BY <3>3, <3>4, <3>5, <3>6 DEF Talk
  <2> QED  BY <1>1, <2>9, <2>10 DEF ReadHeader
<1>2. CASE HeaderLost
  <2>1. /\ pc = "header" /\ dead /\ toDriver = <<>> /\ toDriver' = <<>> /\ Accepted(FALSE)
        /\ UNCHANGED <<opts, serverVars, dead>>
    BY <1>2 DEF HeaderLost
  <2>2. (\A i \in 1..Len(toDriver) : Acceptance(i + 2, i))'
    <3>1. \A i : i \notin 1..Len(toDriver')  BY <2>1, NoPacket
    <3> QED  BY <3>1
  <2> QED  BY <2>1, <2>2, AcceptedTalk
<1>3. CASE Inflate
  <2>1. /\ pc = "inflate" /\ toDriver' = toDriver /\ Accepted(TRUE)
        /\ UNCHANGED <<opts, serverVars, dead>>
    BY <1>3 DEF Inflate
  <2>2. (\A i \in 1..Len(toDriver) : Acceptance(i + 2, i))'
    <3> SUFFICES ASSUME NEW i \in 1..Len(toDriver') PROVE Acceptance(i + 2, i)'
      OBVIOUS
    <3>1. Acceptance(i + 2, i)  BY <2>1 DEF Talk, Answered
    <3> QED  BY <2>1, <3>1, Moved DEF serverVars
  <2>3. zip /\ TRUE \in {FALSE, opts.compress} /\ zip \in BOOLEAN
    BY <2>1, OptsType DEF IInv, DataType, Places
  <2>4. (dead /\ toDriver' = <<>>) \/ srvForm.zip = TRUE
    BY <2>1, <2>3 DEF Talk, Tuned, Lost
  <2> QED  BY <2>1, <2>2, <2>3, <2>4, AcceptedTalk
<1> QED  BY <1>1, <1>2, <1>3

LEMMA ProveTalk ==
    ASSUME IInv, Separate, Talk, toServer = <<>>, toDriver' = <<>>,
           UNCHANGED <<opts, serverVars, dead>>,
           opcode = srvAuth.by, cipher = "", srvForm.cipher = "", ~srvAuth.key, srvForm = Form,
           NEW name, Prove(name),
           \/ name = srvAuth.plugin /\ name \in opts.list
           \/ name = "" /\ ~IsSrp(srvAuth.plugin)
    PROVE  Talk'
<1>1. IsSrp(name) <=> IsSrp(srvAuth.plugin)
  <2>1. ~IsSrp("")  BY DEF IsSrp
  <2> QED  BY <2>1
<1>2. zip \in {FALSE, opts.compress} /\ srvForm.zip = zip
  BY OptsType DEF IInv, DataType, Places, Form, FormOf
<1>3. CASE /\ ContAuth("proof", name) /\ key' = IsSrp(name) /\ pc' = "verdict"
           /\ UNCHANGED <<zip, cipher>>
  <2>1. Tell("proof", name, Form) /\ Awaits("proof")'  BY <1>3 DEF ContAuth, Awaits
  <2>2. Asked' /\ Careful' /\ Answered'  BY <2>1, Sends
  <2>3. Tuned'  BY <1>2, <1>3 DEF Talk, Tuned, serverVars
  <2>4. Agreed'  BY <1>1, <1>3 DEF Agreed, Prove, serverVars
  <2>5. AuthType'  BY <1>1, <1>3 DEF Talk, AuthType, serverVars
  <2> QED  BY <2>2, <2>3, <2>4, <2>5 DEF Talk
<1>4. CASE Conclude(name, zip, IsSrp(name), "", NoOffer)
  BY <1>1, <1>2, <1>4, ConcludeTalk
<1> QED  BY <1>3, <1>4 DEF Prove

LEMMA ReadAcceptDataTalk == IInv /\ Separate /\ Talk /\ ReadAcceptData => Talk'
<1> SUFFICES ASSUME IInv, Separate, Talk, ReadAcceptData PROVE Talk'
  OBVIOUS
<1>0. Hears("auth_data", {"auth_data"})  BY DEF ReadAcceptData
<1>1. /\ pc = "auth_data" /\ toDriver[1].form = Form /\ Head(toDriver) = toDriver[1]
      /\ Len(toDriver) = 1 => toDriver' = <<>>
      /\ UNCHANGED <<opts, srv, srvForm, srvAuth, dead>>
  BY <1>0, HearsOne
<1>2. Len(toDriver) \in Nat /\ Len(toDriver) >= 1  BY <1>0, HearsOne
<1>3. \A i \in 1..Len(toDriver) : Acceptance(i + 2, i)  BY <1>1 DEF Talk, Answered
<1>4. Acceptance(3, 1) /\ Len(toDriver) = 1
  <2>1. 1 \in 1..Len(toDriver)  BY ONLY <1>2
  <2>2. Acceptance(1 + 2, 1)  BY ONLY <1>3, <2>1
  <2>3. 2 \in 1..Len(toDriver) => Acceptance(2 + 2, 2)  BY ONLY <1>3
  <2>4. ~Acceptance(2 + 2, 2)  BY DEF Acceptance
  <2>5. ASSUME Len(toDriver) # 1 PROVE 2 \in 1..Len(toDriver)
    <3>1. Len(toDriver) >= 2  BY ONLY <1>2, <2>5
    <3> QED  BY ONLY <1>2, <3>1
  <2> QED  BY <2>2, <2>3, <2>4, <2>5
<1> DEFINE a == Head(toDriver).arg
<1>5. a.plugin = srvAuth.plugin /\ (a.done => ~IsSrp(srvAuth.plugin)) /\ srvForm = Form
  <2>1. /\ toDriver[1].form = srvForm /\ toDriver[1].arg.plugin = srvAuth.plugin
        /\ toDriver[1].arg.done => ~IsSrp(srvAuth.plugin)
    BY <1>4 DEF Acceptance
  <2> QED  BY <1>1, <2>1
<1>6. /\ toServer = <<>> /\ toDriver' = <<>> /\ opcode = srvAuth.by
      /\ cipher = "" /\ srvForm.cipher = "" /\ ~srvAuth.key
      /\ UNCHANGED <<opts, serverVars, dead>>
  BY <1>1, <1>4, NotAsked DEF Talk, Tuned, Agreed, AuthType, serverVars
<1>7. CASE Fail
  <2>1. pc' = "failed" /\ UNCHANGED <<toServer, cipher, key>>  BY <1>7 DEF Fail, driverVars
  <2> QED  BY <1>6, <2>1, FailTalk
<1>8. CASE /\ a.plugin \in opts.list
           /\ plugin' = a.plugin /\ pc' = "cont_auth" /\ ContAuth("public", a.plugin)
           /\ UNCHANGED <<opcode, key, zip, cipher>>
  <2>1. Tell("public", a.plugin, Form) /\ Awaits("public")'  BY <1>8 DEF ContAuth, Awaits
  <2>2. Asked' /\ Careful' /\ Answered'  BY <1>5, <1>6, <1>8, <2>1, Sends
  <2>3. Tuned'
    BY <1>5, <1>6, <1>8 DEF Talk, Tuned, serverVars, Form, FormOf
  <2>4. Agreed' /\ AuthType'  BY <1>5, <1>6, <1>8 DEF Talk, Agreed, AuthType, serverVars
  <2> QED  BY <2>2, <2>3, <2>4 DEF Talk
<1>9. CASE a.plugin \in opts.list /\ Prove(a.plugin)
  BY <1>5, <1>6, <1>9, ProveTalk
<1>10. CASE a.done /\ Prove("")
  BY <1>5, <1>6, <1>10, ProveTalk
<1> QED  BY <1>7, <1>8, <1>9, <1>10 DEF ReadAcceptData

LEMMA ReadContAuthTalk == IInv /\ Separate /\ Talk /\ ReadContAuth => Talk'
<1> SUFFICES ASSUME IInv, Separate, Talk, ReadContAuth PROVE Talk'
  OBVIOUS
<1>1. PICK ops : Hears("cont_auth", ops)  BY DEF ReadContAuth
<1>2. UNCHANGED <<opts, serverVars, dead>>  BY <1>1 DEF Hears
<1>3. CASE Fail
  <2>1. pc' = "failed" /\ UNCHANGED <<toServer, cipher, key>>  BY <1>3 DEF Fail, driverVars
  <2> QED  BY <1>1, <1>2, <2>1, FailTalk DEF Talk, Tuned, AuthType
<1>4. CASE Hears("cont_auth", {"cont_auth"}) /\ Prove(plugin)
  <2>1. toServer = <<>> /\ toDriver' = <<>> /\ Answer(1)  BY <1>4, HearsAnswer
  <2>2. pc = "cont_auth" /\ toDriver[1].form = Form  BY <1>4, HearsOne
  <2>3. srvForm = Form  BY <2>1, <2>2 DEF Answer
  <2>4. /\ opcode = srvAuth.by /\ cipher = "" /\ srvForm.cipher = "" /\ ~srvAuth.key
        /\ plugin = srvAuth.plugin /\ plugin \in opts.list
    BY <2>2 DEF Talk, Tuned, Agreed
  <2> QED  BY <1>2, <1>4, <2>1, <2>3, <2>4, ProveTalk
<1>5. CASE Hears("cont_auth", {"response"}) /\ Attach("", zip, cipher) /\ UNCHANGED driverVars
  <2>1. toServer = <<>> /\ toDriver' = <<>> /\ Answer(1)  BY <1>5, HearsAnswer
  <2>2. pc = "cont_auth" /\ toDriver[1].form = Form  BY <1>5, HearsOne
  <2>3. srvForm = Form  BY <2>1, <2>2 DEF Answer
  <2>4. cipher = "" /\ ~srvAuth.key /\ zip' = zip /\ cipher' = cipher
    BY <1>5, <2>2 DEF Talk, Tuned, Agreed, driverVars
  <2>5. Best'  BY <1>2, <2>4 DEF Best, serverVars
  <2>6. zip \in {FALSE, opts.compress}  BY OptsType DEF IInv, DataType, Places
  <2>7. Attach("", zip, cipher') /\ srvForm = FormOf(zip, cipher')
    BY <1>5, <2>3, <2>4 DEF Form
  <2> QED  BY <1>2, <2>1, <2>4, <2>5, <2>6, <2>7, AttachTalk
<1> QED  BY <1>3, <1>4, <1>5 DEF ReadContAuth

\* An op_dummy has been read over, or what the server has said stays.
LEMMA AnswerMoved ==
    ASSUME UNCHANGED <<pc, opts, srvForm, srvAuth>>, srv = "attached" => srv' = srv,
           NEW i, NEW j, toDriver'[i] = toDriver[j],
           j = Len(toDriver) => i = Len(toDriver'), Answer(j)
    PROVE  Answer(i)'
  BY DEF Answer

LEMMA SkipDummyTalk == IInv /\ Talk /\ SkipDummy => Talk'
<1> SUFFICES ASSUME IInv, Talk, SkipDummy PROVE Talk'
  OBVIOUS
<1>1. PICK p \in {"verdict", "ack", "attach"} : Hears(p, {"dummy"})  BY DEF SkipDummy
<1>2. UNCHANGED <<pc, toServer, driverVars>>  BY DEF SkipDummy
<1>3. /\ pc = p /\ toDriver # <<>>
      /\ \A i \in 1..Len(toDriver') :
            i + 1 \in 1..Len(toDriver) /\ toDriver'[i] = toDriver[i + 1]
      /\ UNCHANGED <<opts, srv, srvForm, srvAuth, dead>>
  BY <1>1, HearsOne
<1>4. Len(toDriver') = Len(toDriver) - 1 /\ Len(toDriver) \in Nat  BY <1>1, HearsOne
<1>5. Asked'
  <2>1. toServer # <<>> => toServer[1].op # "crypt"  BY <1>3 DEF Talk, Asked
  <2> QED  BY <1>2, <1>3, <2>1 DEF Talk, Asked, Awaits
<1>6. Answered'
  <2>1. SUFFICES ASSUME toServer = <<>> PROVE (\A i \in 1..Len(toDriver) : Answer(i))'
    BY <1>2, <1>3 DEF Answered
  <2>2. \A i \in 1..Len(toDriver) : Answer(i)  BY <1>3, <2>1 DEF Talk, Answered
  <2>3. SUFFICES ASSUME NEW i \in 1..Len(toDriver') PROVE Answer(i)'
    OBVIOUS
  <2>4. Answer(i + 1) /\ toDriver'[i] = toDriver[i + 1]  BY <1>3, <2>2
  <2>5. i + 1 = Len(toDriver) => i = Len(toDriver')  BY ONLY <1>4, i \in 1..Len(toDriver')
  <2>6. UNCHANGED <<pc, opts, srvForm, srvAuth>> /\ srv' = srv  BY <1>2, <1>3
  <2> QED  BY <2>4, <2>5, <2>6, AnswerMoved
<1>7. Tuned'
  BY <1>2, <1>3 DEF Talk, Tuned, Lost, Form, driverVars
<1>8. Agreed'
  <2>1. Best => Best'  BY <1>2, <1>3, SameBest DEF driverVars
  <2> QED  BY <1>2, <1>3, <2>1 DEF Talk, Agreed, driverVars
<1>9. AuthType' /\ Careful'
  BY <1>2, <1>3, SameCareful DEF Talk, AuthType
<1> QED  BY <1>5, <1>6, <1>7, <1>8, <1>9 DEF Talk

LEMMA ResponseTalk ==
    IInv /\ Separate /\ Talk /\ (Refused \/ ReadVerdict \/ ReadAck \/ ReadAttach \/ ReadFails) => Talk'
<1> SUFFICES ASSUME IInv, Separate, Talk,
                    Refused \/ ReadVerdict \/ ReadAck \/ ReadAttach \/ ReadFails
             PROVE  Talk'
  OBVIOUS
<1>1. CASE Refused \/ ReadFails
  <2>1. toDriver' \in {toDriver, <<>>} \/ \E p, ops : Hears(p, ops)
    BY <1>1 DEF Refused, ReadFails
  <2>2. UNCHANGED <<opts, serverVars, dead>>
    BY <1>1 DEF Refused, ReadFails, Hears
  <2>3. pc' = "failed" /\ UNCHANGED <<toServer, cipher, key>>
    BY <1>1 DEF Refused, ReadFails, Fail, driverVars
  <2> QED  BY <2>1, <2>2, <2>3, FailTalk DEF Talk, Tuned
<1>2. CASE ReadVerdict
  <2>1. Hears("verdict", {"response"})  BY <1>2 DEF ReadVerdict
  <2>2. toServer = <<>> /\ toDriver' = <<>> /\ Answer(1)  BY <2>1, HearsAnswer
  <2>3. /\ pc = "verdict" /\ toDriver[1].op = "response" /\ toDriver[1].form = Form
        /\ Head(toDriver) = toDriver[1]
        /\ UNCHANGED <<opts, serverVars, dead>>
    BY <2>1, HearsOne DEF serverVars
  <2>4. /\ Head(toDriver).arg = srvAuth.offer /\ (srvAuth.key <=> IsSrp(srvAuth.plugin))
        /\ srvForm = Form
    BY <2>2, <2>3 DEF Answer
  <2>5. Conclude(plugin, zip, key, Guess(srvAuth.offer), srvAuth.offer) /\ opcode' = opcode
    BY <1>2, <2>4 DEF ReadVerdict
  <2>6. /\ zip \in {FALSE, opts.compress} /\ srvForm.zip = zip
        /\ cipher = "" /\ srvForm.cipher = "" /\ opcode = srvAuth.by
        /\ plugin # "" => plugin \in opts.list /\ plugin = srvAuth.plugin
    BY <2>3, <2>4, OptsType DEF IInv, DataType, Places, Talk, Tuned, Agreed, Form, FormOf
  <2>7. key <=> srvAuth.key  BY <2>3, <2>4 DEF Talk, Agreed
  <2> QED  BY <2>2, <2>3, <2>5, <2>6, <2>7, ConcludeTalk
<1>3. CASE ReadAck
  <2>1. Hears("ack", {"response"})  BY <1>3 DEF ReadAck
  <2>2. toServer = <<>> /\ toDriver' = <<>> /\ Answer(1)  BY <2>1, HearsAnswer
  <2>3. /\ pc = "ack" /\ toDriver[1].form = Form
        /\ UNCHANGED <<opts, serverVars, dead>>
    BY <2>1, HearsOne DEF serverVars
  <2>4. srvForm = Form  BY <2>2, <2>3 DEF Answer
  <2>5. Attach("", zip, cipher) /\ UNCHANGED <<zip, cipher, key>>  BY <1>3 DEF ReadAck, driverVars
  <2>6. Best /\ key /\ srvAuth.key /\ opts.mode # "disabled"  BY <2>3 DEF Talk, Agreed, Tuned
  <2>7. Best'  BY <2>3, <2>5, <2>6, SameBest DEF serverVars
  <2>8. Attach("", zip, cipher') /\ srvForm = FormOf(zip, cipher')  BY <2>4, <2>5 DEF Form
  <2>9. zip \in {FALSE, opts.compress}  BY OptsType DEF IInv, DataType, Places
  <2> QED  BY <2>2, <2>3, <2>5, <2>6, <2>7, <2>8, <2>9, AttachTalk
<1>4. CASE ReadAttach
  <2>1. Hears("attach", {"response"})  BY <1>4 DEF ReadAttach
  <2>2. toServer = <<>> /\ toDriver' = <<>> /\ Answer(1)  BY <2>1, HearsAnswer
  <2>3. /\ pc = "attach" /\ toDriver[1].op = "response" /\ toDriver[1].form = Form
        /\ UNCHANGED <<opts, srv, srvForm, srvAuth, dead>>
    BY <2>1, HearsOne
  <2>4. srvForm = Form /\ srv = "attached" /\ opts.right  BY <2>2, <2>3 DEF Answer
  <2>5. pc' = "open" /\ UNCHANGED <<toServer, driverVars>>  BY <1>4 DEF ReadAttach
  <2>6. Asked' /\ Careful' /\ Answered'
    BY <2>2, <2>5, NoPacket, NothingAskedNext DEF Asked, Answered
  <2>7. Tuned'  BY <2>3, <2>5 DEF Talk, Tuned, driverVars
  <2>8. Best => Best'  BY <2>3, <2>5, SameBest DEF driverVars
  <2>9. Agreed'
    BY <2>3, <2>4, <2>5, <2>8 DEF Talk, Agreed, Form, driverVars
  <2>10. AuthType'  BY <2>3 DEF Talk, AuthType
  <2> QED  BY <2>6, <2>7, <2>9, <2>10 DEF Talk
<1> QED  BY <1>1, <1>2, <1>3, <1>4

-----------------------------------------------------------------------------
(* The server's steps, and the network's.                                     *)

\* The request that is served, and what may have been sent before the answer.
LEMMA ServesOne ==
    ASSUME IInv, Talk, NEW p, NEW op, Serves(p, op)
    PROVE  /\ toServer # <<>> /\ toServer' = <<>> /\ ~dead /\ srv = p
           /\ Head(toServer) = toServer[1] /\ toServer[1].op = op /\ Awaits(op)
           /\ \A i \in 1..Len(toDriver) :
                 toDriver[i].op = "dummy" /\ toDriver[i].form = srvForm
           /\ op = "crypt" => toDriver = <<>>
           /\ UNCHANGED <<opts, pc, driverVars, dead, dummies>>
<1>1. /\ toServer # <<>> /\ toServer' = Tail(toServer) /\ ~dead /\ srv = p /\ Head(toServer).op = op
      /\ UNCHANGED <<opts, pc, driverVars, dead, dummies>>
  BY DEF Serves
<1>2. toServer \in Seq(ToServer)  BY DEF IInv, DataType
<1>3. Len(toServer) = 1  BY <1>1 DEF Talk, Asked
<1>4. Head(toServer) = toServer[1] /\ toServer' = <<>>  BY <1>1, <1>2, <1>3
<1> QED  BY <1>1, <1>4 DEF Talk, Asked

\* What is on its way once the server has sent ps.
LEMMA Replied ==
    ASSUME IInv, NEW S, NEW ps \in Seq(S), Reply(ps)
    PROVE  /\ Len(toDriver) \in Nat /\ Len(toDriver') = Len(toDriver) + Len(ps)
           /\ \A i \in 1..Len(toDriver) : toDriver'[i] = toDriver[i]
           /\ \A i \in 1..Len(ps) : toDriver'[Len(toDriver) + i] = ps[i]
<1>1. toDriver \in Seq(ToDriver) /\ toDriver' = toDriver \o ps  BY DEF Reply, IInv, DataType
<1>2. toDriver \in Seq(ToDriver \cup S) /\ ps \in Seq(ToDriver \cup S)  BY <1>1
<1>3. Len(toDriver) \in Nat  BY <1>1
<1>4. Len(toDriver') = Len(toDriver) + Len(ps)  BY <1>1, <1>2
<1>5. \A i \in 1..Len(toDriver) : toDriver'[i] = toDriver[i]  BY <1>1, <1>2
<1>6. \A i \in 1..Len(ps) : toDriver'[Len(toDriver) + i] = ps[i]
  <2>1. Len(ps) \in Nat  OBVIOUS
  <2> QED  BY <1>1, <1>2, <1>3, <2>1
<1> QED  BY <1>3, <1>4, <1>5, <1>6

LEMMA RepliedOne ==
    ASSUME IInv, NEW q, Reply(<<q>>)
    PROVE  /\ Len(toDriver) \in Nat /\ Len(toDriver') = Len(toDriver) + 1
           /\ \A i \in 1..Len(toDriver) : toDriver'[i] = toDriver[i]
           /\ toDriver'[Len(toDriver) + 1] = q
<1>1. <<q>> \in Seq({q})  OBVIOUS
<1>2. Len(<<q>>) = 1 /\ <<q>>[1] = q  BY OnePacket
<1>3. 1 \in 1..Len(<<q>>)  BY <1>2
<1>4. toDriver'[Len(toDriver) + 1] = <<q>>[1]  BY <1>1, <1>3, Replied
<1> QED  BY <1>1, <1>2, <1>4, Replied

\* The answer to a request that is not op_connect.
LEMMA AnswerTalk ==
    ASSUME IInv, Talk, NEW p, NEW op \in {"public", "proof", "crypt", "attach"}, Serves(p, op),
           NEW q, Reply(<<q>>), q.form = srvForm', srvForm' = srvForm \/ op = "crypt",
           q.op = "response" /\ op = "proof" =>
              q.arg = srvAuth'.offer /\ (srvAuth'.key <=> IsSrp(srvAuth'.plugin)),
           q.op = "response" /\ op = "attach" => srv' = "attached" /\ opts.right,
           q.op = "response" /\ op = "public" => "answers" \in opts.server
    PROVE  Asked' /\ Careful' /\ Answered'
<1>1. /\ toServer' = <<>> /\ Awaits(op) /\ UNCHANGED <<opts, pc>>
      /\ \A i \in 1..Len(toDriver) : toDriver[i].op = "dummy" /\ toDriver[i].form = srvForm
      /\ op = "crypt" => toDriver = <<>>
  BY ServesOne
<1>2. /\ Len(toDriver) \in Nat /\ Len(toDriver') = Len(toDriver) + 1
      /\ \A i \in 1..Len(toDriver) : toDriver'[i] = toDriver[i]
      /\ toDriver'[Len(toDriver) + 1] = q
  BY RepliedOne
<1>3. Asked' /\ Careful'  BY <1>1, NoPacket, NothingAskedNext DEF Asked
<1>4. (\A i \in 1..Len(toDriver) : Answer(i))' \/ pc = "failed"
  <2>1. SUFFICES ASSUME NEW i \in 1..Len(toDriver'), pc # "failed" PROVE Answer(i)'
    OBVIOUS
  <2>2. CASE i \in 1..Len(toDriver)
    <3>1. toDriver # <<>>  BY <2>2, NoPacket
    <3>2. toDriver'[i].op = "dummy" /\ toDriver'[i].form = srvForm'  BY <1>1, <1>2, <2>2, <3>1
    <3> QED  BY <3>2 DEF Answer
  <2>3. CASE i \notin 1..Len(toDriver)
    <3>1. i = Len(toDriver) + 1  BY <1>2, <2>3
    <3>2. toDriver'[i] = q /\ i = Len(toDriver')  BY <1>2, <3>1
    <3>3. pc' = "verdict" => op = "proof"  BY <1>1, <2>1 DEF Awaits
    <3>4. pc' = "attach" => op = "attach"  BY <1>1, <2>1 DEF Awaits
    <3>5. pc' = "cont_auth" => op = "public"  BY <1>1, <2>1 DEF Awaits
    <3> QED  BY <1>1, <3>2, <3>3, <3>4, <3>5 DEF Answer
  <2> QED  BY <2>2, <2>3
<1>5. Answered'  BY <1>1, <1>4 DEF Answered, Awaits
<1> QED  BY <1>3, <1>5

\* What else the server keeps, where it stays in its form.
LEMMA ServeTalk ==
    ASSUME IInv, Talk, NEW p, NEW op \in {"public", "proof", "attach"}, Serves(p, op),
           Asked', Careful', Answered', srvForm' = srvForm,
           srvAuth' = srvAuth \/ (op = "proof" /\ AuthType' /\ srvAuth'.by = srvAuth.by
                                  /\ srvAuth'.plugin = srvAuth.plugin)
    PROVE  Talk'
<1>1. /\ toServer' = <<>> /\ ~dead /\ Awaits(op) /\ UNCHANGED <<opts, pc, driverVars, dead>>
  BY ServesOne
<1>2. pc \in {"failed", "cont_auth", "verdict", "attach"}  BY <1>1 DEF Awaits
<1>3. Tuned'
  BY <1>1, <1>2 DEF Talk, Tuned, Lost, Form, driverVars
<1>4. AuthType'  BY DEF Talk, AuthType
<1>5. Agreed'
  <2>1. CASE srvAuth' = srvAuth
    <3>1. Best => Best'  BY <1>1, <2>1, SameBest DEF driverVars
    <3> QED  BY <1>1, <1>2, <2>1, <3>1 DEF Talk, Agreed, driverVars
  <2>2. CASE op = "proof" /\ srvAuth'.by = srvAuth.by /\ srvAuth'.plugin = srvAuth.plugin
    <3>1. pc \in {"failed", "verdict"}  BY <1>1, <2>2 DEF Awaits
    <3> QED  BY <1>1, <2>2, <3>1 DEF Talk, Agreed, driverVars
  <2> QED  BY <2>1, <2>2
<1> QED  BY <1>3, <1>4, <1>5 DEF Talk

LEMMA ServeRefuses ==
    ASSUME IInv, Talk, NEW p, NEW op \in {"public", "proof", "attach"}, Serves(p, op),
           NEW ops \in SUBSET {"error", "other"}, RefuseWith(ops)
    PROVE  Talk'
<1>1. PICK o \in ops : Reply(<<Packet(o, "", srvForm)>>)  BY DEF RefuseWith
<1>2. srvForm' = srvForm /\ srvAuth' = srvAuth  BY DEF RefuseWith
<1>3. PICK q : q = Packet(o, "", srvForm)  OBVIOUS
<1>4. q.op = o /\ q.form = srvForm' /\ Reply(<<q>>)
  <2>1. q.op = o /\ q.form = srvForm  BY <1>3 DEF Packet
  <2> QED  BY <1>1, <1>2, <1>3, <2>1
<1>5. Asked' /\ Careful' /\ Answered'  BY <1>2, <1>4, AnswerTalk
<1> QED  BY <1>2, <1>5, ServeTalk

LEMMA SrpType == \A name : IsSrp(name) \in BOOLEAN
<1> TAKE name
<1>1. CASE name \in {"Srp256", "Srp"}
  <2>1. IsSrp(name) = TRUE  BY <1>1 DEF IsSrp
  <2> QED  BY <2>1
<1>2. CASE name \notin {"Srp256", "Srp"}
  <2>1. IsSrp(name) = FALSE  BY <1>2 DEF IsSrp
  <2> QED  BY <2>1
<1> QED  BY <1>1, <1>2

LEMMA ServePublicTalk == IInv /\ Talk /\ ServePublic => Talk'
<1> SUFFICES ASSUME IInv, Talk, ServePublic PROVE Talk'
  OBVIOUS
<1>1. Serves("public", "public")  BY DEF ServePublic
<1>2. CASE RefuseWith({"error", "other"})  BY <1>1, <1>2, ServeRefuses
<1>3. CASE Reply(<<Packet("cont_auth", "", srvForm)>>) /\ UNCHANGED <<srvForm, srvAuth>>
  <2>1. PICK q : q = Packet("cont_auth", "", srvForm)  OBVIOUS
  <2>2. q.op = "cont_auth" /\ q.form = srvForm' /\ Reply(<<q>>)
    <3>1. q.op = "cont_auth" /\ q.form = srvForm  BY <2>1 DEF Packet
    <3> QED  BY <1>3, <2>1, <3>1
  <2>3. Asked' /\ Careful' /\ Answered'  BY <1>1, <1>3, <2>2, AnswerTalk
  <2> QED  BY <1>1, <1>3, <2>3, ServeTalk
<1>4. CASE AnswerClean
  <2>1. PICK q : q = Packet("response", "", srvForm)  OBVIOUS
  <2>2. /\ q.op = "response" /\ q.form = srvForm' /\ Reply(<<q>>)
        /\ "answers" \in opts.server /\ UNCHANGED <<srvForm, srvAuth>>
    <3>1. q.op = "response" /\ q.form = srvForm  BY <2>1 DEF Packet
    <3> QED  BY <1>4, <2>1, <3>1 DEF AnswerClean
  <2>3. Asked' /\ Careful' /\ Answered'  BY <1>1, <2>2, AnswerTalk
  <2> QED  BY <1>1, <2>2, <2>3, ServeTalk
<1> QED  BY <1>2, <1>3, <1>4 DEF ServePublic

LEMMA ServeProofTalk == IInv /\ Talk /\ ServeProof => Talk'
<1> SUFFICES ASSUME IInv, Talk, ServeProof PROVE Talk'
  OBVIOUS
<1>1. Serves("proof", "proof")  BY DEF ServeProof
<1>2. CASE RefuseWith({"error"})  BY <1>1, <1>2, ServeRefuses
<1>3. CASE ~RefuseWith({"error"})
  <2>1. PICK o \in Offers :
           /\ Reply(<<Packet("response", o, srvForm)>>)
           /\ srvAuth' = [srvAuth EXCEPT !.done = TRUE, !.key = IsSrp(srvAuth.plugin), !.offer = o]
    BY <1>3 DEF ServeProof
  <2>2. srvForm' = srvForm  BY <1>3 DEF ServeProof
  <2>3. PICK q : q = Packet("response", o, srvForm)  OBVIOUS
  <2>4. q.op = "response" /\ q.arg = o /\ q.form = srvForm' /\ Reply(<<q>>)
    <3>1. q.op = "response" /\ q.arg = o /\ q.form = srvForm  BY <2>3 DEF Packet
    <3> QED  BY <2>1, <2>2, <2>3, <3>1
  <2>5. AuthType' /\ srvAuth'.by = srvAuth.by /\ srvAuth'.plugin = srvAuth.plugin
        /\ srvAuth'.offer = o /\ srvAuth'.key = IsSrp(srvAuth.plugin)
    BY <2>1, SrpType DEF Talk, AuthType
  <2>6. Asked' /\ Careful' /\ Answered'  BY <1>1, <2>2, <2>4, <2>5, AnswerTalk
  <2> QED  BY <1>1, <2>2, <2>5, <2>6, ServeTalk
<1> QED  BY <1>2, <1>3

LEMMA ServeCryptTalk == IInv /\ Talk /\ ServeCrypt => Talk'
<1> SUFFICES ASSUME IInv, Talk, ServeCrypt PROVE Talk'
  OBVIOUS
<1>1. Serves("request", "crypt")  BY DEF ServeCrypt
<1>2. /\ srvForm' = [srvForm EXCEPT !.cipher = Head(toServer).arg]
      /\ Reply(<<Packet("response", "", srvForm')>>) /\ UNCHANGED <<srv, srvAuth>>
  BY DEF ServeCrypt
<1>3. /\ toServer' = <<>> /\ ~dead /\ Awaits("crypt") /\ UNCHANGED <<opts, pc, driverVars, dead>>
      /\ toServer # <<>> /\ Head(toServer) = toServer[1]
  BY <1>1, ServesOne
<1>4. pc \in {"failed", "ack"}  BY <1>3 DEF Awaits
<1>5. PICK f : f = srvForm'  OBVIOUS
<1>6. PICK q : q = Packet("response", "", f)  OBVIOUS
<1>7. q.op = "response" /\ q.form = srvForm' /\ Reply(<<q>>)
  <2>1. Reply(<<q>>)  BY <1>2, <1>5, <1>6
  <2>2. q.op = "response" /\ q.form = f  BY <1>6 DEF Packet
  <2> QED  BY <1>5, <2>1, <2>2
<1>8. Asked' /\ Careful' /\ Answered'  BY <1>1, <1>7, AnswerTalk
<1>9. Tuned'
  <2>1. srvForm \in Forms  BY DEF IInv, DataType
  <2>2. srvForm'.zip = srvForm.zip  BY <1>2, <2>1 DEF Forms
  <2>3. CASE pc = "failed"  BY <1>3, <2>2, <2>3 DEF Talk, Tuned, driverVars
  <2>4. CASE pc = "ack"
    <3>1. zip = FALSE /\ srvForm = Plain /\ toServer[1].arg = cipher /\ cipher # ""
      BY <1>3, <2>4 DEF Talk, Tuned, IInv, DataType
    <3>2. srvForm' = Form'  BY <1>2, <1>3, <3>1 DEF Plain, FormOf, Form, driverVars
    <3> QED  BY <1>3, <2>2, <2>4, <3>1, <3>2 DEF Talk, Tuned, driverVars
  <2> QED  BY <1>4, <2>3, <2>4
<1>10. Best => Best'  BY <1>2, <1>3, SameBest DEF driverVars
<1>11. Agreed' /\ AuthType'
  BY <1>2, <1>3, <1>4, <1>10 DEF Talk, Agreed, AuthType, driverVars
<1> QED  BY <1>8, <1>9, <1>11 DEF Talk

LEMMA ServeAttachTalk == IInv /\ Talk /\ ServeAttach => Talk'
<1> SUFFICES ASSUME IInv, Talk, ServeAttach PROVE Talk'
  OBVIOUS
<1>1. Serves("request", "attach")  BY DEF ServeAttach
<1>2. CASE RefuseWith({"error", "other"})  BY <1>1, <1>2, ServeRefuses
<1>3. CASE /\ opts.right /\ Reply(<<Packet("response", "", srvForm)>>)
           /\ srv' = "attached" /\ UNCHANGED <<srvForm, srvAuth>>
  <2>1. PICK q : q = Packet("response", "", srvForm)  OBVIOUS
  <2>2. q.op = "response" /\ q.form = srvForm' /\ Reply(<<q>>)
    <3>1. q.op = "response" /\ q.form = srvForm  BY <2>1 DEF Packet
    <3> QED  BY <1>3, <2>1, <3>1
  <2>3. Asked' /\ Careful' /\ Answered'  BY <1>1, <1>3, <2>2, AnswerTalk
  <2> QED  BY <1>1, <1>3, <2>3, ServeTalk
<1> QED  BY <1>2, <1>3 DEF ServeAttach

\* What the server has sent in answer to op_connect, the op_dummy before it
\* included, is an opening.
LEMMA Opens ==
    ASSUME IInv, NEW S, NEW ps \in Seq(S), Reply(ps), NEW n \in Nat, n = Len(toDriver),
           \A i \in 1..Len(toDriver) : toDriver[i].op = "dummy" /\ toDriver[i].form = Plain,
           \/ Len(ps) = 1 /\ Final(ps[1])' /\ ps[1].form = Plain
           \/ \A k \in 1..Len(ps) : Acceptance(k, n + k)'
    PROVE  Opening(n)'
<1>1. /\ Len(toDriver) \in Nat /\ Len(toDriver') = Len(toDriver) + Len(ps) /\ Len(ps) \in Nat
      /\ \A i \in 1..Len(toDriver) : toDriver'[i] = toDriver[i]
      /\ \A i \in 1..Len(ps) : toDriver'[Len(toDriver) + i] = ps[i]
  BY Replied
<1>2. \A i \in 1..n : toDriver'[i].op = "dummy" /\ toDriver'[i].form = Plain  BY <1>1
<1>3. \A i \in 1..Len(toDriver') : i \in 1..n \/ (i - n \in 1..Len(ps) /\ i > n /\ i = n + (i - n))
  BY <1>1
<1>4. CASE Len(ps) = 1 /\ Final(ps[1])' /\ ps[1].form = Plain
  <2>1. 1 \in 1..Len(ps)  BY <1>4
  <2>2. toDriver'[n + 1] = ps[1]  BY <1>1, <2>1
  <2>3. \A i \in 1..Len(toDriver') : i \in 1..n \/ (i = n + 1 /\ i = Len(toDriver'))
    BY <1>1, <1>4
  <2>4. SUFFICES ASSUME NEW i \in 1..Len(toDriver')
        PROVE  \/ i <= n /\ toDriver'[i].op = "dummy" /\ toDriver'[i].form = Plain
               \/ /\ i = n + 1 /\ i = Len(toDriver')
                  /\ Final(toDriver[i])' /\ toDriver'[i].form = Plain
    BY DEF Opening, Plain, FormOf
  <2> QED  BY <1>2, <1>4, <2>2, <2>3
<1>5. CASE \A k \in 1..Len(ps) : Acceptance(k, n + k)'
  <2>1. SUFFICES ASSUME NEW i \in 1..Len(toDriver')
        PROVE  \/ i <= n /\ toDriver'[i].op = "dummy" /\ toDriver'[i].form = Plain
               \/ i > n /\ Acceptance(i - n, i)'
    BY DEF Opening, Plain, FormOf
  <2>2. CASE i \in 1..n  BY <1>2, <2>2
  <2>3. CASE i \notin 1..n
    <3>1. i - n \in 1..Len(ps) /\ i > n /\ n + (i - n) = i  BY <1>3, <2>3
    <3>2. Acceptance(i - n, n + (i - n))'  BY <1>5, <3>1
    <3> QED  BY <3>1, <3>2
  <2> QED  BY <2>2, <2>3
<1> QED  BY <1>4, <1>5

LEMMA ServeConnectTalk == IInv /\ Talk /\ ServeConnect => Talk'
<1> SUFFICES ASSUME IInv, Talk, ServeConnect PROVE Talk'
  OBVIOUS
<1>1. Serves("connect", "connect")  BY DEF ServeConnect
<1>2. /\ toServer # <<>> /\ toServer' = <<>> /\ ~dead /\ Awaits("connect")
      /\ \A i \in 1..Len(toDriver) : toDriver[i].op = "dummy" /\ toDriver[i].form = srvForm
      /\ UNCHANGED <<opts, pc, driverVars, dead>>
  BY <1>1, ServesOne
<1>3. pc \in {"failed", "opcode"}  BY <1>2 DEF Awaits
<1>4. srvForm \in Forms /\ opts.compress \in BOOLEAN  BY OptsType DEF IInv, DataType
<1>5. pc = "opcode" => srvForm = Plain
  <2>1. ASSUME pc = "opcode" PROVE srvForm.zip = FALSE /\ srvForm.cipher = ""
    BY <1>2, <1>4, <2>1 DEF Talk, Tuned, Forms
  <2> QED  BY <2>1, PlainForm DEF Plain
<1>6. PICK n \in Nat : n = Len(toDriver)  BY Lengths
<1>7. Asked' /\ Careful'  BY <1>2, NothingAskedNext DEF Asked
<1>8. ASSUME srvForm' \in Forms, srvForm'.zip => opts.compress, srvForm'.cipher = srvForm.cipher,
             AuthType', srvAuth'.key = srvAuth.key,
             pc = "opcode" => Opening(n)'
      PROVE  Talk'
  <2>1. Answered'  BY <1>2, <1>3, <1>8 DEF Answered
  <2>2. Tuned'  BY <1>2, <1>3, <1>8 DEF Talk, Tuned, driverVars
  <2>3. Agreed'  BY <1>2, <1>3, <1>8 DEF Talk, Agreed, driverVars
  <2> QED  BY <1>7, <1>8, <2>1, <2>2, <2>3 DEF Talk
<1>9. CASE RefuseWith({"reject", "error"})
  <2>1. PICK o \in {"reject", "error"} : Reply(<<Packet(o, "", srvForm)>>)  BY <1>9 DEF RefuseWith
  <2>2. UNCHANGED <<srvForm, srvAuth>>  BY <1>9 DEF RefuseWith
  <2>3. PICK q : q = Packet(o, "", srvForm)  OBVIOUS
  <2>4. q.op = o /\ q.form = srvForm  BY <2>3 DEF Packet
  <2>5. Reply(<<q>>) /\ <<q>> \in Seq({q}) /\ Len(<<q>>) = 1 /\ <<q>>[1] = q
    <3>1. Reply(<<q>>)  BY <2>1, <2>3
    <3>2. <<q>> \in Seq({q})  OBVIOUS
    <3> QED  BY <3>1, <3>2, OnePacket
  <2>6. PICK ps \in Seq({q}) : Reply(ps) /\ Len(ps) = 1 /\ ps[1] = q  BY <2>5
  <2>10. Final(q)'  BY <2>4 DEF Final
  <2>7. pc = "opcode" => Opening(n)'
    BY <1>2, <1>5, <2>4, <1>6, <2>6, <2>10, Opens
  <2>8. AuthType'  BY <2>2 DEF Talk, AuthType
  <2>9. srvForm.zip => opts.compress  BY DEF Talk, Tuned
  <2> QED  BY <1>4, <1>8, <2>2, <2>7, <2>8, <2>9
<1>11. CASE AnswerClean
  <2>2. UNCHANGED <<srvForm, srvAuth>> /\ "answers" \in opts.server  BY <1>11 DEF AnswerClean
  <2>3. PICK q : q = Packet("response", "", srvForm)  OBVIOUS
  <2>4. q.op = "response" /\ q.form = srvForm  BY <2>3 DEF Packet
  <2>5. Reply(<<q>>) /\ <<q>> \in Seq({q}) /\ Len(<<q>>) = 1 /\ <<q>>[1] = q
    <3>1. Reply(<<q>>)  BY <1>11, <2>3 DEF AnswerClean
    <3>2. <<q>> \in Seq({q})  OBVIOUS
    <3> QED  BY <3>1, <3>2, OnePacket
  <2>6. PICK ps \in Seq({q}) : Reply(ps) /\ Len(ps) = 1 /\ ps[1] = q  BY <2>5
  <2>7. pc = "opcode" => Opening(n)'
    <3>1. ASSUME pc = "opcode" PROVE Final(q)'
      BY <1>2, <1>5, <2>2, <2>4, <3>1 DEF Final, Plain, FormOf
    <3> QED  BY <1>2, <1>5, <2>4, <1>6, <2>6, <3>1, Opens
  <2>8. AuthType'  BY <2>2 DEF Talk, AuthType
  <2>9. srvForm.zip => opts.compress  BY DEF Talk, Tuned
  <2> QED  BY <1>4, <1>8, <2>2, <2>7, <2>8, <2>9
<1>10. CASE ~RefuseWith({"reject", "error"}) /\ ~AnswerClean
  <2>1. PICK z \in {FALSE, opts.compress} :
           srvForm' = [srvForm EXCEPT !.zip = z] /\ (AcceptPlain(z) \/ AcceptWith(z, Head(toServer).arg))
    BY <1>10 DEF ServeConnect
  <2>2. /\ srvForm' \in Forms /\ srvForm'.zip = z /\ srvForm'.cipher = srvForm.cipher
        /\ srvForm'.zip => opts.compress
    BY <1>4, <2>1 DEF Forms
  <2>3. PICK h : h = Packet("header", z, srvForm)  OBVIOUS
  <2>4. h.op = "header" /\ h.arg = z /\ h.form = srvForm  BY <2>3 DEF Packet
  <2>5. CASE AcceptPlain(z)
    <3>1. PICK op \in {"accept", "other"} :
             /\ Reply(<<Packet(op, "", srvForm), Packet("header", z, srvForm)>>)
             /\ srvAuth' = [srvAuth EXCEPT !.by = op]
      BY <2>5 DEF AcceptPlain
    <3>2. AuthType' /\ srvAuth'.by = op /\ srvAuth'.key = srvAuth.key
      BY <3>1 DEF Talk, AuthType, Accepts
    <3>3. PICK q : q = Packet(op, "", srvForm)  OBVIOUS
    <3>4. q.op = op /\ q.form = srvForm  BY <3>3 DEF Packet
    <3>5. /\ Reply(<<q, h>>) /\ <<q, h>> \in Seq({q, h})
          /\ Len(<<q, h>>) = 2 /\ <<q, h>>[1] = q /\ <<q, h>>[2] = h
      <4>1. Reply(<<q, h>>)  BY <2>3, <3>1, <3>3
      <4>2. <<q, h>> \in Seq({q, h})  OBVIOUS
      <4> QED  BY <4>1, <4>2
    <3>6. PICK ps \in Seq({q, h}) : Reply(ps) /\ Len(ps) = 2 /\ ps[1] = q /\ ps[2] = h  BY <3>5
    <3>7. ASSUME pc = "opcode" PROVE \A k \in 1..Len(ps) : Acceptance(k, n + k)'
      <4> TAKE k \in 1..Len(ps)
      <4>1. toDriver'[n + k] = ps[k]  BY <1>6, <3>6, Replied
      <4>2. k = 1 \/ k = 2  BY <3>6
      <4>3. q.form = Plain /\ h.form = Plain /\ Plain' = Plain
        BY <1>5, <2>4, <3>4, <3>7 DEF Plain, FormOf
      <4>4. CASE k = 1
        BY <3>2, <3>4, <3>6, <4>1, <4>3, <4>4 DEF Acceptance, Accepts
      <4>5. CASE k = 2
        BY <2>2, <2>4, <3>6, <4>1, <4>3, <4>5 DEF Acceptance
      <4> QED  BY <4>2, <4>4, <4>5
    <3>8. pc = "opcode" => Opening(n)'  BY <1>2, <1>5, <1>6, <3>6, <3>7, Opens
    <3> QED  BY <1>8, <2>2, <3>2, <3>8
  <2>6. CASE AcceptWith(z, Head(toServer).arg)
    <3>1. PICK op \in {"accept_data", "cond_accept"}, name \in Plugins, data \in BOOLEAN, done \in BOOLEAN :
             /\ done => ~IsSrp(name)
             /\ Reply(<<Packet(op, "", srvForm), Packet("header", z, srvForm),
                        Packet("auth_data", [plugin |-> name, data |-> data, done |-> done], srvForm')>>)
             /\ srvAuth' = [srvAuth EXCEPT !.by = op, !.plugin = name, !.done = done]
      BY <2>6, ZenonT(40) DEF AcceptWith
    <3>2. AuthType' /\ srvAuth'.by = op /\ srvAuth'.plugin = name /\ srvAuth'.key = srvAuth.key
      BY <3>1 DEF Talk, AuthType, Accepts
    <3>3. PICK q : q = Packet(op, "", srvForm)  OBVIOUS
    <3>4. q.op = op /\ q.form = srvForm  BY <3>3 DEF Packet
    <3>5. PICK a : a = [plugin |-> name, data |-> data, done |-> done]  OBVIOUS
    <3>6. a.plugin = name /\ (a.done => done)  BY <3>5
    <3>7. PICK f : f = srvForm'  OBVIOUS
    <3>8. PICK b : b = Packet("auth_data", a, f)  OBVIOUS
    <3>9. b.op = "auth_data" /\ b.arg = a /\ b.form = f  BY <3>8 DEF Packet
    <3>10. Reply(<<q, h, b>>)  BY <2>3, <3>1, <3>3, <3>5, <3>7, <3>8
    <3>11. /\ <<q, h, b>> \in Seq({q, h, b}) /\ Len(<<q, h, b>>) = 3
           /\ <<q, h, b>>[1] = q /\ <<q, h, b>>[2] = h /\ <<q, h, b>>[3] = b
      OBVIOUS
    <3>12. PICK ps \in Seq({q, h, b}) :
              Reply(ps) /\ Len(ps) = 3 /\ ps[1] = q /\ ps[2] = h /\ ps[3] = b
      BY <3>10, <3>11
    <3>13. ASSUME pc = "opcode" PROVE \A k \in 1..Len(ps) : Acceptance(k, n + k)'
      <4> TAKE k \in 1..Len(ps)
      <4>1. toDriver'[n + k] = ps[k]  BY <1>6, <3>12, Replied
      <4>2. k = 1 \/ k = 2 \/ k = 3  BY <3>12
      <4>3. q.form = Plain /\ h.form = Plain /\ Plain' = Plain
        BY <1>5, <2>4, <3>4, <3>13 DEF Plain, FormOf
      <4>4. CASE k = 1
        BY <3>2, <3>4, <3>12, <4>1, <4>3, <4>4 DEF Acceptance, Accepts
      <4>5. CASE k = 2
        BY <2>2, <2>4, <3>12, <4>1, <4>3, <4>5 DEF Acceptance
      <4>6. CASE k = 3
        BY <3>1, <3>2, <3>6, <3>7, <3>9, <3>12, <4>1, <4>6 DEF Acceptance
      <4> QED  BY <4>2, <4>4, <4>5, <4>6
    <3>14. pc = "opcode" => Opening(n)'  BY <1>2, <1>5, <1>6, <3>12, <3>13, Opens
    <3> QED  BY <1>8, <2>2, <3>2, <3>14
  <2> QED  BY <2>1, <2>5, <2>6
<1> QED  BY <1>9, <1>10, <1>11

LEMMA DummyTalk == IInv /\ Talk /\ Dummy => Talk'
<1> SUFFICES ASSUME IInv, Talk, Dummy PROVE Talk'
  OBVIOUS
<1>1. /\ toServer # <<>> /\ ~dead /\ Head(toServer).op # "crypt"
      /\ Reply(<<Packet("dummy", "", srvForm)>>)
      /\ UNCHANGED <<opts, pc, driverVars, toServer, srv, srvForm, srvAuth, dead>>
  BY DEF Dummy, serverVars
<1>2. Head(toServer) = toServer[1]
  <2>1. toServer \in Seq(ToServer)  BY DEF IInv, DataType
  <2>2. toServer # <<>>  BY <1>1
  <2> QED  BY <2>1, <2>2
<1>3. PICK q : q = Packet("dummy", "", srvForm)  OBVIOUS
<1>4. q.op = "dummy" /\ q.form = srvForm  BY <1>3 DEF Packet
<1>5. Reply(<<q>>)  BY <1>1, <1>3
<1>6. /\ Len(toDriver) \in Nat /\ Len(toDriver') = Len(toDriver) + 1
      /\ \A i \in 1..Len(toDriver) : toDriver'[i] = toDriver[i]
      /\ toDriver'[Len(toDriver) + 1] = q
  BY <1>5, RepliedOne
<1>7. \A i \in 1..Len(toDriver') : toDriver'[i].op = "dummy" /\ toDriver'[i].form = srvForm
  <2> TAKE i \in 1..Len(toDriver')
  <2>1. CASE i \in 1..Len(toDriver)
    BY <1>1, <1>6, <2>1 DEF Talk, Asked
  <2>2. CASE i \notin 1..Len(toDriver)
    <3>1. i = Len(toDriver) + 1  BY <1>6, <2>2
    <3> QED  BY <1>4, <1>6, <3>1
  <2> QED  BY <2>1, <2>2
<1>8. Len(toServer) = 1 /\ toServer[1].form = srvForm /\ Awaits(toServer[1].op)
  BY <1>1 DEF Talk, Asked
<1>9. Asked'
  <2>1. /\ toServer' = toServer /\ srvForm' = srvForm /\ dead' = dead /\ pc' = pc /\ ~dead
        /\ toServer[1].op # "crypt"
    BY <1>1, <1>2
  <2>2. Awaits(toServer[1].op)'  BY <1>8, <2>1 DEF Awaits
  <2> QED  BY <1>7, <1>8, <2>1, <2>2 DEF Asked
<1>10. pc \notin {"start", "header", "inflate", "auth_data", "ack", "open"}
  BY <1>1, <1>2, <1>8 DEF Awaits
<1>11. Answered'  BY <1>1, <1>10 DEF Answered
<1>12. Tuned'
  BY <1>1, <1>10 DEF Talk, Tuned, Lost, Form, driverVars
<1>13. Best => Best'  BY <1>1, SameBest DEF driverVars
<1>14. Agreed'  BY <1>1, <1>10, <1>13 DEF Talk, Agreed, driverVars
<1>15. AuthType' /\ Careful'  BY <1>1, SameCareful DEF Talk, AuthType
<1> QED  BY <1>9, <1>11, <1>12, <1>14, <1>15 DEF Talk

LEMMA DieTalk == IInv /\ Talk /\ Die => Talk'
<1> SUFFICES ASSUME IInv, Talk, Die PROVE Talk'
  OBVIOUS
<1>1. /\ pc \notin Over /\ dead' = TRUE /\ toServer' = <<>> /\ (srv = "attached" => srv' = srv)
      /\ UNCHANGED <<opts, pc, driverVars, srvForm, srvAuth>>
  BY DEF Die
<1>2. PICK n \in 0..Len(toDriver) : toDriver' = SubSeq(toDriver, 1, n)  BY DEF Die
<1>3. /\ Len(toDriver) \in Nat /\ Len(toDriver') = n
      /\ \A i \in 1..Len(toDriver') : i \in 1..Len(toDriver) /\ toDriver'[i] = toDriver[i]
      /\ \A i \in 1..Len(toDriver') : i = Len(toDriver) => i = Len(toDriver')
  <2>1. toDriver \in Seq(ToDriver)  BY DEF IInv, DataType
  <2> QED  BY <1>2, <2>1
<1>4. toDriver = <<>> => toDriver' = <<>>
  <2>1. toDriver = <<>> => n = 0  BY NoPacket
  <2>2. toDriver' \in Seq(ToDriver)
    <3>1. toDriver \in Seq(ToDriver)  BY DEF IInv, DataType
    <3> QED  BY <1>2, <3>1
  <2> QED  BY <1>3, <2>1, <2>2
<1>5. Asked' /\ Careful'  BY <1>1, NoPacket, NothingAskedNext DEF Asked
<1>6. toServer # <<>> =>
         \A i \in 1..Len(toDriver') : toDriver'[i].op = "dummy" /\ toDriver'[i].form = srvForm
  BY <1>3 DEF Talk, Asked
<1>7. ASSUME pc = "opcode" PROVE \E m \in Nat : Opening(m)'
  <2>1. CASE toServer = <<>>
    <3>1. PICK m \in Nat : Opening(m)  BY <1>7, <2>1 DEF Talk, Answered
    <3>2. Opening(m)'
      <4>1. SUFFICES ASSUME NEW i \in 1..Len(toDriver')
            PROVE  \/ i <= m /\ toDriver'[i].op = "dummy" /\ toDriver'[i].form = Plain
                   \/ /\ i = m + 1 /\ i = Len(toDriver')
                      /\ Final(toDriver[i])' /\ toDriver'[i].form = Plain
                   \/ i > m /\ Acceptance(i - m, i)'
        BY DEF Opening, Plain, FormOf
      <4>2. /\ i \in 1..Len(toDriver) /\ toDriver'[i] = toDriver[i]
            /\ i = Len(toDriver) => i = Len(toDriver')
        BY <1>3
      <4>3. CASE i > m /\ Acceptance(i - m, i)
        <5>1. Acceptance(i - m, i)'  BY <1>1, <4>2, <4>3, Moved
        <5> QED  BY <4>3, <5>1
      <4>4. CASE ~(i > m /\ Acceptance(i - m, i))
        <5>1. Final(toDriver[i]) => Final(toDriver[i])'  BY <1>1, <4>2, MovedFinal
        <5> QED  BY <3>1, <4>2, <4>4, <5>1 DEF Opening
      <4> QED  BY <4>3, <4>4
    <3> QED  BY <3>2
  <2>2. CASE toServer # <<>>
    <3>1. srvForm = Plain
      <4>1. srvForm.zip = FALSE /\ srvForm.cipher = ""
        BY <1>7, <2>2 DEF Talk, Tuned, IInv, DataType, Forms
      <4> QED  BY <4>1, PlainForm DEF Plain
    <3>2. Opening(n)'
      <4>1. SUFFICES ASSUME NEW i \in 1..Len(toDriver')
            PROVE  i <= n /\ toDriver'[i].op = "dummy" /\ toDriver'[i].form = Plain
        BY DEF Opening, Plain, FormOf
      <4> QED  BY <1>3, <1>6, <2>2, <3>1
    <3> QED  BY <3>2
  <2> QED  BY <2>1, <2>2
<1>8. pc = "header" => (\A i \in 1..Len(toDriver) : Acceptance(i + 1, i))'
  <2>1. SUFFICES ASSUME pc = "header", NEW i \in 1..Len(toDriver') PROVE Acceptance(i + 1, i)'
    OBVIOUS
  <2>2. Acceptance(i + 1, i)  BY <1>3, <2>1 DEF Talk, Answered
  <2> QED  BY <1>1, <1>3, <2>2, Moved
<1>9. pc \in {"inflate", "auth_data"} => (\A i \in 1..Len(toDriver) : Acceptance(i + 2, i))'
  <2>1. SUFFICES ASSUME pc \in {"inflate", "auth_data"}, NEW i \in 1..Len(toDriver') PROVE Acceptance(i + 2, i)'
    OBVIOUS
  <2>2. Acceptance(i + 2, i)  BY <1>3, <2>1 DEF Talk, Answered
  <2> QED  BY <1>1, <1>3, <2>2, Moved
<1>10. pc \in {"cont_auth", "verdict", "ack", "attach"} => (\A i \in 1..Len(toDriver) : Answer(i))'
  <2>1. SUFFICES ASSUME pc \in {"cont_auth", "verdict", "ack", "attach"}, NEW i \in 1..Len(toDriver')
        PROVE  Answer(i)'
    OBVIOUS
  <2>2. CASE toServer = <<>>
    <3>1. Answer(i)  BY <1>3, <2>1, <2>2 DEF Talk, Answered
    <3> QED  BY <1>1, <1>3, <3>1, AnswerMoved
  <2>3. CASE toServer # <<>>
    <3>1. toDriver'[i].op = "dummy" /\ toDriver'[i].form = srvForm'  BY <1>1, <1>6, <2>3
    <3> QED  BY <3>1 DEF Answer
  <2> QED  BY <2>2, <2>3
<1>11. Answered'  BY <1>1, <1>7, <1>8, <1>9, <1>10 DEF Answered
<1>12. Tuned'
  BY <1>1, <1>4 DEF Talk, Tuned, Lost, Form, driverVars
<1>13. Best => Best'  BY <1>1, SameBest DEF driverVars
<1>14. Agreed'
  BY <1>1, <1>4, <1>13 DEF Talk, Agreed, Over, driverVars
<1>15. AuthType'  BY <1>1 DEF Talk, AuthType
<1> QED  BY <1>5, <1>11, <1>12, <1>14, <1>15 DEF Talk

-----------------------------------------------------------------------------
LEMMA InitTalk == Init => Talk
<1> SUFFICES ASSUME Init PROVE Talk
  OBVIOUS
<1>1. /\ pc = "start" /\ key = FALSE /\ zip = FALSE /\ cipher = ""
      /\ toServer = <<>> /\ toDriver = <<>> /\ dead = FALSE
      /\ srvForm = [zip |-> FALSE, cipher |-> ""]
      /\ srvAuth = [by |-> "none", plugin |-> "", done |-> FALSE, key |-> FALSE, offer |-> NoOffer]
  BY DEF Init
<1>2. Asked /\ Careful /\ Answered  BY <1>1, NoPacket, NothingAsked DEF Asked, Answered
<1>3. Tuned /\ Agreed /\ AuthType  BY <1>1 DEF Tuned, Agreed, AuthType
<1> QED  BY <1>2, <1>3 DEF Talk

LEMMA StepTalk == Separate /\ IInv /\ Talk /\ [Next]_vars => Talk'
<1> SUFFICES ASSUME Separate, IInv, Talk, [Next]_vars PROVE Talk'
  OBVIOUS
<1>1. CASE Driver
  BY <1>1, ConnectTalk, ReadOpcodeTalk, ReadHeaderTalk, ReadAcceptDataTalk, ReadContAuthTalk,
     SkipDummyTalk, ResponseTalk
     DEF Driver
<1>2. CASE Server
  BY <1>2, ServeConnectTalk, ServePublicTalk, ServeProofTalk, ServeCryptTalk, ServeAttachTalk
     DEF Server
<1>3. CASE Dummy \/ Die  BY <1>3, DummyTalk, DieTalk
<1>4. CASE UNCHANGED vars
  <2>1. /\ UNCHANGED <<opts, pc, opcode, plugin, key, zip, cipher, toServer, toDriver, dead>>
        /\ UNCHANGED <<srv, srvForm, srvAuth>>
    BY <1>4 DEF vars, driverVars, serverVars
  <2>2. Asked' /\ Careful' /\ AuthType'
    BY <2>1, SameCareful DEF Talk, Asked, Awaits, AuthType
  <2>3. Answered'
    <3>1. \A k, i : Acceptance(k, i)' <=> Acceptance(k, i)
      BY <2>1 DEF Acceptance, Plain, FormOf
    <3>2. \A i : Answer(i)' <=> Answer(i)  BY <2>1 DEF Answer
    <3>3. \A n : Opening(n)' <=> Opening(n)
      <4> TAKE n
      <4>1. \A i : Final(toDriver[i])' <=> Final(toDriver[i])  BY <2>1 DEF Final, Plain, FormOf
      <4> QED  BY <2>1, <3>1, <4>1 DEF Opening, Plain, FormOf
    <3> QED  BY <2>1, <3>1, <3>2, <3>3 DEF Talk, Answered
  <2>4. Tuned'  BY <2>1 DEF Talk, Tuned, Lost, Form, Plain, FormOf
  <2>5. Best => Best'  BY <2>1, SameBest
  <2>6. Agreed'  BY <2>1, <2>5 DEF Talk, Agreed, Form, FormOf
  <2> QED  BY <2>2, <2>3, <2>4, <2>6 DEF Talk
<1> QED  BY <1>1, <1>2, <1>3, <1>4 DEF Next, Stopped

\* A response that the driver reads as the end of the handshake is the answer of a
\* server that answers so.
LEMMA TalkClean == IInv /\ Talk => Clean
<1> SUFFICES ASSUME IInv, Talk, pc \in {"opcode", "cont_auth"}, toDriver # <<>>,
                    Head(toDriver).op = "response"
             PROVE  "answers" \in opts.server
  BY DEF Clean
<1>1. Len(toDriver) \in Nat /\ Len(toDriver) >= 1 /\ Head(toDriver) = toDriver[1]
  <2>1. toDriver \in Seq(ToDriver)  BY DEF IInv, DataType
  <2> QED  BY <2>1
<1>2. 1 \in 1..Len(toDriver)  BY <1>1
<1>3. toServer = <<>>  BY <1>1, <1>2 DEF Talk, Asked
<1>4. CASE pc = "opcode"
  <2>1. PICK n \in Nat : Opening(n)  BY <1>3, <1>4 DEF Talk, Answered
  <2>2. \A k : ~Acceptance(k, 1)  BY <1>1 DEF Acceptance, Accepts
  <2>3. Final(toDriver[1])  BY <1>1, <1>2, <2>1, <2>2 DEF Opening
  <2> QED  BY <1>1, <2>3 DEF Final
<1>5. CASE pc = "cont_auth"
  <2>1. Answer(1)  BY <1>2, <1>3, <1>5 DEF Talk, Answered
  <2> QED  BY <1>1, <1>5, <2>1 DEF Answer
<1> QED  BY <1>4, <1>5

\* Both invariants, of every behaviour.
LEMMA TalkAlways == Separate => (Spec => [](IInv /\ Talk))
<1> SUFFICES ASSUME Separate PROVE Spec => [](IInv /\ Talk)
  OBVIOUS
<1>1. Init => IInv /\ Talk  BY InitInv, InitTalk
<1>2. IInv /\ Talk /\ [Next]_vars => (IInv /\ Talk)'  BY TalkClean, StepInv, StepTalk
<1> QED  BY <1>1, <1>2, PTL DEF Spec

LEMMA TalkSameForm == IInv /\ Talk => SameForm
<1> SUFFICES ASSUME IInv, Talk PROVE SameForm
  OBVIOUS
<1>1. toServer # <<>> => Head(toServer).form = srvForm
  <2>1. toServer \in Seq(ToServer)  BY DEF IInv, DataType
  <2>2. toServer # <<>> => Head(toServer) = toServer[1]  BY <2>1
  <2> QED  BY <2>2 DEF Talk, Asked
<1>2. ASSUME pc \in Waiting, toDriver # <<>> PROVE Head(toDriver).form = Form
  <2>1. Len(toDriver) \in Nat /\ Len(toDriver) >= 1 /\ Head(toDriver) = toDriver[1]
    <3>1. toDriver \in Seq(ToDriver)  BY DEF IInv, DataType
    <3> QED  BY <1>2, <3>1
  <2>2. 1 \in 1..Len(toDriver)  BY ONLY <2>1
  <2>3. srvForm \in Forms /\ Forms = [zip : BOOLEAN, cipher : Ciphers \cup {""}]
        /\ zip \in BOOLEAN
    BY DEF IInv, DataType, Forms
  <2>4. CASE pc \in {"opcode", "header"}
    <3>1. zip = FALSE /\ cipher = ""  BY <2>3, <2>4 DEF Talk, Tuned
    <3>2. Form = Plain  BY <3>1 DEF Form, Plain
    <3>3. CASE toServer # <<>>
      <4>1. pc = "opcode"  BY <2>4, <3>3, NotAsked
      <4>2. srvForm.zip = FALSE /\ srvForm.cipher = ""  BY <2>3, <3>3, <4>1 DEF Talk, Tuned
      <4>3. srvForm = Plain  BY <4>2, PlainForm DEF Plain
      <4> QED  BY <2>1, <2>2, <3>2, <3>3, <4>3 DEF Talk, Asked
    <3>4. CASE toServer = <<>> /\ pc = "opcode"
      <4>1. PICK n \in Nat : Opening(n)  BY <3>4 DEF Talk, Answered
      <4>2. \/ toDriver[1].form = Plain
            \/ 1 > n /\ Acceptance(1 - n, 1)
        BY <2>2, <4>1 DEF Opening
      <4>3. 1 > n => n = 0  OBVIOUS
      <4>4. Acceptance(1, 1) => toDriver[1].form = Plain  BY DEF Acceptance
      <4> QED  BY <2>1, <3>2, <4>2, <4>3, <4>4
    <3>5. CASE pc = "header"
      <4>1. Acceptance(1 + 1, 1)  BY <2>2, <3>5 DEF Talk, Answered
      <4>2. toDriver[1].form = Plain  BY <4>1 DEF Acceptance
      <4> QED  BY <2>1, <3>2, <4>2
    <3> QED  BY <2>4, <3>3, <3>4, <3>5
  <2>5. CASE pc \in {"inflate", "auth_data", "cont_auth", "verdict", "ack", "attach"}
    <3>1. toDriver[1].form = srvForm
      <4>1. CASE pc \in {"inflate", "auth_data"}
        <5>1. Acceptance(1 + 2, 1)  BY <2>2, <4>1 DEF Talk, Answered
        <5> QED  BY <5>1 DEF Acceptance
      <4>2. CASE pc \notin {"inflate", "auth_data"} /\ toServer = <<>>
        <5>1. Answer(1)  BY <2>2, <2>5, <4>2 DEF Talk, Answered
        <5> QED  BY <5>1 DEF Answer
      <4>3. CASE toServer # <<>>  BY <2>2, <4>3 DEF Talk, Asked
      <4> QED  BY <4>1, <4>2, <4>3
    <3>2. srvForm = Form
      <4>1. CASE pc \in {"ack", "attach"}
        BY <1>2, <4>1 DEF Talk, Tuned, Lost
      <4>2. CASE pc \in {"inflate", "auth_data", "cont_auth", "verdict"}
        <5>1. srvForm.zip = zip /\ cipher = "" /\ srvForm.cipher = ""
          BY <1>2, <4>2 DEF Talk, Tuned, Lost
        <5> QED  BY <5>1, PlainForm DEF Form
      <4> QED  BY <2>5, <4>1, <4>2
    <3> QED  BY <2>1, <3>1, <3>2
  <2> QED  BY <1>2, <2>4, <2>5 DEF Waiting
<1> QED  BY <1>1, <1>2 DEF SameForm

LEMMA IInvRequired == Separate /\ IInv => RequiredEncrypted
<1> SUFFICES ASSUME Separate, IInv, Must PROVE EncryptedAttach
  BY DEF RequiredEncrypted, Must
<1>1. ~zip /\ zip \in BOOLEAN /\ cipher \in Ciphers \cup {""}
  BY DEF Separate, IInv, DataType, Places, Must
<1>2. Form.cipher = cipher  BY <1>1, FormType DEF Form
<1>3. \A i \in DOMAIN toServer : toServer[i] \in ToServer
  <2>1. toServer \in Seq(ToServer)  BY DEF IInv, DataType
  <2>2. \A S : \A s \in Seq(S) : \A i \in DOMAIN s : s[i] \in S  OBVIOUS
  <2> QED  BY <2>1, <2>2
<1> QED  BY <1>2, <1>3 DEF IInv, Places, ToServer, EncryptedAttach

\* wire_crypt=required: whatever else the server answers, and wherever the socket
\* breaks, no attachment is asked for but under a cipher, and none is open
\* without one (_parse_connect_response, wireCryptResolve); with a server whose
\* responses to op_connect and to the public key report errors, and where
\* compression and encryption are not asked for together.
THEOREM RequiredAlways == Separate => (Spec => []RequiredEncrypted)
<1> SUFFICES ASSUME Separate PROVE Spec => []RequiredEncrypted
  OBVIOUS
<1> QED  BY TalkAlways, IInvRequired, PTL

\* Whoever reads a packet reads it in the form in which it was written, whatever
\* the server chooses and wherever the socket breaks: both ends switch the
\* compressor and the cipher on at the same byte (_parse_connect_response).
THEOREM SameFormAlways == Separate => (Spec => []SameForm)
<1> SUFFICES ASSUME Separate PROVE Spec => []SameForm
  OBVIOUS
<1> QED  BY TalkAlways, TalkSameForm, PTL

\* A connection that openFirebirdsqlConn returns is attached, by its user's
\* password, and both ends use the same form, under a cipher only if both have
\* the session key.
THEOREM OpenAgreesAlways == Separate => (Spec => []OpenAgrees)
<1> SUFFICES ASSUME Separate PROVE Spec => []OpenAgrees
  OBVIOUS
<1>1. Talk => OpenAgrees  BY DEF Talk, Agreed, OpenAgrees
<1> QED  BY <1>1, TalkAlways, PTL

\* What is computed of the password for a plugin is sent only if the data source
\* name has the plugin and the server has selected it; where both ends have the
\* session key, the connection is under the first cipher of the driver's list that
\* fits, or none of them does; and the password that every attach carries goes
\* under a cipher if one of them fits.
THEOREM ChosenAlways == Separate => (Spec => []Chosen)
<1> SUFFICES ASSUME Separate PROVE Spec => []Chosen
  OBVIOUS
<1>1. Talk => Chosen
  <2>1. Talk => Sanctioned /\ Guarded  BY DEF Talk, Careful
  <2>2. Talk => Preferred  BY DEF Talk, Agreed, Best, Preferred
  <2> QED  BY <2>1, <2>2 DEF Chosen
<1> QED  BY <1>1, TalkAlways, PTL
===============================================================================
