---------------------------- MODULE ServiceParams ----------------------------
(***************************************************************************)
(* Parameter blocks: the writer and the bounds-checked reader of xpb.go,   *)
(* the request blocks the managers build with them, and the server streams *)
(* they parse.  A name is a sequence of bytes.  A set of switches is a     *)
(* function from their names to BOOLEAN.  A transaction number is its four *)
(* sixteen-bit digits, lowest first, because it may take 64 bits.          *)
(***************************************************************************)
EXTENDS Integers, Sequences, FiniteSets, SequencesExt

(***************************************************************************)
(* XPBWriter.                                                              *)
(***************************************************************************)
Wrap16(n) == ((n + 32768) % 65536) - 32768
Int16(n) == <<n % 256, (n \div 256) % 256>>
Int32(n) == <<n % 256, (n \div 256) % 256, (n \div 65536) % 256, (n \div 16777216) % 256>>
Limbs(id) == FlattenSeq([i \in DOMAIN id |-> Int16(id[i])])

PutTag(tag) == <<tag>>
PutByte(tag, val) == <<tag, val>>
PutInt32(tag, val) == <<tag>> \o Int32(val)
PutInt64(tag, id) == <<tag>> \o Limbs(id)
PutString(tag, val) == <<tag>> \o Int16(Len(val)) \o val

(***************************************************************************)
(* XPBReader: [buf, pos, err]; pos counts the bytes consumed.  A read past *)
(* the end parks the cursor and sets err, for good.                        *)
(***************************************************************************)
Reader(bytes) == [buf |-> bytes, pos |-> 0, err |-> FALSE]
End(pb) == pb.pos >= Len(pb.buf)
Fail(pb) == [pb EXCEPT !.pos = Len(pb.buf), !.err = TRUE]
Skip(pb, n) == IF pb.pos + n > Len(pb.buf) THEN Fail(pb) ELSE [pb EXCEPT !.pos = @ + n]
Peek(pb, n) == IF pb.pos + n > Len(pb.buf) THEN [i \in 1..n |-> 0]
               ELSE SubSeq(pb.buf, pb.pos + 1, pb.pos + n)
Sixteen(b, i) == b[i] + 256 * b[i + 1]
GetInt16(pb) == Wrap16(Sixteen(Peek(pb, 2), 1))
GetInt32(pb) == LET b == Peek(pb, 4)
                IN  Sixteen(b, 1) + 65536 * Wrap16(Sixteen(b, 3))
StringLength(pb) == GetInt16(pb)
GetString(pb) == Peek(Skip(pb, 2), StringLength(pb))
SkipString(pb) == IF StringLength(pb) < 0 THEN Fail(pb)
                  ELSE Skip(Skip(pb, 2), StringLength(pb))

(* int64(srb.GetInt32()): the sign is extended.  GetInt64: four digits. *)
SignedId(pb) == LET b == Peek(pb, 4)
                    s == IF b[4] >= 128 THEN 65535 ELSE 0
                IN  <<Sixteen(b, 1), Sixteen(b, 3), s, s>>
GetInt64(pb) == LET b == Peek(pb, 8) IN [i \in 1..4 |-> Sixteen(b, (2 * i) - 1)]

(***************************************************************************)
(* Functional options: the last one given for a field wins.  BitMask ORs   *)
(* the bits of the switches that are to be written.                        *)
(***************************************************************************)
NewOptions(default, opts) ==
    FoldLeft(LAMBDA o, opt : [o EXCEPT ![opt[1]] = opt[2]], default, opts)
BitMask(bits) == FoldSet(+, 0, bits)

(***************************************************************************)
(* gbak.  consts.go gives isc_spb_bkp_expand the value of                  *)
(* isc_spb_bkp_no_garbage_collect: WithExpand asks for no garbage          *)
(* collection, and the two cannot be told apart in a request.              *)
(***************************************************************************)
DefaultBackupOptions ==
    [IgnoreChecksums |-> FALSE, IgnoreLimboTransactions |-> FALSE, MetadataOnly |-> FALSE,
     GarbageCollect |-> TRUE, Transportable |-> TRUE, Convert |-> TRUE,
     Expand |-> FALSE, Zip |-> FALSE, ParallelWorkers |-> 0]
BackupBits == [IgnoreChecksums |-> 1, IgnoreLimboTransactions |-> 2, MetadataOnly |-> 4,
               GarbageCollect |-> 8, Transportable |-> 32, Convert |-> 64,
               Expand |-> 8, Zip |-> 65536]
BackupNegated == {"GarbageCollect", "Transportable"}

DefaultRestoreOptions ==
    [Replace |-> FALSE, DeactivateIndexes |-> FALSE, RestoreShadows |-> TRUE,
     EnforceConstraints |-> TRUE, CommitAfterEachTable |-> FALSE, UseAllPageSpace |-> FALSE,
     PageSize |-> 0, CacheBuffers |-> 0, ParallelWorkers |-> 0]
RestoreBits == [Replace |-> 4096, DeactivateIndexes |-> 256, RestoreShadows |-> 512,
                EnforceConstraints |-> 1024, CommitAfterEachTable |-> 2048,
                UseAllPageSpace |-> 16384]
RestoreNegated == {"RestoreShadows", "EnforceConstraints"}
CreateBit == 8192

(* The bits of the switches that differ from what no bit means. *)
Asked(o, bits, negated) == {bits[f] : f \in {g \in DOMAIN bits : o[g] # (g \in negated)}}

IfPositive(tag, n) == IF n > 0 THEN PutInt32(tag, n) ELSE <<>>
Verbose(v) == IF v THEN PutTag(107) ELSE <<>>
Named(action, database) == PutTag(action) \o PutString(106, database)

Backup(database, backup, o, verbose) ==
    Named(1, database) \o PutString(5, backup)
      \o PutInt32(108, BitMask(Asked(o, BackupBits, BackupNegated)))
      \o IfPositive(21, o.ParallelWorkers) \o Verbose(verbose)

(* A plausible slip: the positive switch sets the negative bit. *)
RestoreMask_Inverted(o) == BitMask({RestoreBits[f] : f \in {g \in DOMAIN RestoreBits : o[g]}})

RestoreMask(o) == BitMask(Asked(o, RestoreBits, RestoreNegated)
                          \cup IF o.Replace THEN {} ELSE {CreateBit})

Restore(backup, database, o, verbose) ==
    Named(2, database) \o PutString(5, backup) \o PutInt32(108, RestoreMask(o))
      \o IfPositive(21, o.ParallelWorkers) \o Verbose(verbose)
      \o IfPositive(10, o.PageSize) \o IfPositive(9, o.CacheBuffers)

(***************************************************************************)
(* nbackup.  Level -1 means "by GUID", or level 0 when there is none.      *)
(***************************************************************************)
DefaultNBackupOptions == [Level |-> -1, Guid |-> <<>>, NoDBTriggers |-> FALSE,
                          InPlaceRestore |-> FALSE, PreserveSequence |-> FALSE]
NBackupBits == [NoDBTriggers |-> 1, InPlaceRestore |-> 2, PreserveSequence |-> 4]
NBackupMask(o) == LET mask == BitMask(Asked(o, NBackupBits, {}))
                  IN  IF mask # 0 THEN PutInt32(108, mask) ELSE <<>>
NBackupLevel(o) == IF o.Level < 0 /\ o.Guid = <<>> THEN 0 ELSE o.Level

NBackup(database, backup, o) ==
    Named(20, database) \o PutString(6, backup) \o PutInt32(5, NBackupLevel(o))
      \o (IF o.Guid # <<>> THEN PutString(8, o.Guid) ELSE <<>>) \o NBackupMask(o)
NRestore(backups, database, o) ==
    Named(21, database) \o FlattenSeq([i \in DOMAIN backups |-> PutString(6, backups[i])])
      \o NBackupMask(o)
NFixup(database, o) == Named(31, database) \o NBackupMask(o)

(***************************************************************************)
(* gfix: each property or repair is one tagged value after the database.   *)
(***************************************************************************)
ByteProperties == [AccessReadWrite |-> <<13, 40>>, AccessReadOnly |-> <<13, 39>>,
                   WriteAsync |-> <<12, 37>>, WriteSync |-> <<12, 38>>,
                   NoReserve |-> <<11, 35>>, Reserve |-> <<11, 36>>]
ModeProperties == [ReplicaMode |-> 46, OnlineEx |-> 45]
IntProperties == [Dialect |-> 14, PageBuffers |-> 5, SweepInterval |-> 6,
                  ShutdownForce |-> 7, ShutdownDenyAttachments |-> 9,
                  ShutdownDenyTransactions |-> 10]
OptionProperties == [ActivateShadow |-> 256, Online |-> 512, NoLinger |-> 1024]
Repairs == [Validate |-> 1, Sweep |-> 2, Mend |-> 4, ListLimbo |-> 8, KillShadow |-> 64]

SetProperty(op, database, arg) ==
    Named(8, database) \o
      CASE op \in DOMAIN ByteProperties   -> PutByte(ByteProperties[op][1], ByteProperties[op][2])
        [] op \in DOMAIN ModeProperties   -> PutByte(ModeProperties[op], arg)
        [] op \in DOMAIN IntProperties    -> PutInt32(IntProperties[op], arg)
        [] op \in DOMAIN OptionProperties -> PutInt32(108, OptionProperties[op])
ShutdownEx(database, mode, how, timeout) ==
    Named(8, database) \o PutByte(44, mode) \o PutInt32(how, timeout)
Repair(op, database) == Named(3, database) \o PutInt32(108, Repairs[op])

FitsUint32(id) == id[3] = 0 /\ id[4] = 0
EndTransaction(commit, database, id) ==
    Named(3, database) \o
      IF FitsUint32(id)
        THEN <<IF commit THEN 15 ELSE 34>> \o Limbs(<<id[1], id[2]>>)
        ELSE PutInt64(IF commit THEN 49 ELSE 50, id)

(***************************************************************************)
(* gstat.  Header pages alone exclude the rest.                            *)
(***************************************************************************)
DefaultStatisticsOptions ==
    [UserDataPages |-> TRUE, UserIndexPages |-> TRUE, OnlyHeaderPages |-> FALSE,
     SystemRelationsAndIndexes |-> FALSE, RecordVersions |-> FALSE]
StatisticsBits == [UserDataPages |-> 1, OnlyHeaderPages |-> 4, UserIndexPages |-> 8,
                   SystemRelationsAndIndexes |-> 16, RecordVersions |-> 32]
TablesBit == 64
Effective(o) == IF o.OnlyHeaderPages THEN [f \in DOMAIN o |-> f = "OnlyHeaderPages"] ELSE o
DbStats(database, o, tables) ==
    Named(11, database)
      \o PutInt32(108, BitMask(Asked(Effective(o), StatisticsBits, {})
                               \cup IF tables # <<>> THEN {TablesBit} ELSE {}))
      \o (IF tables # <<>> THEN PutString(105, FlattenSeq(Interleave(tables, [i \in DOMAIN tables |->
                                  IF i = Len(tables) THEN <<>> ELSE <<32>>])))
          ELSE <<>>)

(***************************************************************************)
(* gsec.  An absent field (<<>> of names, -1 of numbers) is not written;   *)
(* Admin is <<>> or <<whether>>.                                           *)
(***************************************************************************)
NoUser == [Username |-> <<>>, Password |-> <<>>, FirstName |-> <<>>, MiddleName |-> <<>>,
           LastName |-> <<>>, UserId |-> -1, GroupId |-> -1, Admin |-> <<>>]
UserNames == <<<<"Username", 7>>, <<"Password", 8>>, <<"FirstName", 10>>,
               <<"MiddleName", 11>>, <<"LastName", 12>>>>
UserNumbers == <<<<"UserId", 5>>, <<"GroupId", 6>>>>

GetSpb(u) ==
    LET name(f) == IF u[f[1]] = <<>> THEN <<>> ELSE PutString(f[2], u[f[1]][1])
        number(f) == IF u[f[1]] = -1 THEN <<>> ELSE PutInt32(f[2], u[f[1]])
    IN  FlattenSeq([i \in DOMAIN UserNames |-> name(UserNames[i])])
          \o FlattenSeq([i \in DOMAIN UserNumbers |-> number(UserNumbers[i])])
          \o (IF u.Admin = <<>> THEN <<>> ELSE PutInt32(13, IF u.Admin[1] THEN 1 ELSE 0))
UserAction(action, u, securityDb) ==
    PutTag(action) \o GetSpb(u) \o IF securityDb = <<>> THEN <<>> ELSE PutString(106, securityDb)
DeleteUser(u, securityDb) ==
    UserAction(5, [NoUser EXCEPT !.Username = u.Username], securityDb)
AdminRoleMapping(set, securityDb) ==
    UserAction(IF set THEN 27 ELSE 28, NoUser, securityDb)

(***************************************************************************)
(* Answers.  A stream arrives in chunks; it is parsed once it is whole.    *)
(* One record of a loop: the open user, the finished ones, the reader.     *)
(***************************************************************************)
Accumulate(chunks) == FlattenSeq(chunks)

RECURSIVE UsersFrom(_, _, _)
UsersFrom(pb, user, users) ==
    IF End(pb) THEN [err |-> pb.err, users |-> users \o user]
    ELSE LET tag == pb.buf[pb.pos + 1]
             at == Skip(pb, 1)
             set(f, v, next) == UsersFrom(next, <<[user[1] EXCEPT ![f] = v]>>, users)
         IN  CASE tag = 7 -> UsersFrom(SkipString(at),
                                       <<[NoUser EXCEPT !.Username = <<GetString(at)>>]>>,
                                       users \o user)
               [] tag # 7 /\ user = <<>> -> [err |-> TRUE, users |-> <<>>]
               [] OTHER ->
                  CASE tag = 10 -> set("FirstName", <<GetString(at)>>, SkipString(at))
                    [] tag = 11 -> set("MiddleName", <<GetString(at)>>, SkipString(at))
                    [] tag = 12 -> set("LastName", <<GetString(at)>>, SkipString(at))
                    [] tag = 5  -> set("UserId", GetInt32(at), Skip(at, 4))
                    [] tag = 6  -> set("GroupId", GetInt32(at), Skip(at, 4))
                    [] tag = 13 -> set("Admin", <<GetInt32(at) > 0>>, Skip(at, 4))
                    [] OTHER    -> UsersFrom(at, user, users)
(* What GetUsers once did: each chunk parsed by itself. *)
GetUsers_PerChunk(chunks) ==
    FoldLeft(LAMBDA acc, c : LET r == UsersFrom(Reader(c), <<>>, <<>>)
                             IN  [err |-> acc.err \/ r.err, users |-> acc.users \o r.users],
             [err |-> FALSE, users |-> <<>>], chunks)

GetUsers(chunks) == UsersFrom(Reader(Accumulate(chunks)), <<>>, <<>>)

RECURSIVE LimboFrom(_, _)
LimboFrom(pb, tids) ==
    IF End(pb) THEN [err |-> pb.err, tids |-> tids]
    ELSE LET tag == pb.buf[pb.pos + 1]
             at == Skip(pb, 1)
         IN  CASE tag \in {19, 20}     -> LimboFrom(Skip(at, 4), Append(tids, SignedId(at)))
               [] tag \in {47, 48}     -> LimboFrom(Skip(at, 8), Append(tids, GetInt64(at)))
               [] tag = 18             -> LimboFrom(Skip(at, 4), tids)
               [] tag = 46             -> LimboFrom(Skip(at, 8), tids)
               [] tag \in {21, 29}     -> LimboFrom(Skip(at, 1), tids)
               [] tag \in {26, 27, 28} -> LimboFrom(SkipString(at), tids)
               [] OTHER                -> LimboFrom(at, tids)
GetLimboTransactions(chunks) == LimboFrom(Reader(Accumulate(chunks)), <<>>)

RECURSIVE DbInfoFrom(_, _)
DbInfoFrom(pb, info) ==
    IF End(pb) \/ pb.buf[pb.pos + 1] = 127 THEN [info EXCEPT !.err = pb.err]
    ELSE LET tag == pb.buf[pb.pos + 1]
             at == Skip(pb, 1)
         IN  CASE tag = 5   -> DbInfoFrom(Skip(at, 4), [info EXCEPT !.atts = GetInt32(at)])
               [] tag = 6   -> DbInfoFrom(Skip(at, 4), [info EXCEPT !.dbs = GetInt32(at)])
               [] tag = 106 -> DbInfoFrom(SkipString(at),
                                          [info EXCEPT !.names = Append(@, GetString(at))])
               [] OTHER     -> DbInfoFrom(at, info)
GetSvrDbInfo(buf) == DbInfoFrom(Reader(buf), [err |-> FALSE, atts |-> 0, dbs |-> 0, names |-> <<>>])

(***************************************************************************)
(* The server (external).  FormOf says how the action's tags are followed; *)
(* Understood reads a request as a sequence of tagged values, or refuses.  *)
(***************************************************************************)
StringTags == [a \in 1..31 |->
    CASE a \in {1, 2}          -> {5, 106}
      [] a \in {20, 21}        -> {6, 8, 106}
      [] a \in {4, 5, 6}       -> {7, 8, 10, 11, 12, 106}
      [] a = 11                -> {105, 106}
      [] OTHER                 -> {106}]
ByteTags == [a \in 1..31 |-> IF a = 8 THEN {11, 12, 13, 44, 45, 46} ELSE {}]
IntTags == [a \in 1..31 |->
    CASE a = 1              -> {21, 108}
      [] a = 2              -> {9, 10, 21, 108}
      [] a = 3              -> {15, 34, 108}
      [] a \in {4, 5, 6}    -> {5, 6, 13}
      [] a = 8              -> {5, 6, 7, 9, 10, 14, 41, 42, 43, 108}
      [] a = 20             -> {5, 108}
      [] a \in {11, 21, 31} -> {108}
      [] OTHER              -> {}]
LongTags == [a \in 1..31 |-> IF a = 3 THEN {49, 50} ELSE {}]
FlagTags == [a \in 1..31 |-> IF a \in {1, 2} THEN {107} ELSE {}]

RECURSIVE Tagged(_, _)
Tagged(a, pb) ==
    IF End(pb) THEN IF pb.err THEN <<<<-1, -1>>>> ELSE <<>>
    ELSE LET tag == pb.buf[pb.pos + 1]
             at == Skip(pb, 1)
         IN  CASE tag \in StringTags[a] -> <<<<tag, GetString(at)>>>> \o Tagged(a, SkipString(at))
               [] tag \in ByteTags[a]   -> <<<<tag, Peek(at, 1)[1]>>>> \o Tagged(a, Skip(at, 1))
               [] tag \in IntTags[a]    -> <<<<tag, IF tag \in {15, 34} THEN Peek(at, 4)
                                                   ELSE GetInt32(at)>>>> \o Tagged(a, Skip(at, 4))
               [] tag \in LongTags[a]   -> <<<<tag, GetInt64(at)>>>> \o Tagged(a, Skip(at, 8))
               [] tag \in FlagTags[a]   -> <<<<tag, 0>>>> \o Tagged(a, at)
               [] OTHER                 -> <<<<-1, tag>>>>
Understood(request) == Tagged(request[1], Reader(Tail(request)))

ValuesOf(items, tag) == LET of == SelectSeq(items, LAMBDA it : it[1] = tag)
                        IN  [i \in DOMAIN of |-> of[i][2]]
BitsOf(n) == {b \in {2 ^ k : k \in 0..20} : (n \div b) % 2 = 1}
Switches(n, bits, negated) == [f \in DOMAIN bits |-> (bits[f] \in BitsOf(n)) # (f \in negated)]
===============================================================================
