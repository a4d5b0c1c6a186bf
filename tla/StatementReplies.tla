--------------------------- MODULE StatementReplies ---------------------------
(***************************************************************************)
(* What the driver makes of two answers of the server: the status vector   *)
(* of a response, and the description of a statement's columns, which      *)
(* comes in parts when it does not fit in one buffer (wireprotocol.go).    *)
(***************************************************************************)
EXTENDS Integers, Sequences, FiniteSets, SequencesExt

(***************************************************************************)
(* Status vectors: a sequence of [arg, num, text].  A text is a sequence   *)
(* of tokens: a word, or [at |-> n, word |-> ""] for the place @n.         *)
(***************************************************************************)
CONSTANTS
    errmsgs,       \* the template of each known code
    gdsToSQLState, \* the SQLSTATE and the SQLCODE of each known code
    gdsToSQLCode

IscSqlerr == 335544436

Word(w) == [at |-> 0, word |-> w]
Place(n) == [at |-> n, word |-> ""]

(* strings.Replace(message, "@n", text, 1), in the whole message so far. *)
Substitute(message, n, text) ==
    LET at == SelectInSeq(message, LAMBDA t : t.at = n)
    IN  IF at = 0 THEN message
        ELSE SubSeq(message, 1, at - 1) \o text \o SubSeq(message, at + 1, Len(message))

NoStatus == [gdsCodes |-> <<>>, params |-> <<>>, warnings |-> <<>>, message |-> <<>>,
             sqlCode |-> 0, sqlState |-> "", gds |-> 0, args |-> 0, inWarning |-> FALSE]

Template(code) == IF code \in DOMAIN errmsgs THEN errmsgs[code] ELSE <<Word("unknown gds_code")>>

(* A plausible slip: a parameter of a warning goes into the error's message. *)
Silent_Never(sv) == FALSE

(* The parameters of a warning are read and dropped. *)
Silent(sv) == sv.inWarning

StatusArg(sv, a) ==
    LET param == [sv EXCEPT
            !.args = @ + 1,
            !.message = IF Silent(sv) THEN @ ELSE Substitute(@, sv.args + 1, a.text),
            !.params = IF Silent(sv) \/ @ = <<>> THEN @
                       ELSE [@ EXCEPT ![Len(@)] = Append(@, a.text)]]
    IN  CASE a.arg = "gds" /\ a.num = 0 -> [sv EXCEPT !.gds = 0]
          [] a.arg = "gds" /\ a.num # 0 ->
               [sv EXCEPT !.gds = a.num, !.inWarning = FALSE, !.args = 0,
                          !.gdsCodes = Append(@, a.num), !.params = Append(@, <<>>),
                          !.message = @ \o Template(a.num)]
          [] a.arg = "warning" /\ a.num # 0 ->
               [sv EXCEPT !.inWarning = TRUE, !.args = 0, !.warnings = Append(@, a.num)]
          [] a.arg = "number" ->
               [param EXCEPT !.sqlCode = IF ~Silent(sv) /\ sv.gds = IscSqlerr THEN a.num ELSE @]
          [] a.arg = "string" -> param
          [] a.arg = "interpreted" ->
               [sv EXCEPT !.message = IF Silent(sv) THEN @ ELSE @ \o a.text]
          [] a.arg = "sql_state" ->
               [sv EXCEPT !.sqlState = IF ~Silent(sv) /\ @ = "" THEN a.text[1].word ELSE @]
          [] OTHER -> sv
ParseStatusVector(args) == FoldLeft(StatusArg, NoStatus, args)

SqlStateOf(code) == IF code \in DOMAIN gdsToSQLState THEN gdsToSQLState[code] ELSE ""
SqlCodeOf(code) == IF code \in DOMAIN gdsToSQLCode THEN gdsToSQLCode[code] ELSE 0

(* _parse_op_response: the FbError of a status vector, or <<>>. *)
FbError(args) ==
    LET sv == ParseStatusVector(args)
        first == IF sv.gdsCodes = <<>> THEN 0 ELSE sv.gdsCodes[1]
    IN  IF sv.gdsCodes = <<>> /\ sv.sqlCode = 0 THEN <<>>
        ELSE <<[GDSCodes |-> sv.gdsCodes, Params |-> sv.params, Warnings |-> sv.warnings,
                Message |-> sv.message,
                SQLState |-> IF sv.sqlState = "" THEN SqlStateOf(first) ELSE sv.sqlState,
                SQLCode |-> IF sv.sqlCode = 0 THEN SqlCodeOf(first) ELSE sv.sqlCode]>>

(***************************************************************************)
(* The description of columns.  An item is [item, num]: the number itself, *)
(* or the bytes of a name.  A column is a record of the items it has.      *)
(***************************************************************************)
NumberItems == <<"seq", "type", "sub_type", "scale", "length", "null_ind">>
NameItems == <<"field", "relation", "owner", "alias">>
NoColumn == [i \in ToSet(NumberItems \o NameItems) \ {"seq"} |-> 0]

Stored(item, num) ==
    CASE item = "type"     -> num - (num % 2)
      [] item = "null_ind" -> IF num # 0 THEN 1 ELSE 0
      [] OTHER             -> num

(* A plausible slip: the column a part broke off in is taken as complete. *)
ContinueFrom_Next(st) == st.index + 1

(* The column to ask again from: the one a part broke off in. *)
ContinueFrom(st) == st.index

(* _parse_select_items: the index to continue from, -1 when there is none. *)
Started == [index |-> 0, next |-> -1, err |-> FALSE, done |-> FALSE]
SelectItem(st, it) ==
    CASE st.done \/ st.err        -> st
      [] ~(st.done \/ st.err) /\ it.item = "end" -> [st EXCEPT !.done = TRUE]
      [] ~(st.done \/ st.err) /\ it.item = "truncated" ->
           [st EXCEPT !.done = TRUE, !.next = ContinueFrom(st)]
      [] ~(st.done \/ st.err) /\ it.item = "seq" ->
           [st EXCEPT !.index = it.num, !.err = it.num \notin DOMAIN st.xsqlda]
      [] ~(st.done \/ st.err) /\ it.item \in DOMAIN NoColumn ->
           IF st.index \notin DOMAIN st.xsqlda THEN [st EXCEPT !.err = TRUE]
           ELSE [st EXCEPT !.xsqlda[st.index][it.item] = Stored(it.item, it.num)]
      [] OTHER -> st
ParseSelectItems(buf, xsqlda) ==
    FoldLeft(SelectItem, [xsqlda |-> xsqlda] @@ Started, buf)

(***************************************************************************)
(* The server (external): the items of the columns from the n-th on, cut   *)
(* where the next would leave no room for the mark that says so.           *)
(***************************************************************************)
CONSTANTS
    BufferLength, \* bytes of an answer, 1024 in the code
    HeaderBytes   \* bytes before the items: 8, and 7 more for the type

Bytes(it) == CASE it.item \in ToSet(NumberItems) -> 7
               [] it.item \in ToSet(NameItems)   -> 3 + it.num
               [] OTHER                          -> 1
ItemsFrom(columns, n) ==
    LET of(i) == [k \in 1..Len(NumberItems \o NameItems) |->
                    LET name == (NumberItems \o NameItems)[k]
                    IN  [item |-> name, num |-> IF name = "seq" THEN i ELSE columns[i][name]]]
    IN  FlattenSeq([j \in 1..(Len(columns) + 1 - n) |->
            of(n + j - 1) \o <<[item |-> "describe_end", num |-> 0]>>])
          \o <<[item |-> "end", num |-> 0]>>
Described(columns, n, room) ==
    LET items == ItemsFrom(columns, n)
        upTo[k \in 0..Len(items)] == IF k = 0 THEN 0 ELSE upTo[k - 1] + Bytes(items[k])
        fits(k) == upTo[k] + (IF k = Len(items) THEN 0 ELSE 1) <= room
        most == CHOOSE k \in 0..Len(items) : fits(k) /\ \A j \in 0..Len(items) : fits(j) => j <= k
    IN  IF most = Len(items) THEN items
        ELSE SubSeq(items, 1, most) \o <<[item |-> "truncated", num |-> 0]>>

(***************************************************************************)
(* parse_xsqlda and _fetchBindXsqlda: ask again from the column a part     *)
(* broke off in, for as long as there is one.  The code has no limit: here *)
(* asking for the same column twice in a row is reported as endless.       *)
(***************************************************************************)
Asking(columns) ==
    LET part(xsqlda, n, room) == ParseSelectItems(Described(columns, n, room), xsqlda)
        first == part([i \in DOMAIN columns |-> NoColumn], 1, BufferLength - HeaderBytes - 7)
        again(st) == part(st.xsqlda, st.next, BufferLength - HeaderBytes)
        step(st, k) == IF st.next <= 0 \/ st.err \/ st.endless THEN st
                       ELSE LET r == again(st)
                            IN  [endless |-> r.next = st.next /\ r.next > 0] @@ r
    IN  FoldLeft(step, [endless |-> FALSE] @@ first, [k \in 1..(2 * Len(columns)) |-> k])

ParseXsqlda(columns) ==
    LET st == Asking(columns)
    IN  [xsqlda |-> st.xsqlda, err |-> st.err, endless |-> st.endless]
===============================================================================
