-------------------------------- MODULE Wire ---------------------------------
(*
 * The generated protobuf code of x/wasm: how the messages described by the
 * schema modules become bytes and bytes become messages again. A byte is a
 * number below 256, bytes are sequences of them. A message is a record with a
 * value for every field: bytes for byte strings and texts, numbers, flags, nested
 * messages (a pointer is an empty sequence or a sequence of one message) and
 * sequences of those.
 *
 * Sources: x/wasm/types/{tx,query,types,proposal_legacy,authz,genesis,ibc}.pb.go
 * and x/wasm/migrations/{v2,v3}/legacy_types.go. The helper functions are
 * repeated in each of these files; they are mapped to types.pb.go.
 *
 * Bound: numbers are below 2^31 here and below 2^64 in the code.
 *)
EXTENDS WireTypes, WireTx, WireQuery, WireProposal, WireLegacy,
        Integers, SequencesExt, TLC

Nothing == << >>

(* Messages of the SDK that occur in those of the module. The code writes the *)
(* amount of a coin as a text.                                                *)
External ==
    [Coin |->
        Schema(<<bytes("Amount", 18), bytes("Denom", 10)>>,
               <<bytes("Denom", 1), bytes("Amount", 1)>>,
               <<bytes("Denom", 1), bytes("Amount", 2)>>),
     Any |->
        Schema(<<bytes("Value", 18), bytes("TypeUrl", 10)>>,
               <<bytes("TypeUrl", 1), bytes("Value", 1)>>,
               <<bytes("TypeUrl", 1), bytes("Value", 2)>>),
     PageRequest |->
        Schema(<<bool("Reverse", 40), bool("CountTotal", 32),
                 varint("Limit", 24), varint("Offset", 16), bytes("Key", 10)>>,
               <<bytes("Key", 1), varint("Offset", 1), varint("Limit", 1),
                 bool("CountTotal", 2), bool("Reverse", 2)>>,
               <<bytes("Key", 1), varint("Offset", 2), varint("Limit", 3),
                 bool("CountTotal", 4), bool("Reverse", 5)>>),
     PageResponse |->
        Schema(<<varint("Total", 16), bytes("NextKey", 10)>>,
               <<bytes("NextKey", 1), varint("Total", 1)>>,
               <<bytes("NextKey", 1), varint("Total", 2)>>)]

(* The messages of the module, and all that may occur in them. *)
Own == WireTypesSchema @@ WireTxSchema @@ WireQuerySchema
         @@ WireProposalSchema @@ WireLegacySchema
Known == Own @@ External

------------------------------------------------------------------------------
(* Messages before anything is read into them *)

RECURSIVE Zero(_)
ZeroValue(s) ==
    CASE s.form = "varint" -> 0
      [] s.form = "bool" -> FALSE
      [] s.form = "value" -> Zero(s.type)
      [] OTHER -> << >>

Blank(fields) ==
    [f \in {s.field : s \in fields} |->
        ZeroValue(CHOOSE s \in fields : s.field = f)]

Zero(type) == Blank(ToSet(Known[type].unmarshal))

------------------------------------------------------------------------------
(* Writing *)

RECURSIVE encodeVarint(_)
encodeVarint(v) ==
    IF v < 128 THEN <<v>> ELSE <<128 + (v % 128)>> \o encodeVarint(v \div 128)

(* bits.Len64 *)
RECURSIVE Len64(_)
Len64(x) == IF x = 0 THEN 0 ELSE 1 + Len64(x \div 2)

sov_Floor(x) == (Len64(IF x % 2 = 0 THEN x + 1 ELSE x) + 5) \div 7
sov(x) == (Len64(IF x % 2 = 0 THEN x + 1 ELSE x) + 6) \div 7

Delimited(tag, b) == <<tag>> \o encodeVarint(Len(b)) \o b

RECURSIVE Pieces(_, _)

(* The pieces that are written for one field, one for each element. *)
FieldPieces(s, v) ==
    LET Nested(m) == FlattenSeq(Pieces(s.type, m))
    IN  CASE s.form = "bytes" /\ v # << >> -> <<Delimited(s.n, v)>>
          [] s.form = "varint" /\ v # 0 -> <<(<<s.n>> \o encodeVarint(v))>>
          [] s.form = "bool" /\ v -> <<(<<s.n, 1>>)>>
          [] s.form = "pointer" /\ v # << >> ->
                <<Delimited(s.n, Nested(v[1]))>>
          [] s.form = "value" -> <<Delimited(s.n, Nested(v))>>
          [] s.form = "messages" ->
                [i \in DOMAIN v |-> Delimited(s.n, Nested(v[i]))]
          [] s.form = "list" -> [i \in DOMAIN v |-> Delimited(s.n, v[i])]
          [] s.form = "packed" /\ v # << >> ->
                <<Delimited(s.n, FlattenSeq(
                    [i \in DOMAIN v |-> encodeVarint(v[i])]))>>
          [] OTHER -> << >>

(* The buffer is filled from its end: what is written later comes first. *)
Pieces(type, m) ==
    FoldLeft(LAMBDA done, s : FieldPieces(s, m[s.field]) \o done,
             << >>, Known[type].marshal)

MarshalToSizedBuffer(type, m) == FlattenSeq(Pieces(type, m))

RECURSIVE Size(_, _)

FieldSize(s, v) ==
    LET With(l) == s.n + l + sov(l)
        Total(Of(_)) == FoldLeft(LAMBDA n, e : n + Of(e), 0, v)
    IN  CASE s.form = "bytes" /\ v # << >> -> With(Len(v))
          [] s.form = "varint" /\ v # 0 -> s.n + sov(v)
          [] s.form = "bool" /\ v -> s.n
          [] s.form = "pointer" /\ v # << >> -> With(Size(s.type, v[1]))
          [] s.form = "value" -> With(Size(s.type, v))
          [] s.form = "messages" -> Total(LAMBDA e : With(Size(s.type, e)))
          [] s.form = "list" -> Total(LAMBDA e : With(Len(e)))
          [] s.form = "packed" /\ v # << >> -> With(Total(sov))
          [] OTHER -> 0

Size(type, m) ==
    FoldLeft(LAMBDA n, s : n + FieldSize(s, m[s.field]), 0, Known[type].size)

(* The buffer has the size that was computed before, is written from its end  *)
(* and cut at its start to what was written. One that is too small panics.    *)
Panic == <<-1>>
Marshal(type, m) ==
    LET size == Size(type, m)
        b == MarshalToSizedBuffer(type, m)
        dAtA == [i \in 1..(size - Len(b)) |-> 0] \o b
    IN  IF Len(b) > size THEN Panic ELSE SubSeq(dAtA, 1, Len(b))

------------------------------------------------------------------------------
(* Reading. An index is 1 above that of the code; an error is Failed. *)

Failed == [ok |-> FALSE]

RECURSIVE VarintAt(_, _, _)
VarintAt(dAtA, i, shift) ==
    IF shift >= 64 \/ i > Len(dAtA) THEN Failed
    ELSE IF dAtA[i] < 128 THEN [ok |-> TRUE, v |-> dAtA[i], next |-> i + 1]
    ELSE LET rest == VarintAt(dAtA, i + 1, shift + 7)
         IN  IF rest.ok
               THEN [rest EXCEPT !.v = dAtA[i] - 128 + 128 * @]
               ELSE Failed

decodeVarint(dAtA, i) == VarintAt(dAtA, i, 0)

(* The index behind the field at i, which may lie behind the end. *)
RECURSIVE skip(_, _, _)
skip(dAtA, i, depth) ==
    LET wire == decodeVarint(dAtA, i)
        wireType == wire.v % 8
        n == decodeVarint(dAtA, wire.next)
        Go(next, d) == IF d = 0 THEN [ok |-> TRUE, next |-> next]
                                ELSE skip(dAtA, next, d)
    IN  CASE i > Len(dAtA) -> Failed
          [] i <= Len(dAtA) /\ ~wire.ok -> Failed
          [] OTHER ->
                CASE wireType = 0 /\ n.ok -> Go(n.next, depth)
                  [] wireType = 1 -> Go(wire.next + 8, depth)
                  [] wireType = 2 /\ n.ok -> Go(n.next + n.v, depth)
                  [] wireType = 3 -> Go(wire.next, depth + 1)
                  [] wireType = 4 /\ depth > 0 -> Go(wire.next, depth - 1)
                  [] wireType = 5 -> Go(wire.next + 4, depth)
                  [] OTHER -> Failed

RECURSIVE Unmarshal(_, _, _, _)

(* Packed numbers up to the end of the field; the last one may reach over it. *)
RECURSIVE Unpack(_, _, _, _)
Unpack(dAtA, i, postIndex, numbers) ==
    LET n == decodeVarint(dAtA, i)
    IN  IF i >= postIndex THEN [ok |-> TRUE, v |-> numbers, next |-> i]
        ELSE IF ~n.ok THEN Failed
        ELSE Unpack(dAtA, n.next, postIndex, Append(numbers, n.v))

(* The content of a delimited field, which must not reach behind the end. *)
Slice_Clamped(dAtA, i, postIndex) ==
    [ok |-> TRUE, b |-> [k \in 1..(postIndex - i) |->
                            IF i + k - 1 > Len(dAtA) THEN 0 ELSE dAtA[i + k - 1]]]
Slice(dAtA, i, postIndex) ==
    IF postIndex - 1 > Len(dAtA) THEN Failed
    ELSE [ok |-> TRUE, b |-> SubSeq(dAtA, i, postIndex - 1)]

(* The value of a field that is a nested message, whose fields are now r.m. *)
Place(s, old, r) ==
    IF ~r.ok THEN Failed
    ELSE [ok |-> TRUE, v |-> CASE s.form = "value" -> r.m
                               [] s.form = "pointer" -> <<r.m>>
                               [] s.form = "messages" -> Append(old, r.m)]

(* A value and a pointer that is set are read into, others start at zero. *)
Start(s, old) ==
    CASE s.form = "value" -> old
      [] s.form = "pointer" /\ old # << >> -> old[1]
      [] OTHER -> Zero(s.type)

(* What a delimited field becomes by its content. *)
Content(s, old, slice) ==
    CASE ~slice.ok -> Failed
      [] slice.ok /\ s.form = "bytes" -> [ok |-> TRUE, v |-> slice.b]
      [] slice.ok /\ s.form = "list" -> [ok |-> TRUE, v |-> Append(old, slice.b)]
      [] OTHER -> Place(s, old, Unmarshal(s.type, slice.b, 1, Start(s, old)))

(* What field s of m becomes when its content starts behind the number n: its  *)
(* value and the index behind it.                                              *)
ReadField(s, old, dAtA, n, wireType) ==
    CASE ~n.ok -> Failed
      [] n.ok /\ s.form \in {"varint", "bool"} ->
            CASE wireType # 0 -> Failed
              [] s.form = "bool" -> [n EXCEPT !.v = @ # 0]
              [] OTHER -> n
      [] n.ok /\ s.form = "packed" ->
            CASE wireType = 0 -> [n EXCEPT !.v = Append(old, @)]
              [] wireType = 2 /\ Slice(dAtA, n.next, n.next + n.v).ok ->
                    Unpack(dAtA, n.next, n.next + n.v, old)
              [] OTHER -> Failed
      [] OTHER ->
            IF wireType # 2 THEN Failed
            ELSE Content(s, old, Slice(dAtA, n.next, n.next + n.v))
                    @@ [next |-> n.next + n.v]

(* The message with field s as it was read. *)
Assign(m, s, r) ==
    IF r.ok THEN [ok |-> TRUE, next |-> r.next, m |-> [m EXCEPT ![s.field] = r.v]]
            ELSE Failed

(* The message without an unknown field, which must end before the end. *)
Skipped(m, dAtA, r) ==
    IF r.ok /\ r.next - 1 <= Len(dAtA) THEN r @@ [m |-> m] ELSE Failed

(* One field, of which wire is the tag. *)
ReadInto(known, dAtA, i, m, wire) ==
    CASE ~wire.ok -> Failed
      [] wire.ok /\ (wire.v % 8 = 4 \/ wire.v \div 8 = 0) -> Failed
      [] OTHER ->
            IF known = << >> THEN Skipped(m, dAtA, skip(dAtA, i, 0))
            ELSE Assign(m, known[1],
                        ReadField(known[1], m[known[1].field], dAtA,
                                  decodeVarint(dAtA, wire.next), wire.v % 8))

FieldAt(type, dAtA, i, m, wire) ==
    ReadInto(SelectSeq(Known[type].unmarshal,
                       LAMBDA s : wire.ok /\ s.n = wire.v \div 8),
             dAtA, i, m, wire)

Rest(type, dAtA, r) ==
    IF r.ok THEN Unmarshal(type, dAtA, r.next, r.m) ELSE Failed

(* The fields found from i on, read into m. *)
Unmarshal(type, dAtA, i, m) ==
    IF i > Len(dAtA) THEN [ok |-> TRUE, m |-> m]
    ELSE Rest(type, dAtA, FieldAt(type, dAtA, i, m, decodeVarint(dAtA, i)))

Decode(type, b) == Unmarshal(type, b, 1, Zero(type))
==============================================================================
