-------------------------------- MODULE Codec --------------------------------
(*
 * Messages on their way: a message of x/wasm is encoded by the generated code,
 * carried by a transaction, a query or the store, and decoded. On the way it may
 * get a field that this version does not know, as from a newer client, have its
 * fields in another order, as from another implementation of protobuf, or lose
 * its end.
 *
 * Bounds: numbers and byte strings have the lengths around which the varints of
 * the encoding grow; at most one of the fields is long.
 *)
EXTENDS Wire

VARIABLES msgType, (* the type of the message on its way *)
          sent,    (* the message *)
          carried, (* its bytes *)
          how,     (* "nothing", or what happened to them on the way *)
          got      (* what was decoded, or Nothing *)
codecVars == <<msgType, sent, carried, how, got>>

CodecIdle ==
    /\ how = "nothing" /\ msgType = ""
    /\ sent = Nothing /\ carried = Nothing /\ got = Nothing

------------------------------------------------------------------------------
(* Messages that are sent *)

Short == <<65>>
Long == [i \in 1..128 |-> 65]

RECURSIVE Full(_)

(* Values of a field other than the default, the simplest one first. A nested *)
(* message is full or zero.                                                     *)
Values(s, full, zero) ==
    CASE s.form = "bytes" -> <<Short, Long>>
      [] s.form = "varint" -> <<1, 127, 128, 2147483647>>
      [] s.form = "bool" -> <<TRUE>>
      [] s.form = "pointer" -> << <<full>>, <<zero>> >>
      [] s.form = "value" -> <<full>>
      [] s.form = "messages" -> << <<full>>, <<zero, full>> >>
      [] s.form = "list" -> << <<Short>>, << << >>, Short>> >>
      [] s.form = "packed" -> << <<1>>, <<300, 0>> >>

Samples(s) == Values(s, Full(s.type), Zero(s.type))

FieldsOf(t) == ToSet(Known[t].unmarshal)

AllSet(fields) ==
    [f \in {s.field : s \in fields} |->
        Samples(CHOOSE s \in fields : s.field = f)[1]]
Full(t) == AllSet(FieldsOf(t))

(* One field has any of its values, and the others all or none are set. *)
Varied(fields, zero, full) ==
    UNION {LET values == ToSet(Samples(s)) \cup {zero[s.field]}
           IN  UNION {{[m EXCEPT ![s.field] = v] : v \in values} :
                        m \in {zero, full}} :
             s \in fields}
MessagesOf(t) == {Zero(t)} \cup Varied(FieldsOf(t), Zero(t), Full(t))

------------------------------------------------------------------------------
(* What happens to them *)

(* Fields with number 15, which no message of the module has. *)
UnknownFields ==
    {<<120>> \o encodeVarint(300),                      (* a number *)
     <<121, 1, 2, 3, 4, 5, 6, 7, 8>>,                   (* fixed64 *)
     <<122, 2, 8, 1>>,                                  (* delimited *)
     <<123, 8, 1, 19, 20, 124>>,                        (* nested groups *)
     <<125, 1, 2, 3, 4>>}                               (* fixed32 *)

(* The length of the first n pieces, and whether a piece ends at k. *)
Upto(pieces, n) == Len(FlattenSeq(SubSeq(pieces, 1, n)))
Boundary(pieces, k) == \E n \in 0..Len(pieces) : Upto(pieces, n) = k

Write ==
    /\ how = "nothing"
    /\ \E t \in DOMAIN Own : \E m \in MessagesOf(t) :
          /\ msgType' = t
          /\ sent' = m
          /\ carried' = Marshal(t, m)
    /\ how' = "intact"
    /\ UNCHANGED got

Noisy ==
    /\ how = "intact"
    /\ got = Nothing
    /\ carried # Panic
    /\ UNCHANGED <<msgType, sent, got>>

AddField ==
    /\ Noisy
    /\ LET pieces == Pieces(msgType, sent)
       IN  \E n \in 0..Len(pieces), field \in UnknownFields :
              LET k == Upto(pieces, n)
              IN  carried' = SubSeq(carried, 1, k) \o field
                               \o SubSeq(carried, k + 1, Len(carried))
    /\ how' = "extended"

SwapFields ==
    /\ Noisy
    /\ LET pieces == Pieces(msgType, sent)
       IN  \E n \in 1..(Len(pieces) - 1) :
              /\ pieces[n][1] # pieces[n + 1][1]
              /\ carried' = FlattenSeq(
                    [pieces EXCEPT ![n] = pieces[n + 1], ![n + 1] = pieces[n]])
    /\ how' = "reordered"

Cut ==
    /\ Noisy
    /\ \E k \in 0..(Len(carried) - 1) : carried' = SubSeq(carried, 1, k)
    /\ how' = "cut"

Read ==
    /\ how # "nothing"
    /\ got = Nothing
    /\ carried # Panic
    /\ got' = Decode(msgType, carried)
    /\ UNCHANGED <<msgType, sent, carried, how>>

CodecNext ==
    \/ Write
    \/ AddField
    \/ SwapFields
    \/ Cut
    \/ Read

------------------------------------------------------------------------------
(* Properties *)

(* Marshal never panics, and Unmarshal gives back the message that was        *)
(* encoded, whatever its fields, also when there are fields it does not know  *)
(* or their order is another one. That needs Size to be exactly what          *)
(* MarshalToSizedBuffer writes at every level of nesting: the buffer is cut   *)
(* at its start.                                                              *)
RoundTrips ==
    /\ carried # Panic
    /\ got # Nothing /\ how # "cut" => got = [ok |-> TRUE, m |-> sent]

(* Unmarshal accepts a message that lost its end only if it ends between two  *)
(* fields, and then every field has the value that was sent, its default, or, *)
(* if it is repeated, the first of its elements: no value is cut short.       *)
CutNoticed ==
    got # Nothing /\ how = "cut" /\ got.ok =>
        /\ Boundary(Pieces(msgType, sent), Len(carried))
        /\ \A s \in FieldsOf(msgType) :
              LET v == got.m[s.field]
              IN  \/ v \in {sent[s.field], Zero(msgType)[s.field]}
                  \/ /\ s.form \in {"messages", "list"}
                     /\ IsPrefix(v, sent[s.field])
==============================================================================
