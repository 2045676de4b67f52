------------------------------ MODULE WireForms ------------------------------
(*
 * The forms in which the generated protobuf code of x/wasm writes, measures and
 * reads a field. A message is described by three sequences of such fields, one
 * for each of its generated functions; what n stands for depends on the function
 * (see the modules that use the forms). The operators are in Wire.
 *)
EXTENDS Naturals

Field(field, form, type, n) ==
    [field |-> field, form |-> form, type |-> type, n |-> n]

(* Byte strings and texts, left out when empty. *)
bytes(field, n) == Field(field, "bytes", "", n)

(* Unsigned numbers and enumerations, left out when 0. *)
varint(field, n) == Field(field, "varint", "", n)

(* Flags, left out when FALSE. *)
bool(field, n) == Field(field, "bool", "", n)

(* A message behind a pointer, left out when nil. *)
pointer(field, type, n) == Field(field, "pointer", type, n)

(* A message held by value, always written. *)
value(field, type, n) == Field(field, "value", type, n)

(* Repeated messages, repeated byte strings and packed numbers. *)
messages(field, type, n) == Field(field, "messages", type, n)
list(field, n) == Field(field, "list", "", n)
packed(field, n) == Field(field, "packed", "", n)

Schema(marshal, size, unmarshal) ==
    [marshal |-> marshal, size |-> size, unmarshal |-> unmarshal]
==============================================================================
