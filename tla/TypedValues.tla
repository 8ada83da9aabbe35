----------------------------- MODULE TypedValues -----------------------------
(***************************************************************************)
(* The values that typed handlers are called with, of zb_handlers.hpp: a   *)
(* handler of written values (handle_set_for, to_handler_v) reads the      *)
(* union in which ZBOSS passes the value, and a handler of reports reads   *)
(* the bytes of the message (get_typed_data, with its type on the wire).   *)
(* Bytes are told apart and otherwise abstract; "?" is one nobody wrote.   *)
(***************************************************************************)
EXTENDS ZclTypes

\* A written or reported value of a ZCL type: its bytes, in order.
Bytes(type) ==
    IF type \in DOMAIN Width THEN [i \in 1 .. Width[type] |-> <<type, i>>]
    ELSE <<"length", "char">>

\* zb_zcl_set_attr_value_param_t::values: numbers lie in the union itself, and
\* of a string there is a pointer to its bytes.
SetAttrValues(type) ==
    IF type \in DOMAIN Width
    THEN [inline |-> [i \in 1 .. 8 |-> IF i <= Width[type] THEN <<type, i>> ELSE "?"],
          p_data |-> <<"?">>]
    ELSE [inline |-> [i \in 1 .. 8 |-> "?"], p_data |-> Bytes(type)]

\* What a type whose length comes first finds at p_data, and any other finds
\* in the member of the union of its size; other sizes do not compile.
TypedSetData(T, values) ==
    IF T = "str" THEN values.p_data ELSE SubSeq(values.inline, 1, SizeOf[T])

\* Types of which handle_set_for accepts a handler for a member: its own, and
\* those to which the compiler converts it.
Arithmetic == Integral \cup {"float", "double"}
HandlerTypes(mem) ==
    {mem} \cup (IF mem \in Arithmetic \cup {"enum"} THEN Arithmetic ELSE {})

ReadFor_Argument(mem, arg, values) == TypedSetData(arg, values)

\* The value is read as the member's type, then converted to the argument's.
ReadFor(mem, arg, values) ==
    IF arg = mem THEN TypedSetData(arg, values) ELSE TypedSetData(mem, values)

\* The types on the wire that get_typed_data<T> of a report accepts; it stops
\* the device for any other.
Accepted(T) ==
    CASE T \in Signed /\ SizeOf[T] = 1 -> {"S8", "E8"}
      [] T \in Signed /\ SizeOf[T] = 2 -> {"S16", "E16"}
      [] T \in Signed /\ SizeOf[T] = 4 -> {"S32"}
      [] T \in Signed /\ SizeOf[T] = 8 -> {"S64"}
      [] T \in Unsigned /\ SizeOf[T] = 1 -> {"U8", "E8"}
      [] T \in Unsigned /\ SizeOf[T] = 2 -> {"U16", "E16"}
      [] T \in Unsigned /\ SizeOf[T] = 4 -> {"U32"}
      [] T \in Unsigned /\ SizeOf[T] = 8 -> {"U64"}

Abort == <<>>

TypedReportData(T, type) ==
    IF type \in Accepted(T)
    THEN [i \in 1 .. SizeOf[T] |-> IF i \in DOMAIN Bytes(type) THEN Bytes(type)[i] ELSE "?"]
    ELSE Abort

=============================================================================
