------------------------------- MODULE ZclTypes -------------------------------
(***************************************************************************)
(* C++ types of cluster members and the ZCL types they get, of             *)
(* zb_types.hpp.  A type is named for what the templates ask of it: "enum" *)
(* converts to a number and "enum_class" does not, "map8" and "map32" are  *)
(* structs of bits with a TypeId(), "str" is one of the strings that start *)
(* with their length, "chars" an array of char and "struct" one of ZBOSS's *)
(* own.                                                                    *)
(***************************************************************************)
EXTENDS Integers, SequencesExt

Unsigned == {"u8", "u16", "u32", "u64", "bool"}
Signed == {"s8", "s16", "s32", "s64"}
Integral == Unsigned \cup Signed

SizeOf ==
    [u8 |-> 1, u16 |-> 2, u32 |-> 4, u64 |-> 8, s8 |-> 1, s16 |-> 2, s32 |-> 4,
     s64 |-> 8, bool |-> 1, float |-> 4, double |-> 8, enum |-> 1,
     enum_class |-> 1, map8 |-> 1, map32 |-> 4, str |-> 33, chars |-> 32,
     struct |-> 12]

\* The ZCL type of a member that declares none; others do not compile.
TypeIds ==
    [u8 |-> "U8", u16 |-> "U16", u32 |-> "U32", u64 |-> "U64", s8 |-> "S8",
     s16 |-> "S16", s32 |-> "S32", s64 |-> "S64", bool |-> "Bool",
     float |-> "Float", double |-> "Double", enum |-> "E8", enum_class |-> "E8",
     map8 |-> "Map8", map32 |-> "Map32", str |-> "CharStr"]

TypeToTypeId_AlarmsInAByte(mem) == IF mem = "map32" THEN "Map8" ELSE TypeIds[mem]

TypeToTypeId(mem) == TypeIds[mem]

\* Strings of the library and its other types with a TypeValidator.
HasTypeValidator(mem) == mem = "str"

\* Bytes of a value of a ZCL type on the wire; a string starts with its length.
Width ==
    [U8 |-> 1, U16 |-> 2, U32 |-> 4, U64 |-> 8, S8 |-> 1, S16 |-> 2, S32 |-> 4,
     S64 |-> 8, Bool |-> 1, Float |-> 4, Double |-> 8, E8 |-> 1, E16 |-> 2,
     Map8 |-> 1, Map32 |-> 4]

===============================================================================
