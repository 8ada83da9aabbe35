------------------------------- MODULE CmdArgs -------------------------------
(***************************************************************************)
(* The arguments of cluster commands on their way from one device to       *)
(* another: serialize_to (zb_types.hpp, zb_str.hpp) packs the sender's     *)
(* variables one behind the other, raw_handler (cluster_in_cmd_desc_t in   *)
(* zb_desc_helper_types_cluster.hpp) takes the receiver's out again.       *)
(* The sender's variables are attributes: ZBOSS overwrites them with       *)
(* values of their wire type that their TypeValidator accepts.             *)
(*                                                                         *)
(* A type is [kind, size, elem]: "raw" is an arithmetic type or an enum;   *)
(* "str" is zigbee_str_t<size>, "bin" zigbee_bin_t<size>, "arr" a          *)
(* zigbee_bin_typed_array_t of elements of elem bytes.  A variable is the  *)
(* sequence of its bytes, size many (sizeof and serialize_limit agree);    *)
(* all but "raw" begin with a byte of length.                              *)
(***************************************************************************)
EXTENDS Integers, Sequences

CONSTANTS
    Signatures,                \* Args... of the commands: sequences of types
    Chars,                     \* bytes of contents
    kMaxAllowedArgumentSize,   \* the limit send_cmd_impl passes to store_to
    kIntSize,                  \* sizeof(int): of a literal passed to send_cmd
    PassLiterals,              \* does the sender pass int literals?
    EvalOrders                 \* orders in which the compiler of the receiver
                               \* evaluates the arguments of a call

\* The bytes that the first n arguments of types ts have in memory.
Sizes(ts) ==
    LET Sum[n \in 0 .. Len(ts)] == IF n = 0 THEN 0 ELSE Sum[n - 1] + ts[n].size
    IN  Sum

Total(ts) == Sizes(ts)[Len(ts)]

Types == [kind : {"raw", "str", "bin", "arr"}, size : 1 .. 255, elem : 1 .. 255]

ASSUME CmdArgsAssumption ==
    /\ Chars \subseteq 0 .. 255
    /\ kIntSize \in 1 .. 255 /\ kMaxAllowedArgumentSize \in Nat
    /\ PassLiterals \in BOOLEAN
    /\ EvalOrders \subseteq {"left to right", "right to left"}
    /\ Signatures \subseteq Seq(Types)
    \* the static_assert of ep_desc_t
    /\ \A ts \in Signatures : Total(ts) <= kMaxAllowedArgumentSize
    /\ \A ts \in Signatures : \A i \in DOMAIN ts :
          ts[i].kind = "arr" => (ts[i].size - 1) % ts[i].elem = 0

VARIABLES
    sig,        \* the command's declared argument types
    mem,        \* the sender's variables, one for each argument
    literal,    \* the arguments passed as int literals in the last send_cmd
    sent,       \* the variables when the command was sent
    wire,       \* the arguments in the packet
    got         \* what the receiver's callback was called with

vars == <<sig, mem, literal, sent, wire, got>>

\* Negative numbers stand where no byte can.
NoPacket == <<-1>>
Undefined == <<-2>>         \* an empty optional was dereferenced
NotCalled == <<<<-1>>>>
Refused == <<<<-2>>>>       \* RET_ILLEGAL_REQUEST

Zeros(n) == [j \in 1 .. n |-> 0]
Capacity(t) == t.size - 1

-----------------------------------------------------------------------------
(* One argument of type t in the bytes v, written when limit bytes are     *)
(* left.  <<>> stands for std::nullopt: every other result has a byte.     *)

Nullopt == <<>>

Prefixed(len, v) == <<len>> \o SubSeq(v, 2, len + 1)

SerializeRaw_Strict(v, limit) == IF Len(v) >= limit THEN Nullopt ELSE v

SerializeRaw(v, limit) == IF Len(v) > limit THEN Nullopt ELSE v

SerializeStr(v, limit) ==
    IF v[1] >= limit THEN Nullopt ELSE Prefixed(v[1], v)

SerializeBin_ByLength(v, limit) ==
    IF v[1] >= limit THEN Nullopt ELSE Prefixed(v[1], v)

\* size() is the capacity whatever the first byte says.
SerializeBin(v, limit) ==
    IF Len(v) - 1 >= limit THEN Nullopt ELSE Prefixed(Len(v) - 1, v)

SerializeArr_NoPrefix(t, v, limit) ==
    IF v[1] \div t.elem >= limit THEN Nullopt
    ELSE <<v[1]>> \o SubSeq(v, 1, v[1])

\* The limit is compared with the number of elements, size().
SerializeArr(t, v, limit) ==
    IF v[1] \div t.elem >= limit THEN Nullopt ELSE Prefixed(v[1], v)

SerializeTo(t, v, limit) ==
    CASE t.kind = "raw" -> SerializeRaw(v, limit)
      [] t.kind = "str" -> SerializeStr(v, limit)
      [] t.kind = "bin" -> SerializeBin(v, limit)
      [] t.kind = "arr" -> SerializeArr(t, v, limit)

\* What serialize_from makes of the variable v from the bytes src.
SerializeFrom(t, v, src, limit) ==
    CASE t.kind = "raw" ->
            IF t.size > limit THEN Nullopt ELSE SubSeq(src, 1, t.size)
      [] t.kind \in {"str", "bin"} ->
            IF src[1] >= t.size \/ src[1] >= limit THEN Nullopt
            ELSE SubSeq(src, 1, src[1]) \o SubSeq(v, src[1] + 1, t.size)
      [] t.kind = "arr" ->
            IF src[1] > Capacity(t) \/ src[1] >= limit THEN Nullopt
            ELSE SubSeq(src, 1, src[1] + 1) \o SubSeq(v, src[1] + 2, t.size)

\* The contents a program sees in a variable.
Contents(t, v) ==
    CASE t.kind = "raw" -> v
      [] t.kind = "bin" -> SubSeq(v, 2, t.size)
      [] OTHER          -> SubSeq(v, 2, v[1] + 1)

TypeValidator_Closed(t, value) ==
    CASE t.kind = "raw" -> TRUE
      [] t.kind \in {"str", "bin"} -> value[1] <= t.size
      [] t.kind = "arr" -> value[1] <= Capacity(t) /\ value[1] % t.elem = 0

\* TypeValidator of value, which begins with its length.
TypeValidator(t, value) ==
    CASE t.kind = "raw" -> TRUE
      [] t.kind \in {"str", "bin"} -> value[1] < t.size
      [] t.kind = "arr" -> value[1] <= Capacity(t) /\ value[1] % t.elem = 0

-----------------------------------------------------------------------------
(* Both devices. *)

Init ==
    /\ sig \in Signatures
    /\ mem = [i \in DOMAIN sig |-> Zeros(sig[i].size)]
    /\ literal = {}
    /\ sent = mem
    /\ wire = NoPacket
    /\ got = NotCalled

\* The values ZBOSS may be asked to write into an attribute of type t.
WireValues(t) ==
    IF t.kind = "raw" THEN [1 .. t.size -> Chars]
    ELSE UNION {{<<n>> \o s : s \in [1 .. n -> Chars]} : n \in 0 .. t.size}

\* ZBOSS writes an attribute: the length and the bytes the value has.
WriteAttr(i, value) ==
    /\ TypeValidator(sig[i], value)
    /\ mem' = [mem EXCEPT ![i] =
                 value \o SubSeq(mem[i], Len(value) + 1, Len(mem[i]))]
    /\ UNCHANGED <<sig, literal, sent, wire, got>>

\* store_to with the arguments args of types ts: each goes behind the last
\* one, and *nullopt is undefined.
StoreTo(ts, args, limit) ==
    LET Stored[n \in 0 .. Len(ts)] ==
            IF n = 0 THEN <<>>
            ELSE LET dst == Stored[n - 1]
                     s == SerializeTo(ts[n], args[n], limit - Len(dst))
                 IN  IF dst = Undefined \/ s = Nullopt THEN Undefined ELSE dst \o s
    IN  Stored[Len(ts)]

\* The type and the bytes of argument i: store_to takes the type of what it
\* is passed, and an integer literal is an int.
Passed(i) ==
    IF i \in literal'
    THEN [type |-> [kind |-> "raw", size |-> kIntSize, elem |-> 1],
          bytes |-> mem[i] \o Zeros(kIntSize - sig[i].size)]
    ELSE [type |-> sig[i], bytes |-> mem[i]]

MayBeLiteral(i) ==
    PassLiterals /\ sig[i].kind = "raw" /\ sig[i].size <= kIntSize

SendCmd ==
    /\ literal' \in SUBSET {i \in DOMAIN sig : MayBeLiteral(i)}
    /\ sent' = mem
    /\ wire' = StoreTo([i \in DOMAIN sig |-> Passed(i).type],
                       [i \in DOMAIN sig |-> Passed(i).bytes],
                       kMaxAllowedArgumentSize)
    /\ got' = NotCalled
    /\ UNCHANGED <<sig, mem>>

\* Where the argument i begins: cmd_to_arg_t advances by sizeof in the order
\* in which the arguments of the call are evaluated.
Offset(i, order) ==
    IF order = "left to right" THEN Sizes(sig)[i - 1]
    ELSE Total(sig) - Sizes(sig)[i]

ToArgs(data, order) ==
    [i \in DOMAIN sig |-> LET o == Offset(i, order)
                          IN  SubSeq(data, o + 1, o + sig[i].size)]

kArgRawSize == Total(sig)

\* raw_handler of a field that has a callback.
RawHandler(order) ==
    /\ wire \notin {NoPacket, Undefined}
    /\ got' = IF Len(wire) < kArgRawSize THEN Refused ELSE ToArgs(wire, order)
    /\ UNCHANGED <<sig, mem, literal, sent, wire>>

Next ==
    \/ \E i \in DOMAIN sig : \E value \in WireValues(sig[i]) : WriteAttr(i, value)
    \/ SendCmd
    \/ \E order \in EvalOrders : RawHandler(order)

Spec == Init /\ [][Next]_vars

-----------------------------------------------------------------------------
(* Properties. *)

IsArgs(g) == g \notin {NotCalled, Refused}

Bytes == 0 .. 255

TypeOK ==
    /\ sig \in Signatures
    /\ DOMAIN mem = DOMAIN sig /\ DOMAIN sent = DOMAIN sig
    /\ \A i \in DOMAIN sig : Len(mem[i]) = sig[i].size /\ mem[i] \in Seq(Bytes)
    /\ literal \subseteq DOMAIN sig
    /\ wire \in {NoPacket, Undefined} \cup Seq(Bytes)
    /\ IsArgs(got) => \A i \in DOMAIN sig : Len(got[i]) = sig[i].size

\* store_to never dereferences an empty optional: what the static_assert of
\* ep_desc_t checks of the types is enough for every value, and arguments of
\* the declared types take no more than was reckoned for them.
AlwaysStored ==
    literal = {} /\ wire # NoPacket =>
        wire # Undefined /\ Len(wire) <= Total(sig)

\* The receiver's callback is called, with the sender's arguments.
Arrived ==
    got # NotCalled =>
        /\ got # Refused
        /\ \A i \in DOMAIN sig :
              Contents(sig[i], got[i]) = Contents(sig[i], sent[i])

IsFixed(t) == t.kind \in {"raw", "bin"}

\* Arguments whose types have one size on the wire arrive.
FixedArgsArrive ==
    literal = {} /\ (\A i \in DOMAIN sig : IsFixed(sig[i])) => Arrived

\* README.md: the handler is invoked with unpacked typed arguments, be they
\* strings or arrays.
ArgsArrive == Arrived

\* Read back with serialize_from, a value of type t is what was serialized.
ReadBack(i) ==
    LET t == sig[i]
        src == SerializeTo(t, mem[i], t.size)
        v == SerializeFrom(t, Zeros(t.size), src, Len(src))
    IN  v # Nullopt /\ Contents(t, v) = Contents(t, mem[i])

\* Numbers and typed arrays are read back as they were written; strings and
\* buffers lose their last byte in serialize_from.
NumbersReadBack == \A i \in DOMAIN sig : sig[i].kind \in {"raw", "arr"} => ReadBack(i)

=============================================================================
