---------------------------- MODULE CmdArgsProofs ----------------------------
(***************************************************************************)
(* Proofs about CmdArgs, for commands with any number of arguments of any  *)
(* size and any contents.  First what the recursions over Args... compute: *)
(* where an argument begins, and what store_to packs; then one step for    *)
(* each action.                                                            *)
(***************************************************************************)
EXTENDS CmdArgs, NatMin, SequenceTheorems

(* Every argument has a size. *)
LEMMA TypeFields ==
    ASSUME NEW t \in Types
    PROVE  /\ t.kind \in {"raw", "str", "bin", "arr"}
           /\ t.size \in 1 .. 255 /\ t.size \in Nat /\ t.size >= 1 /\ t.size <= 255
           /\ t.elem \in 1 .. 255 /\ t.elem \in Nat /\ t.elem >= 1
<1>1. /\ t.kind \in {"raw", "str", "bin", "arr"}
      /\ t.size \in 1 .. 255
      /\ t.elem \in 1 .. 255
  BY DEF Types
<1> QED BY <1>1

(* Bytes are the small numbers. *)
LEMMA BytesAre ==
    /\ \A n \in Nat : n <= 255 => n \in Bytes
    /\ \A n \in Bytes : n \in Nat
BY DEF Bytes

-----------------------------------------------------------------------------
(* Where arguments begin. *)

(* Sizes adds the size of one type after the other. *)
LEMMA SizesAdd ==
    ASSUME NEW ts \in Seq(Types)
    PROVE  /\ Sizes(ts) \in [0 .. Len(ts) -> Nat]
           /\ Sizes(ts)[0] = 0
           /\ \A n \in 1 .. Len(ts) : Sizes(ts)[n] = Sizes(ts)[n - 1] + ts[n].size
<1> DEFINE
      L == Len(ts)
      Sum[n \in 0 .. Len(ts)] == IF n = 0 THEN 0 ELSE Sum[n - 1] + ts[n].size
      Body(g, n) == [i \in 0 .. n |-> IF i = 0 THEN 0 ELSE g[i - 1] + ts[i].size]
      E == {n \in Nat : \E g : g = Body(g, n)}
<1>0. L \in Nat /\ \A n \in 1 .. L : ts[n].size \in Nat
  <2>1. \A n \in 1 .. L : ts[n] \in Types
    OBVIOUS
  <2> QED BY <2>1, TypeFields
<1>1. Sizes(ts) = Sum
  BY DEF Sizes
<1>2. Sum = CHOOSE g : g = Body(g, L)
  OBVIOUS
<1> HIDE DEF Sum
<1>3. 0 \in E
  <2> DEFINE g == [i \in 0 .. 0 |-> 0]
  <2>1. g = Body(g, 0)
    OBVIOUS
  <2> QED BY <2>1
<1>4. ASSUME NEW n \in Nat, n \in E PROVE n + 1 \in E
  <2>1. PICK g : g = Body(g, n)
    BY <1>4
  <2> DEFINE h == [i \in 0 .. n + 1 |-> IF i <= n THEN g[i] ELSE g[n] + ts[i].size]
  <2>2. ASSUME NEW i \in 0 .. n + 1
        PROVE  h[i] = IF i = 0 THEN 0 ELSE h[i - 1] + ts[i].size
    <3>1. CASE i = 0
      BY <2>1, <3>1
    <3>2. CASE i \in 1 .. n
      <4>1. h[i - 1] = g[i - 1] /\ h[i] = g[i]
        BY <3>2
      <4>2. g[i] = g[i - 1] + ts[i].size
        <5> HIDE DEF h
        <5> QED BY <2>1, <3>2
      <4> QED BY <4>1, <4>2, <3>2
    <3>3. CASE i = n + 1
      <4>1. h[i - 1] = g[n] /\ h[i] = g[n] + ts[i].size
        BY <3>3
      <4> QED BY <4>1, <3>3
    <3> QED BY <3>1, <3>2, <3>3
  <2>3. h = Body(h, n + 1)
    <3>1. h = [i \in 0 .. n + 1 |-> h[i]]
      OBVIOUS
    <3> HIDE DEF h
    <3> QED BY <2>2, <3>1
  <2> HIDE DEF Body, h
  <2> QED BY <2>3
<1>5. L \in E
  <2> HIDE DEF E
  <2> QED BY <1>0, <1>3, <1>4, SetInduction
<1>6. Sum = Body(Sum, L)
  <2>1. PICK g : g = Body(g, L)
    BY <1>5
  <2> HIDE DEF Body
  <2> QED BY <2>1, <1>2
<1>7. /\ Sum[0] = 0
      /\ \A n \in 1 .. L : Sum[n] = Sum[n - 1] + ts[n].size
      /\ Sum = [n \in 0 .. L |-> Sum[n]]
  BY <1>0, <1>6
<1>8. \A m \in 0 .. L : Sum[m] \in Nat
  <2> DEFINE J == {n \in Nat : n <= L => Sum[n] \in Nat}
  <2>1. 0 \in J
    BY <1>7
  <2>2. ASSUME NEW n \in Nat, n \in J PROVE n + 1 \in J
    <3> SUFFICES ASSUME n + 1 <= L PROVE Sum[n + 1] \in Nat
      OBVIOUS
    <3>1. Sum[n] \in Nat /\ n + 1 \in 1 .. L /\ (n + 1) - 1 = n
      BY <1>0, <2>2
    <3>2. Sum[n + 1] = Sum[n] + ts[n + 1].size
      BY <3>1, <1>7
    <3>3. ts[n + 1].size \in Nat
      BY <3>1, <1>0
    <3> QED BY <3>1, <3>2, <3>3
  <2>3. \A n \in Nat : n \in J => n + 1 \in J
    BY <2>2
  <2>4. Nat \subseteq J
    <3> HIDE DEF J
    <3> QED BY <2>1, <2>3, SetInduction
  <2> QED BY <1>0, <2>4
<1> QED BY <1>1, <1>7, <1>8

(* An argument begins no earlier than the ones before it. *)
LEMMA SizesInOrder ==
    ASSUME NEW ts \in Seq(Types), NEW n \in 0 .. Len(ts), NEW m \in 0 .. n
    PROVE  Sizes(ts)[m] <= Sizes(ts)[n]
<1> DEFINE J == {k \in Nat : k <= n => Sizes(ts)[n - k] <= Sizes(ts)[n]}
<1>0. /\ n \in Nat
      /\ \A i \in 0 .. n : Sizes(ts)[i] \in Nat
      /\ \A i \in 1 .. n : /\ ts[i].size \in Nat
                           /\ Sizes(ts)[i] = Sizes(ts)[i - 1] + ts[i].size
  <2>1. \A i \in 1 .. n : ts[i] \in Types
    OBVIOUS
  <2>2. \A t \in Types : t.size \in Nat
    BY TypeFields
  <2>3. n \in Nat
    OBVIOUS
  <2> QED BY <2>1, <2>2, <2>3, SizesAdd
<1>1. 0 \in J
  BY <1>0
<1>2. ASSUME NEW k \in Nat, k \in J PROVE k + 1 \in J
  <2> SUFFICES ASSUME k + 1 <= n PROVE Sizes(ts)[n - (k + 1)] <= Sizes(ts)[n]
    OBVIOUS
  <2>1. n - k \in 1 .. n /\ (n - k) - 1 = n - (k + 1) /\ n - (k + 1) \in 0 .. n
        /\ n \in 0 .. n /\ n - k \in 0 .. n
    BY <1>0
  <2>2. Sizes(ts)[n - k] <= Sizes(ts)[n]
    BY <1>2, <1>0
  <2>3. Sizes(ts)[n - k] = Sizes(ts)[n - (k + 1)] + ts[n - k].size
    BY <1>0, <2>1
  <2>4. ts[n - k].size \in Nat /\ Sizes(ts)[n - (k + 1)] \in Nat /\ Sizes(ts)[n] \in Nat
    BY <1>0, <2>1
  <2> QED BY <2>2, <2>3, <2>4
<1>3. \A k \in Nat : k \in J => k + 1 \in J
  BY <1>2
<1>4. Nat \subseteq J
  <2> HIDE DEF J
  <2> QED BY <1>1, <1>3, SetInduction
<1>5. n - m \in Nat /\ n - m <= n /\ n - (n - m) = m
  BY <1>0
<1> QED BY <1>4, <1>5

-----------------------------------------------------------------------------
(* One argument. *)

\* The bytes v are a variable of type t.
IsVariable(t, v) ==
    /\ v \in Seq(Bytes)
    /\ Len(v) = t.size
    /\ t.kind # "raw" => v[1] <= Capacity(t)

\* What is written of a type that has one size on the wire.
OnWire(t, v) == IF t.kind = "raw" THEN v ELSE Prefixed(Len(v) - 1, v)

(* A length that lies in the variable, and what it counts. *)
LEMMA PrefixedBytes ==
    ASSUME NEW v \in Seq(Bytes), NEW len \in Bytes, len < Len(v)
    PROVE  /\ Prefixed(len, v) \in Seq(Bytes)
           /\ Len(Prefixed(len, v)) = len + 1
           /\ Prefixed(len, v)[1] = len
           /\ \A j \in 2 .. len + 1 : Prefixed(len, v)[j] = v[j]
<1> DEFINE tail == SubSeq(v, 2, len + 1)
<1>0. len \in Nat /\ Len(v) \in Nat
  BY DEF Bytes
<1>1. tail \in Seq(Bytes) /\ Len(tail) = len /\ \A j \in 1 .. len : tail[j] = v[j + 1]
  <2>1. tail = [j \in 1 .. len |-> v[j + 1]]
    BY <1>0
  <2>2. \A j \in 1 .. len : v[j + 1] \in Bytes
    BY <1>0
  <2> HIDE DEF tail
  <2> QED BY <1>0, <2>1, <2>2
<1> HIDE DEF tail
<1>2. <<len>> \in Seq(Bytes) /\ Len(<<len>>) = 1 /\ <<len>>[1] = len
  OBVIOUS
<1>3. /\ <<len>> \o tail \in Seq(Bytes)
      /\ Len(<<len>> \o tail) = len + 1
      /\ (<<len>> \o tail)[1] = len
      /\ \A j \in 2 .. len + 1 : (<<len>> \o tail)[j] = tail[j - 1]
  BY <1>0, <1>1, <1>2
<1>4. \A j \in 2 .. len + 1 : tail[j - 1] = v[j]
  <2> SUFFICES ASSUME NEW j \in 2 .. len + 1 PROVE tail[j - 1] = v[j]
    OBVIOUS
  <2>1. j - 1 \in 1 .. len /\ (j - 1) + 1 = j
    BY <1>0
  <2> QED BY <1>1, <2>1
<1> QED BY <1>3, <1>4 DEF Prefixed, tail

(* serialize_to writes bytes, no more than were reckoned for the type, and
   returns no empty optional when there is room for that many. *)
LEMMA SerializeWrites ==
    ASSUME NEW t \in Types, NEW v, IsVariable(t, v), NEW limit \in Int
    PROVE  LET s == SerializeTo(t, v, limit)
           IN  /\ s \in Seq(Bytes)
               /\ Len(s) <= t.size
               /\ limit >= t.size => s # Nullopt
               /\ s # Nullopt /\ IsFixed(t) => Len(s) = t.size /\ s = OnWire(t, v)
<1>0. /\ v \in Seq(Bytes) /\ Len(v) = t.size /\ t.size \in Nat /\ t.size >= 1
      /\ t.elem \in Nat /\ t.elem >= 1
      /\ Nullopt \in Seq(Bytes) /\ Len(Nullopt) = 0
      /\ v[1] \in Bytes /\ v[1] \in Nat
  <2>1. v \in Seq(Bytes) /\ Len(v) = t.size /\ t.size \in Nat /\ t.size >= 1
        /\ t.elem \in Nat /\ t.elem >= 1
    BY TypeFields DEF IsVariable
  <2>2. v[1] \in Bytes
    BY <2>1
  <2>3. v[1] \in Nat
    BY <2>2 DEF Bytes
  <2>4. Nullopt \in Seq(Bytes) /\ Len(Nullopt) = 0
    BY DEF Nullopt
  <2> QED BY <2>1, <2>2, <2>3, <2>4
<1>1. CASE t.kind = "raw"
  <2>1. SerializeTo(t, v, limit) = IF t.size > limit THEN Nullopt ELSE v
    BY <1>0, <1>1 DEF SerializeTo, SerializeRaw
  <2>2. v # Nullopt /\ OnWire(t, v) = v
    BY <1>0, <1>1 DEF OnWire
  <2> QED BY <1>0, <2>1, <2>2
<1>2. ASSUME NEW len \in Bytes, len < Len(v)
      PROVE  /\ Prefixed(len, v) \in Seq(Bytes)
             /\ Len(Prefixed(len, v)) <= t.size
             /\ Prefixed(len, v) # Nullopt
  <2>1. Prefixed(len, v) \in Seq(Bytes) /\ Len(Prefixed(len, v)) = len + 1
    BY <1>0, <1>2, PrefixedBytes
  <2>2. len \in Nat
    BY DEF Bytes
  <2> QED BY <1>0, <1>2, <2>1, <2>2
<1>3. t.kind # "raw" => v[1] < Len(v)
  BY <1>0 DEF IsVariable, Capacity
<1>4. CASE t.kind = "str"
  <2>1. SerializeTo(t, v, limit) = IF v[1] >= limit THEN Nullopt ELSE Prefixed(v[1], v)
    BY <1>4 DEF SerializeTo, SerializeStr
  <2> QED BY <1>0, <1>2, <1>3, <1>4, <2>1 DEF IsFixed
<1>5. CASE t.kind = "bin"
  <2>1. SerializeTo(t, v, limit) =
          IF Len(v) - 1 >= limit THEN Nullopt ELSE Prefixed(Len(v) - 1, v)
    BY <1>5 DEF SerializeTo, SerializeBin
  <2>2. t.size - 1 \in Bytes /\ t.size - 1 < Len(v)
    BY <1>0, TypeFields DEF Bytes
  <2>3. Len(Prefixed(Len(v) - 1, v)) = t.size
    BY <1>0, <2>2, PrefixedBytes
  <2>4. Prefixed(Len(v) - 1, v) = OnWire(t, v)
    BY <1>5 DEF OnWire
  <2> QED BY <1>0, <1>2, <2>1, <2>2, <2>3, <2>4
<1>6. CASE t.kind = "arr"
  <2>1. SerializeTo(t, v, limit) =
          IF v[1] \div t.elem >= limit THEN Nullopt ELSE Prefixed(v[1], v)
    BY <1>6 DEF SerializeTo, SerializeArr
  <2>2. v[1] \div t.elem <= v[1] /\ v[1] \div t.elem \in Nat
    BY <1>0
  <2> QED BY <1>0, <1>2, <1>3, <1>6, <2>1, <2>2 DEF IsFixed
<1> QED BY <1>1, <1>4, <1>5, <1>6, TypeFields

\* The receiver's argument r is what was written of v.
IsWritten(t, v, r) ==
    /\ r \in Seq(Bytes)
    /\ Len(r) = t.size
    /\ \A j \in 1 .. t.size : r[j] = OnWire(t, v)[j]

(* The contents of an argument of one size are all on the wire. *)
LEMMA OnWireContents ==
    ASSUME NEW t \in Types, NEW v, IsVariable(t, v), IsFixed(t), NEW r, IsWritten(t, v, r)
    PROVE  Contents(t, r) = Contents(t, v)
<1>0. /\ v \in Seq(Bytes) /\ Len(v) = t.size /\ t.size \in Nat /\ t.size >= 1
      /\ r \in Seq(Bytes) /\ Len(r) = t.size
      /\ \A j \in 1 .. t.size : r[j] = OnWire(t, v)[j]
  BY TypeFields DEF IsVariable, IsWritten
<1>1. CASE t.kind = "raw"
  <2>1. r = [j \in 1 .. t.size |-> r[j]] /\ v = [j \in 1 .. t.size |-> v[j]]
    BY <1>0
  <2>2. \A j \in 1 .. t.size : r[j] = v[j]
    BY <1>0, <1>1 DEF OnWire
  <2>3. r = v
    BY <2>1, <2>2
  <2> QED BY <2>3
<1>2. CASE t.kind = "bin"
  <2>1. t.size - 1 \in Bytes /\ t.size - 1 < Len(v)
    BY <1>0, TypeFields DEF Bytes
  <2>2. \A j \in 2 .. t.size : r[j] = v[j]
    <3>1. \A j \in 2 .. (t.size - 1) + 1 : OnWire(t, v)[j] = v[j]
      BY <1>0, <1>2, <2>1, PrefixedBytes DEF OnWire
    <3> QED BY <1>0, <3>1
  <2>3. SubSeq(r, 2, t.size) = SubSeq(v, 2, t.size)
    <3>1. /\ SubSeq(r, 2, t.size) = [j \in 1 .. t.size - 1 |-> r[j + 1]]
          /\ SubSeq(v, 2, t.size) = [j \in 1 .. t.size - 1 |-> v[j + 1]]
      BY <1>0
    <3>2. \A j \in 1 .. t.size - 1 : r[j + 1] = v[j + 1]
      BY <1>0, <2>2
    <3> QED BY <3>1, <3>2
  <2> QED BY <1>2, <2>3 DEF Contents
<1> QED BY <1>1, <1>2 DEF IsFixed

-----------------------------------------------------------------------------
(* store_to. *)

\* What store_to is called with: variables of the types.
AreVariables(ts, args) ==
    /\ ts \in Seq(Types)
    /\ \A i \in DOMAIN ts : IsVariable(ts[i], args[i])

\* The bytes dst are the first n arguments, all of one size, where the
\* receiver looks for them.
LaidOut(ts, args, dst, n) ==
    /\ Len(dst) = Sizes(ts)[n]
    /\ \A i \in 1 .. n : \A j \in 1 .. ts[i].size :
          dst[Sizes(ts)[i - 1] + j] = OnWire(ts[i], args[i])[j]

AllFixed(ts) == \A i \in DOMAIN ts : IsFixed(ts[i])

\* The first n arguments went into dst.
IsStored(ts, args, dst, n) ==
    /\ dst \in Seq(Bytes)
    /\ Len(dst) <= Sizes(ts)[n]
    /\ AllFixed(ts) => LaidOut(ts, args, dst, n)

(* What stands for undefined behaviour is no bytes. *)
LEMMA UndefinedIsNoBytes == Undefined \notin Seq(Bytes)
<1>1. Undefined[1] = -2 /\ Len(Undefined) = 1
  BY DEF Undefined
<1>2. ASSUME NEW x \in Seq(Bytes), Len(x) = 1 PROVE x[1] \in Bytes
  <2>1. 1 \in 1 .. Len(x)
    BY <1>2
  <2> QED BY <2>1
<1>3. -2 \notin Bytes
  BY DEF Bytes
<1> QED BY <1>1, <1>2, <1>3

(* One argument more is stored behind the others. *)
LEMMA StoresOneMore ==
    ASSUME NEW ts, NEW args, AreVariables(ts, args), NEW limit \in Nat,
           NEW n \in 1 .. Len(ts), NEW dst, IsStored(ts, args, dst, n - 1)
    PROVE  LET s == SerializeTo(ts[n], args[n], limit - Len(dst))
           IN  /\ dst # Undefined
               /\ s # Nullopt => IsStored(ts, args, dst \o s, n)
               /\ limit >= Sizes(ts)[n] => s # Nullopt
<1> DEFINE s == SerializeTo(ts[n], args[n], limit - Len(dst))
           at == Sizes(ts)
<1>0. /\ ts \in Seq(Types) /\ n \in Nat /\ n - 1 \in 0 .. Len(ts) /\ n \in 0 .. Len(ts)
      /\ ts[n] \in Types /\ IsVariable(ts[n], args[n])
      /\ ts[n].size \in Nat
      /\ dst \in Seq(Bytes) /\ Len(dst) \in Nat /\ Len(dst) <= at[n - 1]
      /\ at[n - 1] \in Nat /\ at[n] \in Nat /\ at[n] = at[n - 1] + ts[n].size
  <2>1. ts \in Seq(Types) /\ ts[n] \in Types /\ IsVariable(ts[n], args[n])
    BY DEF AreVariables
  <2>2. ts[n].size \in Nat
    BY <2>1, TypeFields
  <2>3. n \in Nat /\ n - 1 \in 0 .. Len(ts) /\ n \in 0 .. Len(ts)
    BY <2>1
  <2>4. at[n - 1] \in Nat /\ at[n] \in Nat /\ at[n] = at[n - 1] + ts[n].size
    BY <2>1, <2>3, SizesAdd
  <2>5. dst \in Seq(Bytes) /\ Len(dst) \in Nat /\ Len(dst) <= at[n - 1]
    BY DEF IsStored
  <2> QED BY <2>1, <2>2, <2>3, <2>4, <2>5
<1>1. limit - Len(dst) \in Int
  BY <1>0
<1>2. /\ s \in Seq(Bytes) /\ Len(s) \in Nat /\ Len(s) <= ts[n].size
      /\ limit - Len(dst) >= ts[n].size => s # Nullopt
      /\ s # Nullopt /\ IsFixed(ts[n]) =>
            Len(s) = ts[n].size /\ s = OnWire(ts[n], args[n])
  BY <1>0, <1>1, SerializeWrites
<1> HIDE DEF s
<1>3. dst # Undefined
  BY <1>0, UndefinedIsNoBytes
<1>4. limit >= at[n] => s # Nullopt
  BY <1>0, <1>2
<1>5. /\ dst \o s \in Seq(Bytes) /\ Len(dst \o s) = Len(dst) + Len(s)
      /\ \A j \in 1 .. Len(dst) : (dst \o s)[j] = dst[j]
      /\ \A j \in 1 .. Len(s) : (dst \o s)[Len(dst) + j] = s[j]
  BY <1>0, <1>2
<1>6. Len(dst \o s) <= at[n]
  BY <1>0, <1>2, <1>5
<1>7. ASSUME s # Nullopt, AllFixed(ts) PROVE LaidOut(ts, args, dst \o s, n)
  <2>1. /\ Len(dst) = at[n - 1] /\ Len(s) = ts[n].size /\ s = OnWire(ts[n], args[n])
        /\ \A i \in 1 .. n - 1 : \A j \in 1 .. ts[i].size :
              dst[at[i - 1] + j] = OnWire(ts[i], args[i])[j]
    BY <1>0, <1>2, <1>7 DEF IsStored, LaidOut, AllFixed
  <2>2. ASSUME NEW i \in 1 .. n, NEW j \in 1 .. ts[i].size
        PROVE  (dst \o s)[at[i - 1] + j] = OnWire(ts[i], args[i])[j]
    <3>1. CASE i = n
      BY <2>1, <2>2, <3>1, <1>5
    <3>2. CASE i \in 1 .. n - 1
      <4>1. at[i - 1] + j \in 1 .. Len(dst)
        <5>1. /\ i - 1 \in 0 .. Len(ts) /\ i \in 0 .. Len(ts) /\ i \in 1 .. Len(ts)
          BY <1>0, <3>2
        <5>2. at[i - 1] \in Nat /\ at[i] \in Nat /\ at[i] = at[i - 1] + ts[i].size
              /\ ts[i].size \in Nat
          <6>1. ts[i] \in Types
            BY <1>0, <5>1
          <6> QED BY <1>0, <5>1, <6>1, SizesAdd, TypeFields
        <5>3. at[i] <= at[n - 1]
          BY <1>0, <3>2, SizesInOrder
        <5>4. j \in Nat /\ 1 <= j /\ j <= ts[i].size
          BY <5>2, <2>2
        <5>5. Len(dst) = at[n - 1] /\ at[n - 1] \in Nat
          BY <1>0, <2>1
        <5> HIDE DEF at
        <5> QED BY <5>2, <5>3, <5>4, <5>5
      <4> QED BY <2>1, <2>2, <3>2, <4>1, <1>5
    <3>3. i = n \/ i \in 1 .. n - 1
      BY <1>0
    <3> QED BY <3>1, <3>2, <3>3
  <2> QED BY <2>1, <2>2, <1>0, <1>5 DEF LaidOut
<1> QED BY <1>3, <1>4, <1>5, <1>6, <1>7 DEF IsStored, s

\* One argument goes behind the others, in the recursion of StoreTo.
Put(ts, args, limit, dst, n) ==
    LET s == SerializeTo(ts[n], args[n], limit - Len(dst))
    IN  IF dst = Undefined \/ s = Nullopt THEN Undefined ELSE dst \o s

(* The recursion of StoreTo is one: Put, from the first argument to the last. *)
LEMMA StoreToPuts ==
    ASSUME NEW ts \in Seq(Types), NEW args, NEW limit
    PROVE  \E stored :
              /\ StoreTo(ts, args, limit) = stored[Len(ts)]
              /\ stored[0] = <<>>
              /\ \A n \in 1 .. Len(ts) :
                    stored[n] = Put(ts, args, limit, stored[n - 1], n)
<1> DEFINE
      L == Len(ts)
      Stored[n \in 0 .. Len(ts)] ==
            IF n = 0 THEN <<>>
            ELSE LET dst == Stored[n - 1]
                     s == SerializeTo(ts[n], args[n], limit - Len(dst))
                 IN  IF dst = Undefined \/ s = Nullopt THEN Undefined ELSE dst \o s
      Body(g, n) == [i \in 0 .. n |->
                        IF i = 0 THEN <<>> ELSE Put(ts, args, limit, g[i - 1], i)]
      E == {n \in Nat : \E g : g = Body(g, n)}
<1>0. L \in Nat
  OBVIOUS
<1>1. StoreTo(ts, args, limit) = Stored[L]
  BY DEF StoreTo
<1>2. Stored = CHOOSE g : g = Body(g, L)
  BY DEF Put
<1> HIDE DEF Stored
<1>3. 0 \in E
  <2> DEFINE g == [i \in 0 .. 0 |-> <<>>]
  <2>1. g = Body(g, 0)
    OBVIOUS
  <2> QED BY <2>1
<1>4. ASSUME NEW n \in Nat, n \in E PROVE n + 1 \in E
  <2>1. PICK g : g = Body(g, n)
    BY <1>4
  <2> DEFINE h == [i \in 0 .. n + 1 |->
                      IF i <= n THEN g[i] ELSE Put(ts, args, limit, g[n], i)]
  <2>2. ASSUME NEW i \in 0 .. n + 1
        PROVE  h[i] = IF i = 0 THEN <<>> ELSE Put(ts, args, limit, h[i - 1], i)
    <3>1. CASE i = 0
      BY <2>1, <3>1
    <3>2. CASE i \in 1 .. n
      <4>1. h[i - 1] = g[i - 1] /\ h[i] = g[i]
        BY <3>2
      <4>2. g[i] = Put(ts, args, limit, g[i - 1], i)
        <5> HIDE DEF h
        <5> QED BY <2>1, <3>2
      <4> QED BY <4>1, <4>2, <3>2
    <3>3. CASE i = n + 1
      <4>1. h[i - 1] = g[n] /\ h[i] = Put(ts, args, limit, g[n], i)
        BY <3>3
      <4> QED BY <4>1, <3>3
    <3> QED BY <3>1, <3>2, <3>3
  <2>3. h = Body(h, n + 1)
    <3>1. h = [i \in 0 .. n + 1 |-> h[i]]
      OBVIOUS
    <3> HIDE DEF h
    <3> QED BY <2>2, <3>1
  <2> HIDE DEF Body, h
  <2> QED BY <2>3
<1>5. L \in E
  <2> HIDE DEF E
  <2> QED BY <1>0, <1>3, <1>4, SetInduction
<1>6. Stored = Body(Stored, L)
  <2>1. PICK g : g = Body(g, L)
    BY <1>5
  <2> HIDE DEF Body
  <2> QED BY <2>1, <1>2
<1>7. /\ Stored[0] = <<>>
      /\ \A n \in 1 .. L : Stored[n] = Put(ts, args, limit, Stored[n - 1], n)
  BY <1>0, <1>6
<1> QED BY <1>1, <1>7

(* store_to never dereferences an empty optional when there is room for all,
   and of arguments of one size each lies where the receiver looks for it. *)
LEMMA StoreToStores ==
    ASSUME NEW ts, NEW args, AreVariables(ts, args), NEW limit \in Nat
    PROVE  LET dst == StoreTo(ts, args, limit)
           IN  /\ dst = Undefined \/ IsStored(ts, args, dst, Len(ts))
               /\ Total(ts) <= limit => dst # Undefined
<1>0. ts \in Seq(Types) /\ Len(ts) \in Nat
  BY DEF AreVariables
<1>1. PICK stored : /\ StoreTo(ts, args, limit) = stored[Len(ts)]
                    /\ stored[0] = <<>>
                    /\ \A n \in 1 .. Len(ts) :
                          stored[n] = Put(ts, args, limit, stored[n - 1], n)
  BY <1>0, StoreToPuts
<1> DEFINE Good(n) == /\ stored[n] = Undefined \/ IsStored(ts, args, stored[n], n)
                      /\ Sizes(ts)[n] <= limit => stored[n] # Undefined
           J == {n \in Nat : n <= Len(ts) => Good(n)}
<1>2. 0 \in J
  <2>1. Sizes(ts)[0] = 0
    BY <1>0, SizesAdd
  <2>2. stored[0] # Undefined
    BY <1>1 DEF Undefined
  <2>3. IsStored(ts, args, stored[0], 0)
    BY <1>1, <2>1 DEF IsStored, LaidOut
  <2> QED BY <2>2, <2>3
<1>3. ASSUME NEW n \in Nat, n \in J PROVE n + 1 \in J
  <2> SUFFICES ASSUME n + 1 <= Len(ts) PROVE Good(n + 1)
    OBVIOUS
  <2>1. Good(n) /\ n + 1 \in 1 .. Len(ts) /\ (n + 1) - 1 = n
    BY <1>0, <1>3
  <2>2. stored[n + 1] = Put(ts, args, limit, stored[n], n + 1)
    BY <1>1, <2>1
  <2>3. CASE stored[n] = Undefined
    <3>1. stored[n + 1] = Undefined
      BY <2>2, <2>3 DEF Put
    <3>2. Sizes(ts)[n] <= Sizes(ts)[n + 1] /\ Sizes(ts)[n] \in Nat /\ Sizes(ts)[n + 1] \in Nat
      BY <1>0, <2>1, SizesAdd, SizesInOrder
    <3>3. ~ (Sizes(ts)[n] <= limit)
      BY <2>1, <2>3
    <3> QED BY <3>1, <3>2, <3>3
  <2>4. CASE IsStored(ts, args, stored[n], n)
    <3> DEFINE s == SerializeTo(ts[n + 1], args[n + 1], limit - Len(stored[n]))
    <3>1. /\ stored[n] # Undefined
          /\ s # Nullopt => IsStored(ts, args, stored[n] \o s, n + 1)
          /\ limit >= Sizes(ts)[n + 1] => s # Nullopt
      BY <2>1, <2>4, StoresOneMore
    <3>2. stored[n + 1] = IF s = Nullopt THEN Undefined ELSE stored[n] \o s
      BY <2>2, <3>1 DEF Put
    <3>3. Sizes(ts)[n + 1] \in Nat
      BY <1>0, <2>1, SizesAdd
    <3>4. ASSUME NEW x, IsStored(ts, args, x, n + 1) PROVE x # Undefined
      <4>1. x \in Seq(Bytes)
        BY <3>4 DEF IsStored
      <4> QED BY <4>1, UndefinedIsNoBytes
    <3> HIDE DEF s
    <3> QED BY <3>1, <3>2, <3>3, <3>4
  <2> QED BY <2>1, <2>3, <2>4
<1>4. \A n \in Nat : n \in J => n + 1 \in J
  BY <1>3
<1>5. Nat \subseteq J
  <2> HIDE DEF J
  <2> QED BY <1>2, <1>4, SetInduction
<1>6. Good(Len(ts))
  BY <1>0, <1>5
<1> QED BY <1>1, <1>6 DEF Total

-----------------------------------------------------------------------------
(* Both devices. *)

\* The variables m of the sender hold values its types allow.
HoldValues(m) ==
    /\ m = [i \in DOMAIN sig |-> m[i]]
    /\ \A i \in DOMAIN sig :
          /\ IsVariable(sig[i], m[i])
          /\ sig[i].kind = "arr" => m[i][1] % sig[i].elem = 0

\* The packet is what was stored of the variables when it was sent.
PacketIsStored ==
    /\ wire \in {NoPacket, Undefined} \cup Seq(Bytes)
    /\ literal = {} /\ wire # NoPacket => IsStored(sig, sent, wire, Len(sig))

GotSizes == IsArgs(got) => \A i \in DOMAIN sig : Len(got[i]) = sig[i].size

\* The inductive invariant.
IInv ==
    /\ sig \in Signatures
    /\ HoldValues(mem)
    /\ HoldValues(sent)
    /\ literal \subseteq DOMAIN sig
    /\ PacketIsStored
    /\ GotSizes

(* The types of a command. *)
LEMMA SignatureTypes ==
    ASSUME sig \in Signatures
    PROVE  /\ sig \in Seq(Types) /\ Len(sig) \in Nat /\ DOMAIN sig = 1 .. Len(sig)
           /\ \A i \in DOMAIN sig :
                 /\ sig[i] \in Types
                 /\ sig[i].kind = "arr" => (sig[i].size - 1) % sig[i].elem = 0
           /\ Total(sig) <= kMaxAllowedArgumentSize
<1>1. sig \in Seq(Types) /\ Total(sig) <= kMaxAllowedArgumentSize
  BY CmdArgsAssumption
<1>2. /\ Len(sig) \in Nat /\ DOMAIN sig = 1 .. Len(sig)
      /\ \A i \in DOMAIN sig : sig[i] \in Types
  BY <1>1
<1>3. \A i \in DOMAIN sig : sig[i].kind = "arr" => (sig[i].size - 1) % sig[i].elem = 0
  BY CmdArgsAssumption
<1> QED BY <1>1, <1>2, <1>3

(* A new variable is all zeros. *)
LEMMA ZerosAreAVariable ==
    ASSUME NEW t \in Types
    PROVE  /\ IsVariable(t, Zeros(t.size))
           /\ Zeros(t.size)[1] = 0
<1>1. t.size \in Nat /\ t.size >= 1
  BY TypeFields
<1>2. /\ Zeros(t.size) \in Seq(Bytes) /\ Len(Zeros(t.size)) = t.size
      /\ Zeros(t.size)[1] = 0
  <2>1. 0 \in Bytes
    BY BytesAre
  <2>2. Zeros(t.size) = [j \in 1 .. t.size |-> 0]
    BY DEF Zeros
  <2> QED BY <1>1, <2>1, <2>2
<1> QED BY <1>1, <1>2 DEF IsVariable, Capacity

LEMMA InitIInv == Init => IInv
<1> SUFFICES ASSUME Init PROVE IInv
  OBVIOUS
<1>1. sig \in Signatures
  BY DEF Init
<1>2. HoldValues(mem)
  <2>1. mem = [i \in DOMAIN sig |-> Zeros(sig[i].size)]
    BY DEF Init
  <2>2. ASSUME NEW i \in DOMAIN sig
        PROVE  /\ IsVariable(sig[i], mem[i])
               /\ sig[i].kind = "arr" => mem[i][1] % sig[i].elem = 0
    <3>1. sig[i] \in Types /\ mem[i] = Zeros(sig[i].size)
      BY <1>1, <2>1, <2>2, SignatureTypes
    <3>2. sig[i].elem \in Nat /\ sig[i].elem >= 1
      BY <3>1, TypeFields
    <3>3. 0 % sig[i].elem = 0
      BY <3>2
    <3> QED BY <3>1, <3>3, ZerosAreAVariable
  <2> QED BY <2>1, <2>2 DEF HoldValues
<1>3. sent = mem /\ literal = {} /\ wire = NoPacket /\ got = NotCalled
  BY DEF Init
<1> QED BY <1>1, <1>2, <1>3 DEF IInv, PacketIsStored, GotSizes, IsArgs

(* A value ZBOSS was allowed to write leaves a variable that its type allows. *)
LEMMA WrittenVariable ==
    ASSUME NEW t \in Types, NEW value \in WireValues(t), TypeValidator(t, value),
           NEW v, IsVariable(t, v)
    PROVE  LET w == value \o SubSeq(v, Len(value) + 1, Len(v))
           IN  /\ IsVariable(t, w)
               /\ t.kind = "arr" => w[1] % t.elem = 0
<1> DEFINE w == value \o SubSeq(v, Len(value) + 1, Len(v))
<1>0. /\ t.size \in Nat /\ t.size >= 1 /\ t.size <= 255
      /\ v \in Seq(Bytes) /\ Len(v) = t.size
      /\ t.kind \in {"raw", "str", "bin", "arr"}
  BY TypeFields DEF IsVariable
<1>1. Chars \subseteq Bytes
  BY CmdArgsAssumption DEF Bytes
<1>2. /\ value \in Seq(Bytes) /\ Len(value) \in 1 .. t.size
  <2>1. CASE t.kind = "raw"
    <3>1. value \in [1 .. t.size -> Chars]
      BY <2>1 DEF WireValues
    <3>2. value \in [1 .. t.size -> Bytes]
      BY <1>1, <3>1
    <3> QED BY <1>0, <3>2
  <2>2. CASE t.kind # "raw"
    <3>0. PICK n \in 0 .. t.size : value \in {<<n>> \o s : s \in [1 .. n -> Chars]}
      BY <2>2 DEF WireValues
    <3>1. PICK s \in [1 .. n -> Chars] : value = <<n>> \o s
      BY <3>0
    <3>2. n \in Nat /\ n \in Bytes
      <4>1. n \in Nat /\ n <= t.size /\ t.size <= 255
        BY <1>0
      <4> QED BY <1>0, <4>1, BytesAre
    <3>3. s \in [1 .. n -> Bytes]
      BY <1>1, <3>1
    <3>4. s \in Seq(Bytes) /\ Len(s) = n
      BY <3>2, <3>3
    <3>5. <<n>> \in Seq(Bytes) /\ Len(<<n>>) = 1 /\ <<n>>[1] = n
      BY <3>2
    <3>6. value \in Seq(Bytes) /\ Len(value) = n + 1 /\ value[1] = n
      BY <3>1, <3>2, <3>4, <3>5
    <3>7. n < t.size
      <4>1. CASE t.kind = "str" \/ t.kind = "bin"
        BY <4>1, <3>6 DEF TypeValidator
      <4>2. CASE t.kind = "arr"
        BY <4>2, <3>2, <3>6, <1>0 DEF TypeValidator, Capacity
      <4> QED BY <2>2, <1>0, <4>1, <4>2
    <3> QED BY <1>0, <3>2, <3>6, <3>7
  <2> QED BY <2>1, <2>2
<1>3. /\ w \in Seq(Bytes) /\ Len(w) = t.size /\ w[1] = value[1]
  <2> DEFINE rest == SubSeq(v, Len(value) + 1, Len(v))
  <2>1. rest \in Seq(Bytes) /\ Len(rest) = t.size - Len(value)
    <3>1. rest = [j \in 1 .. t.size - Len(value) |-> v[j + Len(value)]]
      BY <1>0, <1>2
    <3>2. \A j \in 1 .. t.size - Len(value) : v[j + Len(value)] \in Bytes
      BY <1>0, <1>2
    <3>3. t.size - Len(value) \in Nat
      BY <1>0, <1>2
    <3> HIDE DEF rest
    <3> QED BY <3>1, <3>2, <3>3
  <2> HIDE DEF rest
  <2>2. value \o rest \in Seq(Bytes) /\ Len(value \o rest) = t.size
        /\ (value \o rest)[1] = value[1]
    BY <1>0, <1>2, <2>1
  <2> QED BY <2>2 DEF rest
<1> HIDE DEF w
<1>4. t.kind # "raw" => w[1] <= Capacity(t)
  <2>1. value[1] \in Nat
    <3>1. value[1] \in Bytes
      BY <1>2
    <3> QED BY <3>1 DEF Bytes
  <2>2. CASE t.kind = "str" \/ t.kind = "bin"
    <3>1. value[1] < t.size
      BY <2>2 DEF TypeValidator
    <3> QED BY <1>0, <1>3, <2>1, <3>1 DEF Capacity
  <2>3. CASE t.kind = "arr"
    BY <2>3, <1>3 DEF TypeValidator
  <2> QED BY <1>0, <2>2, <2>3
<1>5. t.kind = "arr" => w[1] % t.elem = 0
  BY <1>3 DEF TypeValidator
<1> QED BY <1>3, <1>4, <1>5 DEF IsVariable, w

(* ZBOSS writes an attribute. *)
LEMMA WriteAttrStep ==
    ASSUME IInv, NEW i \in DOMAIN sig, NEW value \in WireValues(sig[i]), WriteAttr(i, value)
    PROVE  IInv'
<1>0. /\ mem' = [mem EXCEPT ![i] = value \o SubSeq(mem[i], Len(value) + 1, Len(mem[i]))]
      /\ TypeValidator(sig[i], value)
      /\ UNCHANGED <<sig, literal, sent, wire, got>>
  BY DEF WriteAttr
<1>1. /\ \A k \in DOMAIN sig : sig[k] \in Types /\ IsVariable(sig[k], mem[k])
      /\ mem = [k \in DOMAIN sig |-> mem[k]]
  BY SignatureTypes DEF IInv, HoldValues
<1>2. /\ mem' = [k \in DOMAIN sig |-> mem'[k]]
      /\ \A k \in DOMAIN sig \ {i} : mem'[k] = mem[k]
      /\ mem'[i] = value \o SubSeq(mem[i], Len(value) + 1, Len(mem[i]))
  BY <1>0, <1>1
<1>3. /\ IsVariable(sig[i], mem'[i])
      /\ sig[i].kind = "arr" => mem'[i][1] % sig[i].elem = 0
  BY <1>0, <1>1, <1>2, WrittenVariable
<1>4. \A k \in DOMAIN sig \ {i} : /\ IsVariable(sig[k], mem'[k])
                                  /\ sig[k].kind = "arr" => mem'[k][1] % sig[k].elem = 0
  BY <1>2 DEF IInv, HoldValues
<1>5. HoldValues(mem)'
  BY <1>0, <1>2, <1>3, <1>4 DEF HoldValues
<1> QED BY <1>0, <1>5 DEF IInv, HoldValues, PacketIsStored, GotSizes

(* What store_to is passed: the variables, or ints. *)
LEMMA PassedAreVariables ==
    ASSUME IInv, literal' \in SUBSET {i \in DOMAIN sig : MayBeLiteral(i)}
    PROVE  AreVariables([i \in DOMAIN sig |-> Passed(i).type],
                        [i \in DOMAIN sig |-> Passed(i).bytes])
<1>1. sig \in Seq(Types) /\ Len(sig) \in Nat /\ DOMAIN sig = 1 .. Len(sig)
  BY SignatureTypes DEF IInv
<1>2. ASSUME NEW i \in DOMAIN sig
      PROVE  Passed(i).type \in Types /\ IsVariable(Passed(i).type, Passed(i).bytes)
  <2>0. sig[i] \in Types /\ IsVariable(sig[i], mem[i])
    BY SignatureTypes DEF IInv, HoldValues
  <2>1. CASE i \in literal'
    <3> DEFINE t == [kind |-> "raw", size |-> kIntSize, elem |-> 1]
               n == kIntSize - sig[i].size
    <3>1. Passed(i).type = t /\ Passed(i).bytes = mem[i] \o Zeros(n)
      BY <2>1 DEF Passed
    <3>2. t \in Types /\ kIntSize \in Nat /\ t.kind = "raw" /\ t.size = kIntSize
      <4>1. kIntSize \in 1 .. 255
        BY CmdArgsAssumption
      <4>2. t \in Types
        BY <4>1 DEF Types
      <4> QED BY <4>1, <4>2
    <3>3. sig[i].size <= kIntSize /\ sig[i].size \in Nat
      BY <2>0, <2>1, TypeFields DEF MayBeLiteral
    <3>4. n \in Nat
      BY <3>2, <3>3
    <3>5. Zeros(n) \in Seq(Bytes) /\ Len(Zeros(n)) = n
      <4>1. 0 \in Bytes
        BY BytesAre
      <4>2. Zeros(n) = [j \in 1 .. n |-> 0]
        BY DEF Zeros
      <4> HIDE DEF n
      <4> QED BY <3>4, <4>1, <4>2
    <3>6. mem[i] \in Seq(Bytes) /\ Len(mem[i]) = sig[i].size
      BY <2>0 DEF IsVariable
    <3>7. mem[i] \o Zeros(n) \in Seq(Bytes) /\ Len(mem[i] \o Zeros(n)) = kIntSize
      <4>1. sig[i].size + n = kIntSize
        BY <3>2, <3>3
      <4> HIDE DEF n, t
      <4>2. /\ mem[i] \o Zeros(n) \in Seq(Bytes)
            /\ Len(mem[i] \o Zeros(n)) = Len(mem[i]) + Len(Zeros(n))
        BY <3>5, <3>6
      <4> QED BY <3>5, <3>6, <4>1, <4>2
    <3> HIDE DEF n, t
    <3> QED BY <3>1, <3>2, <3>7 DEF IsVariable
  <2>2. CASE i \notin literal'
    BY <2>0, <2>2 DEF Passed
  <2> QED BY <2>1, <2>2
<1> DEFINE ts == [i \in DOMAIN sig |-> Passed(i).type]
           args == [i \in DOMAIN sig |-> Passed(i).bytes]
<1>3. ts \in Seq(Types) /\ DOMAIN ts = DOMAIN sig
  BY <1>1, <1>2
<1>4. \A i \in DOMAIN sig : IsVariable(ts[i], args[i])
  BY <1>2
<1> QED BY <1>3, <1>4 DEF AreVariables

(* A command is packed. *)
LEMMA SendCmdStep ==
    ASSUME IInv, SendCmd
    PROVE  IInv'
<1> DEFINE ts == [i \in DOMAIN sig |-> Passed(i).type]
           args == [i \in DOMAIN sig |-> Passed(i).bytes]
<1>0. /\ literal' \in SUBSET {i \in DOMAIN sig : MayBeLiteral(i)}
      /\ sent' = mem /\ got' = NotCalled /\ sig' = sig /\ mem' = mem
      /\ wire' = StoreTo(ts, args, kMaxAllowedArgumentSize)
  BY DEF SendCmd
<1>1. kMaxAllowedArgumentSize \in Nat
  BY CmdArgsAssumption
<1>2. AreVariables(ts, args)
  BY <1>0, PassedAreVariables
<1>3. literal' = {} => ts = sig /\ args = mem
  <2> SUFFICES ASSUME literal' = {} PROVE ts = sig /\ args = mem
    OBVIOUS
  <2>1. sig \in Seq(Types) /\ mem = [i \in DOMAIN sig |-> mem[i]]
    BY SignatureTypes DEF IInv, HoldValues
  <2>2. \A i \in DOMAIN sig : Passed(i).type = sig[i] /\ Passed(i).bytes = mem[i]
    BY DEF Passed
  <2>3. sig = [i \in DOMAIN sig |-> sig[i]]
    BY <2>1
  <2> QED BY <2>1, <2>2, <2>3
<1> HIDE DEF ts, args
<1>4. /\ wire' = Undefined \/ IsStored(ts, args, wire', Len(ts))
      /\ Total(ts) <= kMaxAllowedArgumentSize => wire' # Undefined
  BY <1>0, <1>1, <1>2, StoreToStores
<1>5. Total(sig) <= kMaxAllowedArgumentSize
  BY SignatureTypes DEF IInv
<1>6. PacketIsStored'
  BY <1>0, <1>3, <1>4, <1>5 DEF PacketIsStored, IsStored
<1>7. GotSizes'
  BY <1>0 DEF GotSizes, IsArgs
<1>8. HoldValues(mem)' /\ HoldValues(sent)'
  BY <1>0 DEF IInv, HoldValues
<1> QED BY <1>0, <1>6, <1>7, <1>8 DEF IInv

(* Where an argument begins is a number, whichever end is taken first. *)
LEMMA OffsetIsNumber ==
    ASSUME sig \in Signatures, NEW order \in EvalOrders, NEW i \in DOMAIN sig
    PROVE  /\ Offset(i, order) \in Nat
           /\ order = "left to right" => Offset(i, order) = Sizes(sig)[i - 1]
<1>1. /\ sig \in Seq(Types) /\ i - 1 \in 0 .. Len(sig) /\ i \in 0 .. Len(sig)
      /\ Len(sig) \in 0 .. Len(sig)
  BY SignatureTypes
<1>2. /\ Sizes(sig)[i - 1] \in Nat /\ Sizes(sig)[i] \in Nat /\ Total(sig) \in Nat
      /\ Sizes(sig)[i] <= Total(sig)
  BY <1>1, SizesAdd, SizesInOrder DEF Total
<1>3. Total(sig) - Sizes(sig)[i] \in Nat
  BY <1>2
<1>4. Offset(i, order) \in {Sizes(sig)[i - 1], Total(sig) - Sizes(sig)[i]}
      /\ (order = "left to right" => Offset(i, order) = Sizes(sig)[i - 1])
  BY DEF Offset
<1> QED BY <1>2, <1>3, <1>4

(* The receiver unpacks. *)
LEMMA RawHandlerStep ==
    ASSUME IInv, NEW order \in EvalOrders, RawHandler(order)
    PROVE  IInv'
<1>0. /\ got' = Refused \/ got' = ToArgs(wire, order)
      /\ UNCHANGED <<sig, mem, literal, sent, wire>>
  BY DEF RawHandler
<1>1. GotSizes'
  <2> SUFFICES ASSUME IsArgs(got)', NEW i \in DOMAIN sig PROVE Len(got'[i]) = sig[i].size
    BY <1>0 DEF GotSizes
  <2>1. got' = ToArgs(wire, order)
    BY <1>0 DEF IsArgs
  <2>2. /\ sig[i].size \in Nat /\ Offset(i, order) \in Nat
    BY SignatureTypes, TypeFields, OffsetIsNumber DEF IInv
  <2>3. got'[i] = SubSeq(wire, Offset(i, order) + 1, Offset(i, order) + sig[i].size)
    BY <2>1 DEF ToArgs
  <2> DEFINE o == Offset(i, order)
             k == sig[i].size
  <2>4. Len(SubSeq(wire, o + 1, o + k)) = k
    <3> HIDE DEF o, k
    <3>1. o \in Nat /\ k \in Nat
      BY <2>2 DEF o, k
    <3> QED BY <3>1
  <2> QED BY <2>3, <2>4
<1> QED BY <1>0, <1>1 DEF IInv, HoldValues, PacketIsStored

LEMMA NextIInv == IInv /\ [Next]_vars => IInv'
<1> SUFFICES ASSUME IInv, [Next]_vars PROVE IInv'
  OBVIOUS
<1>1. CASE UNCHANGED vars
  BY <1>1 DEF vars, IInv, HoldValues, PacketIsStored, GotSizes
<1> QED BY <1>1, WriteAttrStep, SendCmdStep, RawHandlerStep DEF Next

-----------------------------------------------------------------------------
(* The theorems. *)

(* The inductive invariant holds in every run, for commands with any number of
   arguments, of any size, and any contents. *)
THEOREM Invariance == Spec => []IInv
BY InitIInv, NextIInv, PTL DEF Spec

(* Every variable keeps its type: no write that a validator lets through is
   longer than the variable, and the receiver's arguments have their sizes. *)
THEOREM TypeCorrect == Spec => []TypeOK
<1>1. IInv => TypeOK
  <2> SUFFICES ASSUME IInv PROVE TypeOK
    OBVIOUS
  <2>1. /\ DOMAIN mem = DOMAIN sig /\ DOMAIN sent = DOMAIN sig
        /\ \A i \in DOMAIN sig : Len(mem[i]) = sig[i].size /\ mem[i] \in Seq(Bytes)
    BY DEF IInv, HoldValues, IsVariable
  <2> QED BY <2>1 DEF IInv, TypeOK, PacketIsStored, GotSizes
<1> QED BY <1>1, Invariance, PTL

(* store_to never dereferences an empty optional for arguments of the declared
   types: the static_assert of ep_desc_t is enough for every value. *)
THEOREM ArgumentsAreStored == Spec => []AlwaysStored
<1>1. IInv => AlwaysStored
  <2> SUFFICES ASSUME IInv, literal = {}, wire # NoPacket
               PROVE  wire # Undefined /\ Len(wire) <= Total(sig)
    BY DEF AlwaysStored
  <2>1. IsStored(sig, sent, wire, Len(sig))
    BY DEF IInv, PacketIsStored
  <2> QED BY <2>1, UndefinedIsNoBytes DEF IsStored, Total
<1> QED BY <1>1, Invariance, PTL

(* k bytes from the offset o. *)
LEMMA SliceOf ==
    ASSUME NEW data \in Seq(Bytes), NEW o \in Nat, NEW k \in Nat, o + k <= Len(data)
    PROVE  /\ SubSeq(data, o + 1, o + k) \in Seq(Bytes)
           /\ Len(SubSeq(data, o + 1, o + k)) = k
           /\ \A j \in 1 .. k : SubSeq(data, o + 1, o + k)[j] = data[o + j]
<1>1. SubSeq(data, o + 1, o + k) = [j \in 1 .. k |-> data[o + j]]
  <2>1. SubSeq(data, o + 1, o + k) = [j \in 1 .. (1 + (o + k) - (o + 1)) |-> data[o + 1 + j - 1]]
    OBVIOUS
  <2>2. 1 + (o + k) - (o + 1) = k
    OBVIOUS
  <2>3. \A j \in 1 .. k : o + 1 + j - 1 = o + j
    OBVIOUS
  <2> QED BY <2>1, <2>2, <2>3
<1>2. \A j \in 1 .. k : data[o + j] \in Bytes
  OBVIOUS
<1> QED BY <1>1, <1>2

(* Taken from where it was laid out, an argument is what was written. *)
LEMMA TakesWhatWasStored ==
    ASSUME NEW ts \in Seq(Types), NEW args, NEW data \in Seq(Bytes),
           LaidOut(ts, args, data, Len(ts)), NEW i \in 1 .. Len(ts), NEW taken,
           taken = SubSeq(data, Sizes(ts)[i - 1] + 1, Sizes(ts)[i - 1] + ts[i].size)
    PROVE  IsWritten(ts[i], args[i], taken)
<1> DEFINE k == ts[i].size
           o == Sizes(ts)[i - 1]
<1>1. /\ i \in 0 .. Len(ts) /\ i - 1 \in 0 .. Len(ts) /\ Len(ts) \in 0 .. Len(ts)
      /\ ts[i] \in Types
  OBVIOUS
<1>2. o \in Nat /\ k \in Nat /\ Sizes(ts)[i] = o + k
  BY <1>1, SizesAdd, TypeFields
<1>3. Sizes(ts)[i] <= Sizes(ts)[Len(ts)]
  BY <1>1, SizesInOrder
<1>4. Sizes(ts)[Len(ts)] = Len(data) /\ Len(data) \in Nat
  BY DEF LaidOut
<1>5. o + k <= Len(data)
  BY <1>2, <1>3, <1>4
<1>6. \A j \in 1 .. k : data[o + j] = OnWire(ts[i], args[i])[j]
  BY DEF LaidOut
<1> HIDE DEF k, o
<1>7. /\ SubSeq(data, o + 1, o + k) \in Seq(Bytes)
      /\ Len(SubSeq(data, o + 1, o + k)) = k
      /\ \A j \in 1 .. k : SubSeq(data, o + 1, o + k)[j] = data[o + j]
  BY <1>2, <1>5, SliceOf
<1> QED BY <1>6, <1>7 DEF k, o, IsWritten

(* What is as long as it must be is not too short. *)
LEMMA NotLess == \A m \in Nat : \A n : m = n => ~ (m < n)
OBVIOUS

(* Nothing that is read from a packet looks like a refusal. *)
LEMMA RefusedIsNoArgument ==
    ASSUME NEW g, NEW S, DOMAIN g = S, \A i \in S : g[i] \in Seq(Bytes)
    PROVE  g # Refused
<1>1. DOMAIN Refused = 1 .. 1 /\ Refused[1] = Undefined
  <2>1. Refused = <<Undefined>>
    BY DEF Refused, Undefined
  <2> QED BY <2>1
<1> QED BY <1>1, UndefinedIsNoBytes

(* Arguments of one size each arrive, their contents unchanged, where the
   receiver's compiler evaluates the arguments of a call from left to right. *)
THEOREM FixedArgumentsArrive ==
    ASSUME EvalOrders \subseteq {"left to right"}
    PROVE  Spec => []FixedArgsArrive
<1>1. Init => FixedArgsArrive
  BY DEF Init, FixedArgsArrive, Arrived
<1>2. IInv /\ FixedArgsArrive /\ [Next]_vars => FixedArgsArrive'
  <2> SUFFICES ASSUME IInv, FixedArgsArrive, [Next]_vars PROVE FixedArgsArrive'
    OBVIOUS
  <2>1. CASE UNCHANGED <<sig, literal, sent, got>>
    BY <2>1 DEF FixedArgsArrive, Arrived
  <2>2. CASE SendCmd
    BY <2>2 DEF SendCmd, FixedArgsArrive, Arrived
  <2>3. ASSUME NEW order \in EvalOrders, RawHandler(order) PROVE FixedArgsArrive'
    <3>0. /\ UNCHANGED <<sig, literal, sent>> /\ order = "left to right"
          /\ wire # NoPacket
          /\ got' = IF Len(wire) < kArgRawSize THEN Refused ELSE ToArgs(wire, order)
      BY <2>3 DEF RawHandler
    <3> SUFFICES ASSUME literal = {}, \A i \in DOMAIN sig : IsFixed(sig[i])
                 PROVE  /\ got' # Refused
                        /\ \A i \in DOMAIN sig :
                              Contents(sig[i], got'[i]) = Contents(sig[i], sent[i])
      BY <3>0 DEF FixedArgsArrive, Arrived
    <3>1. wire \in Seq(Bytes) /\ LaidOut(sig, sent, wire, Len(sig))
      BY <3>0 DEF IInv, PacketIsStored, IsStored, AllFixed
    <3>2. sig \in Seq(Types) /\ DOMAIN sig = 1 .. Len(sig) /\ Len(sig) \in Nat
      BY SignatureTypes DEF IInv
    <3>3. ~ (Len(wire) < kArgRawSize)
      <4>1. Len(wire) = kArgRawSize
        BY <3>1 DEF LaidOut, kArgRawSize, Total
      <4>2. Len(wire) \in Nat
        BY <3>1, LenProperties
      <4> QED BY <4>1, <4>2, NotLess
    <3>4. got' = ToArgs(wire, order)
      BY <3>0, <3>3
    <3>5. ASSUME NEW i \in 1 .. Len(sig)
          PROVE  IsWritten(sig[i], sent[i], got'[i])
      <4>1. Offset(i, order) = Sizes(sig)[i - 1]
        BY <3>0 DEF Offset
      <4>2. got'[i] = SubSeq(wire, Offset(i, order) + 1, Offset(i, order) + sig[i].size)
        BY <3>2, <3>4 DEF ToArgs
      <4>3. got'[i] = SubSeq(wire, Sizes(sig)[i - 1] + 1, Sizes(sig)[i - 1] + sig[i].size)
        BY <4>1, <4>2
      <4> QED BY <3>1, <3>2, <4>3, TakesWhatWasStored
    <3>6. got' # Refused
      <4>1. DOMAIN got' = DOMAIN sig
        BY <3>4 DEF ToArgs
      <4> QED BY <3>2, <3>5, <4>1, RefusedIsNoArgument DEF IsWritten
    <3>7. ASSUME NEW i \in DOMAIN sig
          PROVE  Contents(sig[i], got'[i]) = Contents(sig[i], sent[i])
      <4>1. sig[i] \in Types /\ IsVariable(sig[i], sent[i]) /\ IsFixed(sig[i])
        BY SignatureTypes DEF IInv, HoldValues
      <4> QED BY <3>2, <3>5, <4>1, OnWireContents
    <3> QED BY <3>6, <3>7
  <2> QED BY <2>1, <2>2, <2>3 DEF Next, WriteAttr, vars
<1> QED BY <1>1, <1>2, Invariance, PTL DEF Spec

(* A number or an array that was serialized is read back as it was. *)
LEMMA ReadsBack ==
    ASSUME NEW t \in Types, t.kind \in {"raw", "arr"}, NEW v, IsVariable(t, v)
    PROVE  LET src == SerializeTo(t, v, t.size)
               w == SerializeFrom(t, Zeros(t.size), src, Len(src))
           IN  w # Nullopt /\ Contents(t, w) = Contents(t, v)
<1> DEFINE src == SerializeTo(t, v, t.size)
           w == SerializeFrom(t, Zeros(t.size), src, Len(src))
<1>0. /\ v \in Seq(Bytes) /\ Len(v) = t.size /\ t.size \in Nat /\ t.size >= 1
      /\ t.elem \in Nat /\ t.elem >= 1
  BY TypeFields DEF IsVariable
<1>1. CASE t.kind = "raw"
  <2>1. src = v
    BY <1>0, <1>1 DEF SerializeTo, SerializeRaw
  <2>2. w = SubSeq(v, 1, t.size)
    BY <1>0, <1>1, <2>1 DEF SerializeFrom
  <2>3. SubSeq(v, 1, t.size) = v
    BY <1>0
  <2>4. v # Nullopt
    BY <1>0 DEF Nullopt
  <2> QED BY <2>2, <2>3, <2>4
<1>2. CASE t.kind = "arr"
  <2> DEFINE len == v[1]
  <2>1. len \in Bytes /\ len \in Nat /\ len <= Capacity(t) /\ len < Len(v)
    <3>1. len \in Bytes
      BY <1>0
    <3>2. len \in Nat
      BY <3>1, BytesAre
    <3>3. len <= Capacity(t)
      BY <1>2 DEF IsVariable
    <3> QED BY <1>0, <3>1, <3>2, <3>3 DEF Capacity
  <2>2. ~ (len \div t.elem >= t.size)
    <3>1. len \div t.elem <= len /\ len \div t.elem \in Nat
      BY <1>0, <2>1
    <3> QED BY <1>0, <2>1, <3>1
  <2>3. src = Prefixed(len, v)
    BY <1>2, <2>2 DEF SerializeTo, SerializeArr
  <2>4. /\ src \in Seq(Bytes) /\ Len(src) = len + 1 /\ src[1] = len
        /\ \A j \in 2 .. len + 1 : src[j] = v[j]
    BY <1>0, <2>1, <2>3, PrefixedBytes
  <2>5. Zeros(t.size) \in Seq(Bytes) /\ Len(Zeros(t.size)) = t.size
    BY ZerosAreAVariable DEF IsVariable
  <2>6. w = SubSeq(src, 1, len + 1) \o SubSeq(Zeros(t.size), len + 2, t.size)
    <3> HIDE DEF src, len
    <3>1. src[1] = len /\ Len(src) = len + 1 /\ len \in Nat /\ len <= Capacity(t)
          /\ Capacity(t) = t.size - 1
      BY <2>1, <2>4 DEF Capacity
    <3>2. ~ (src[1] > Capacity(t)) /\ ~ (src[1] >= Len(src))
      BY <3>1, <1>0
    <3> QED BY <1>2, <3>1, <3>2 DEF SerializeFrom
  <2> HIDE DEF w, src, len
  <2>7. SubSeq(src, 1, len + 1) = src
    BY <2>1, <2>4
  <2>8. \A j \in 1 .. len + 1 : w[j] = src[j]
    <3> DEFINE rest == SubSeq(Zeros(t.size), len + 2, t.size)
    <3>1. rest \in Seq(Bytes)
      <4>1. rest = [j \in 1 .. t.size - len - 1 |-> Zeros(t.size)[j + len + 1]]
        BY <1>0, <2>1, <2>5
      <4>2. \A j \in 1 .. t.size - len - 1 : Zeros(t.size)[j + len + 1] \in Bytes
        BY <1>0, <2>1, <2>5
      <4>3. t.size - len - 1 \in Nat
        BY <1>0, <2>1
      <4> HIDE DEF rest
      <4> QED BY <4>1, <4>2, <4>3
    <3> HIDE DEF rest
    <3>2. w = src \o rest
      BY <2>6, <2>7 DEF rest
    <3> QED BY <3>1, <3>2, <2>1, <2>4
  <2>9. w[1] = len
    BY <2>1, <2>4, <2>8
  <2>10. Contents(t, w) = SubSeq(w, 2, len + 1) /\ Contents(t, v) = SubSeq(v, 2, len + 1)
    BY <1>2, <2>9 DEF Contents, len
  <2>11. SubSeq(w, 2, len + 1) = SubSeq(v, 2, len + 1)
    <3>1. /\ SubSeq(w, 2, len + 1) = [j \in 1 .. len |-> w[j + 1]]
          /\ SubSeq(v, 2, len + 1) = [j \in 1 .. len |-> v[j + 1]]
      BY <2>1
    <3>2. \A j \in 1 .. len : w[j + 1] = v[j + 1]
      BY <2>1, <2>4, <2>8
    <3> QED BY <3>1, <3>2
  <2>12. w # Nullopt
    <3>1. Len(w) >= 1
      BY <2>1, <2>4, <2>5, <2>6, <2>7
    <3> QED BY <3>1 DEF Nullopt
  <2> QED BY <2>10, <2>11, <2>12 DEF w, src
<1> QED BY <1>1, <1>2

(* Numbers and arrays are read back as they were written, whatever they hold. *)
THEOREM NumbersAreReadBack == Spec => []NumbersReadBack
<1>1. IInv => NumbersReadBack
  BY SignatureTypes, ReadsBack DEF IInv, HoldValues, NumbersReadBack, ReadBack
<1> QED BY <1>1, Invariance, PTL

===============================================================================
