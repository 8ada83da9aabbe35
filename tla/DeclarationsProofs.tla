-------------------------- MODULE DeclarationsProofs --------------------------
(***************************************************************************)
(* Proofs about Declarations, for any endpoints, clusters, attributes and  *)
(* commands and descriptions of any length.  First what the recursions of  *)
(* the code compute, for parameter packs of any length; then the library's *)
(* descriptions; then the items an application can have written, and the   *)
(* properties, which hold of every device made of its items and the        *)
(* library's.  Then what the library's types promise, and at the end       *)
(* Battery, whose measurements go through the tables of the device.        *)
(***************************************************************************)
EXTENDS Battery, NatMin, SequenceTheorems, FiniteSetTheorems

-----------------------------------------------------------------------------
(* The recursions over parameter packs. *)

(* kAllUniqueIds compares every id with every other one, however many there
   are: the last n ids are apart when the first of them is not among the rest
   and the rest are apart. *)
LEMMA UniqueIds ==
    ASSUME NEW A, NEW ids \in Seq(A)
    PROVE  kAllUniqueIds(ids) <=>
              \A i, k \in DOMAIN ids : ids[i] = ids[k] => i = k
<1> DEFINE
      L == Len(ids)
      HeadApart(n) == IsAllUniqueHelper(ids[Len(ids) - n + 1],
                                         SubSeq(ids, Len(ids) - n + 2, Len(ids)))
      Primary[n \in 0 .. Len(ids)] ==
            n > 1 => /\ IsAllUniqueHelper(ids[Len(ids) - n + 1],
                                         SubSeq(ids, Len(ids) - n + 2, Len(ids)))
                     /\ Primary[n - 1]
      Body(g) == [n \in 0 .. L |-> (n > 1 => HeadApart(n) /\ g[n - 1])]
      Apart(n) == \A i, k \in L - n + 1 .. L : ids[i] = ids[k] => i = k
      g0 == [n \in 0 .. L |-> Apart(n)]
<1>0. L \in Nat /\ DOMAIN ids = 1 .. L
  OBVIOUS
<1>1. \A n \in 2 .. L : HeadApart(n) <=> \A k \in L - n + 2 .. L : ids[L - n + 1] # ids[k]
  <2> SUFFICES ASSUME NEW n \in 2 .. L
               PROVE  HeadApart(n) <=> \A k \in L - n + 2 .. L : ids[L - n + 1] # ids[k]
    OBVIOUS
  <2> DEFINE rest == SubSeq(ids, L - n + 2, L)
  <2>1. /\ DOMAIN rest = 1 .. n - 1
        /\ \A i \in 1 .. n - 1 : rest[i] = ids[L - n + 1 + i]
    <3>1. rest \in Seq(A) /\ Len(rest) = n - 1
      BY <1>0, SubSeqProperties
    <3>2. \A i \in 1 .. n - 1 : rest[i] = ids[L - n + 2 + i - 1]
      BY <1>0, SubSeqProperties
    <3> QED BY <3>1, <3>2, <1>0
  <2> HIDE DEF rest
  <2>2. HeadApart(n) <=> \A i \in DOMAIN rest : ids[L - n + 1] # rest[i]
    BY DEF IsAllUniqueHelper, rest
  <2>3. \A k \in L - n + 2 .. L : k - (L - n + 1) \in 1 .. n - 1
    BY <1>0
  <2>4. \A i \in 1 .. n - 1 : L - n + 1 + i \in L - n + 2 .. L
    BY <1>0
  <2>5. ASSUME \A i \in 1 .. n - 1 : ids[L - n + 1] # ids[L - n + 1 + i],
               NEW k \in L - n + 2 .. L
        PROVE  ids[L - n + 1] # ids[k]
    <3>1. ids[L - n + 1] # ids[L - n + 1 + (k - (L - n + 1))]
      BY <2>3, <2>5
    <3> QED BY <3>1, <1>0
  <2> QED BY <2>1, <2>2, <2>4, <2>5
<1>11. kAllUniqueIds(ids) = Primary[L]
  BY DEF kAllUniqueIds
<1>12. Primary = CHOOSE g : g = Body(g)
  OBVIOUS
<1>2. \A n \in 0 .. L : Apart(n) <=> (n > 1 => HeadApart(n) /\ Apart(n - 1))
  <2> SUFFICES ASSUME NEW n \in 0 .. L
               PROVE  Apart(n) <=> (n > 1 => HeadApart(n) /\ Apart(n - 1))
    OBVIOUS
  <2>1. CASE n > 1
    <3>1. HeadApart(n) <=> \A k \in L - n + 2 .. L : ids[L - n + 1] # ids[k]
      BY <1>1, <2>1
    <3> HIDE DEF HeadApart
    <3> QED BY <3>1, <2>1, <1>0
  <2>2. CASE ~ (n > 1)
    BY <2>2, <1>0
  <2> QED BY <2>1, <2>2
<1> HIDE DEF HeadApart
<1>3. g0 = Body(g0)
  <2>1. \A n \in 0 .. L : g0[n] = Apart(n)
    OBVIOUS
  <2>2. \A n \in 0 .. L : n > 1 => n - 1 \in 0 .. L
    BY <1>0
  <2>3. \A n \in 0 .. L : Apart(n) <=> (n > 1 => HeadApart(n) /\ g0[n - 1])
    BY <1>2, <2>2
  <2> QED BY <2>3
<1>4. Primary = Body(Primary)
  <2> HIDE DEF g0, Body, Primary
  <2> QED BY <1>3, <1>12
<1>5. \A n \in 0 .. L : Primary[n] <=> (n > 1 => HeadApart(n) /\ Primary[n - 1])
  <2> HIDE DEF Primary
  <2> QED BY <1>4, Zenon
<1> DEFINE S == {n \in Nat : n <= L => (Primary[n] <=> Apart(n))}
<1> HIDE DEF Primary, Apart, Body, g0
<1>6. 0 \in S
  BY <1>0, <1>2, <1>5
<1>7. ASSUME NEW n \in Nat, n \in S PROVE n + 1 \in S
  <2> SUFFICES ASSUME n + 1 <= L
               PROVE  Primary[n + 1] <=> Apart(n + 1)
    OBVIOUS
  <2>1. Primary[n] <=> Apart(n)
    BY <1>7, <1>0
  <2>2. n + 1 \in 0 .. L /\ (n + 1) - 1 = n
    BY <1>0
  <2> QED BY <2>1, <2>2, <1>2, <1>5
<1>8. L \in S
  BY <1>0, <1>6, <1>7, SetInduction
<1>9. Primary[L] <=> Apart(L)
  BY <1>8, <1>0
<1>10. Apart(L) <=> \A i, k \in DOMAIN ids : ids[i] = ids[k] => i = k
  <2>1. L - L + 1 = 1
    BY <1>0
  <2> QED BY <2>1, <1>0 DEF Apart
<1> QED BY <1>9, <1>10, <1>11

(* kAllClientClustersAtEnd lets no server stand behind a client: below a first
   cluster that is a client everything is, below a server what follows decides. *)
LEMMA ClientsAtEnd ==
    ASSUME NEW C, \A c \in C : c.role \in Roles,
           NEW clusters \in Seq(C), clusters # <<>>
    PROVE  kAllClientClustersAtEnd(clusters) <=>
              \A k, l \in DOMAIN clusters :
                 IsClient(clusters[k]) /\ IsServer(clusters[l]) => l < k
<1> DEFINE
      L == Len(clusters)
      AtEnd[i \in 2 .. Len(clusters) + 1] ==
            [role \in Roles |->
                i <= Len(clusters) =>
                    /\ role = "Client" => clusters[i].role = role
                    /\ AtEnd[i + 1][clusters[i].role]]
      Step(g, i, role) == i <= L => /\ role = "Client" => clusters[i].role = role
                                    /\ g[i + 1][clusters[i].role]
      Body(g) == [i \in 2 .. L + 1 |-> [role \in Roles |-> Step(g, i, role)]]
      IsClientAt(k) == clusters[k].role = "Client"
      Ends(i, role) == /\ role = "Client" => \A k \in i .. L : IsClientAt(k)
                       /\ \A k, l \in i .. L : IsClientAt(k) /\ k <= l => IsClientAt(l)
      g0 == [i \in 2 .. L + 1 |-> [role \in Roles |-> Ends(i, role)]]
<1>0. /\ L \in Nat /\ DOMAIN clusters = 1 .. L /\ L > 0
      /\ \A k \in 1 .. L : clusters[k].role \in Roles
  OBVIOUS
<1>11. kAllClientClustersAtEnd(clusters) = AtEnd[2][clusters[1].role]
  BY DEF kAllClientClustersAtEnd
<1>12. AtEnd = CHOOSE g : g = Body(g)
  OBVIOUS
<1>2. \A i \in 2 .. L + 1, role \in Roles :
         Ends(i, role) <=> (i <= L => /\ role = "Client" => clusters[i].role = role
                                      /\ Ends(i + 1, clusters[i].role))
  BY <1>0 DEF Roles
<1>3. g0 = Body(g0)
  <2>1. \A i \in 2 .. L + 1, role \in Roles : g0[i][role] = Ends(i, role)
    OBVIOUS
  <2>2. \A i \in 2 .. L + 1 : i <= L => i + 1 \in 2 .. L + 1 /\ clusters[i].role \in Roles
    BY <1>0
  <2>3. \A i \in 2 .. L + 1, role \in Roles : Ends(i, role) <=> Step(g0, i, role)
    BY <1>2, <2>2
  <2> QED BY <2>3
<1>4. AtEnd = Body(AtEnd)
  <2> HIDE DEF g0, Body, AtEnd
  <2> QED BY <1>3, <1>12
<1>5. \A i \in 2 .. L + 1, role \in Roles : AtEnd[i][role] <=> Step(AtEnd, i, role)
  <2> SUFFICES ASSUME NEW i \in 2 .. L + 1, NEW role \in Roles
               PROVE  AtEnd[i][role] <=> Step(AtEnd, i, role)
    OBVIOUS
  <2> HIDE DEF AtEnd
  <2>1. AtEnd[i] = [r \in Roles |-> Step(AtEnd, i, r)]
    <3> HIDE DEF Step
    <3> QED BY <1>4
  <2> QED BY <2>1, Zenon
<1> DEFINE S == {n \in Nat : n <= L - 1 =>
                    \A role \in Roles : AtEnd[L + 1 - n][role] <=> Ends(L + 1 - n, role)}
<1> HIDE DEF AtEnd, Ends, Body, g0
<1>6. 0 \in S
  BY <1>0, <1>2, <1>5
<1>7. ASSUME NEW n \in Nat, n \in S PROVE n + 1 \in S
  <2> SUFFICES ASSUME n + 1 <= L - 1, NEW role \in Roles
               PROVE  AtEnd[L + 1 - (n + 1)][role] <=> Ends(L + 1 - (n + 1), role)
    OBVIOUS
  <2> DEFINE i == L + 1 - (n + 1)
  <2>1. i \in 2 .. L /\ i + 1 = L + 1 - n
    BY <1>0
  <2> HIDE DEF i
  <2>2. AtEnd[i + 1][clusters[i].role] <=> Ends(i + 1, clusters[i].role)
    BY <1>7, <1>0, <2>1
  <2> QED BY <2>1, <2>2, <1>2, <1>5 DEF i
<1>8. L - 1 \in S
  <2>1. L - 1 \in Nat
    BY <1>0
  <2> HIDE DEF S
  <2> QED BY <2>1, <1>6, <1>7, SetInduction
<1>9. AtEnd[2][clusters[1].role] <=> Ends(2, clusters[1].role)
  BY <1>8, <1>0
<1>10. Ends(2, clusters[1].role)
          <=> \A k, l \in DOMAIN clusters :
                 IsClient(clusters[k]) /\ IsServer(clusters[l]) => l < k
  BY <1>0 DEF Ends, IsClient, IsServer, Roles
<1> QED BY <1>9, <1>10, <1>11

-----------------------------------------------------------------------------
(* The library's descriptions. *)

\* Of an attribute whose value ZBOSS can take for that of its member.
FitsItsMember(a) ==
    /\ a.mem \in DOMAIN SizeOf
    /\ Fits(a)
    /\ a.type = "Null" => a.mem = "struct"

\* Every attribute has an id of its own and a type that fits its member, every
\* command an id of its own and arguments of a size that the type counts.
Typed(a) == a.validator \in BOOLEAN /\ FitsItsMember(a)

Sized(cmd) == cmd.receive \in BOOLEAN /\ cmd.size \in 0 .. 255

IdsOf(s) == {s[i].id : i \in DOMAIN s}

WellListed(attrs) ==
    /\ \E S : attrs \in Seq(S)
    /\ Distinct(attrs, IdOf)
    /\ \A i \in DOMAIN attrs : attrs[i].id \notin {RevisionId, NullId} /\ Typed(attrs[i])

WellDescribed(c) ==
    /\ c = [id |-> c.id, role |-> c.role, attrs |-> c.attrs, cmds |-> c.cmds]
    /\ c.role \in Roles
    /\ WellListed(c.attrs)
    /\ \E S : c.cmds \in Seq(S)
    /\ Distinct(c.cmds, IdOf)
    /\ \A i \in DOMAIN c.cmds : Sized(c.cmds[i])

\* A description of some cluster's attributes that has no others than these.
Piece(c, id, ids) ==
    /\ WellDescribed(c)
    /\ c.id = id /\ c.role = "Server" /\ c.cmds = <<>>
    /\ IdsOf(c.attrs) \subseteq ids

\* What operator+ may add up.
Summable(d) ==
    /\ \E S : d \in Seq(S)
    /\ d # <<>>
    /\ \A i \in DOMAIN d : WellDescribed(d[i]) /\ IdAndRole(d[i]) = IdAndRole(d[1])
    /\ \A i \in DOMAIN d : Len(d) > 1 => d[i].cmds = <<>>
    /\ \A i, k \in DOMAIN d : i # k => IdsOf(d[i].attrs) \cap IdsOf(d[k].attrs) = {}

(* An attribute that declares no type gets one that fits, whatever its member. *)
LEMMA AttrFits ==
    \A mem \in DOMAIN TypeIds : \A id, access : Typed(Attr(id, mem, access))
<1>1. \A mem \in DOMAIN TypeIds : \A id, access : FitsItsMember(Attr(id, mem, access))
  BY DEF FitsItsMember, Fits, Attr, TypeToTypeId, TypeIds, SizeOf, Width
<1>2. \A mem, id, access : Attr(id, mem, access).validator \in BOOLEAN
  BY DEF Attr, HasTypeValidator
<1> HIDE DEF FitsItsMember
<1> QED BY <1>1, <1>2, Zenon DEF Typed

(* Nor do the types that some descriptions declare differ in size from the member. *)
LEMMA AttrAsFits ==
    /\ \A id, access :
          /\ Typed(AttrAs(id, "u8", access, "E8"))
          /\ Typed(AttrAs(id, "u8", access, "Bool"))
          /\ Typed(AttrAs(id, "u8", access, "Map8"))
          /\ Typed(AttrAs(id, "chars", access, "CharStr"))
    /\ \A id : Typed(AttrAs(id, "struct", {"Internal"}, "Null"))
  BY DEF Typed, FitsItsMember, Fits, AttrAs, SizeOf, Width, HasTypeValidator

LEMMA MemberTypes ==
    DOMAIN TypeIds = {"u8", "u16", "u32", "u64", "s8", "s16", "s32", "s64", "bool", "float",
                      "double", "enum", "enum_class", "map8", "map32", "str"}
  BY DEF TypeIds

LEMMA IdIs ==
    /\ \A id, mem, access : Attr(id, mem, access).id = id
    /\ \A id, mem, access, type : AttrAs(id, mem, access, type).id = id
  BY DEF Attr, AttrAs

OfIds(ids, n) == {ids[i] : i \in 1 .. n}

\* n attributes with these ids.
Listing(attrs, n, ids) ==
    /\ attrs \in Seq({attrs[i] : i \in 1 .. n})
    /\ DOMAIN attrs = 1 .. n /\ DOMAIN ids = 1 .. n
    /\ \A i \in 1 .. n : attrs[i].id = ids[i]
    /\ \A i \in 1 .. n : Typed(attrs[i])
    /\ \A i \in 1 .. n : ids[i] \notin {RevisionId, NullId}
    /\ \A i, k \in 1 .. n : ids[i] = ids[k] => i = k

(* Attributes with listed ids are well listed, and have these ids. *)
LEMMA ListingIs ==
    ASSUME NEW attrs, NEW n, NEW ids, Listing(attrs, n, ids)
    PROVE  WellListed(attrs) /\ IdsOf(attrs) = OfIds(ids, n)
<1>1. Distinct(attrs, IdOf)
  BY DEF Distinct, IdOf, Listing
<1>2. WellListed(attrs)
  BY <1>1 DEF WellListed, Listing
<1>3. IdsOf(attrs) = OfIds(ids, n)
  BY DEF IdsOf, OfIds, Listing
<1> QED BY <1>2, <1>3

(* Two lists of attributes without a common id make up one, as operator+ appends. *)
LEMMA ConcatIs ==
    ASSUME NEW a, NEW b, WellListed(a), WellListed(b), IdsOf(a) \cap IdsOf(b) = {}
    PROVE  WellListed(a \o b) /\ IdsOf(a \o b) = IdsOf(a) \cup IdsOf(b)
<1> DEFINE ab == a \o b
           n == Len(a)
           m == Len(b)
<1>1. PICK S : a \in Seq(S)
  BY DEF WellListed
<1>2. PICK T : b \in Seq(T)
  BY DEF WellListed
<1>3. a \in Seq(S \cup T) /\ b \in Seq(S \cup T)
  BY <1>1, <1>2
<1>4. /\ ab \in Seq(S \cup T) /\ n \in Nat /\ m \in Nat
      /\ DOMAIN a = 1 .. n /\ DOMAIN b = 1 .. m /\ DOMAIN ab = 1 .. n + m
      /\ \A i \in 1 .. n + m : ab[i] = IF i <= n THEN a[i] ELSE b[i - n]
  <2> HIDE DEF ab
  <2>1. ab \in Seq(S \cup T) /\ Len(ab) = n + m
    BY <1>3, ConcatProperties DEF ab
  <2>2. \A i \in 1 .. n + m : ab[i] = IF i <= n THEN a[i] ELSE b[i - n]
    BY <1>3, ConcatProperties DEF ab
  <2> QED BY <1>1, <1>2, <2>1, <2>2
<1> HIDE DEF ab, n, m
<1>5. /\ \A i \in 1 .. n : i \in 1 .. n + m /\ ab[i] = a[i]
      /\ \A i \in 1 .. m : n + i \in 1 .. n + m /\ ab[n + i] = b[i]
      /\ \A i \in 1 .. n + m : i \in 1 .. n \/ \E k \in 1 .. m : i = n + k
  <2>1. \A i \in 1 .. n : i \in 1 .. n + m /\ ab[i] = a[i]
    BY <1>4
  <2>2. ASSUME NEW i \in 1 .. m PROVE n + i \in 1 .. n + m /\ ab[n + i] = b[i]
    <3>1. n + i \in 1 .. n + m /\ ~ (n + i <= n) /\ (n + i) - n = i
      BY <1>4
    <3> QED BY <3>1, <1>4
  <2>3. ASSUME NEW i \in 1 .. n + m, i \notin 1 .. n PROVE \E k \in 1 .. m : i = n + k
    <3>1. i - n \in 1 .. m /\ i = n + (i - n)
      BY <1>4, <2>3
    <3> QED BY <3>1
  <2> QED BY <2>1, <2>2, <2>3
<1>6. n \in Nat /\ m \in Nat /\ DOMAIN a = 1 .. n /\ DOMAIN b = 1 .. m /\ DOMAIN ab = 1 .. n + m
  BY <1>4
<1>7. IdsOf(ab) = IdsOf(a) \cup IdsOf(b)
  <2>1. ASSUME NEW i \in 1 .. n + m PROVE ab[i].id \in IdsOf(a) \cup IdsOf(b)
    <3>1. CASE i \in 1 .. n
      BY <1>5, <1>6, <3>1 DEF IdsOf
    <3>2. ASSUME NEW k \in 1 .. m, i = n + k PROVE ab[i].id \in IdsOf(b)
      BY <1>5, <1>6, <3>2 DEF IdsOf
    <3> QED BY <1>5, <3>1, <3>2
  <2>2. ASSUME NEW i \in 1 .. n PROVE a[i].id \in IdsOf(ab)
    BY <1>5, <1>6 DEF IdsOf
  <2>3. ASSUME NEW i \in 1 .. m PROVE b[i].id \in IdsOf(ab)
    BY <1>5, <1>6 DEF IdsOf
  <2>4. IdsOf(ab) \subseteq IdsOf(a) \cup IdsOf(b)
    BY <1>6, <2>1 DEF IdsOf
  <2>5. IdsOf(a) \subseteq IdsOf(ab) /\ IdsOf(b) \subseteq IdsOf(ab)
    BY <1>6, <2>2, <2>3 DEF IdsOf
  <2> QED BY <2>4, <2>5
<1>8. ASSUME NEW i \in 1 .. n + m, NEW k \in 1 .. n + m, ab[i].id = ab[k].id
      PROVE  i = k
  <2>1. \A x, y \in 1 .. n : a[x].id = a[y].id => x = y
    BY <1>6 DEF WellListed, Distinct, IdOf
  <2>2. \A x, y \in 1 .. m : b[x].id = b[y].id => x = y
    BY <1>6 DEF WellListed, Distinct, IdOf
  <2>3. \A x \in 1 .. n : \A y \in 1 .. m : a[x].id # b[y].id
    BY <1>6 DEF IdsOf
  <2>4. CASE i \in 1 .. n /\ k \in 1 .. n
    BY <1>5, <1>8, <2>1, <2>4
  <2>5. ASSUME NEW x \in 1 .. m, i = n + x, k \in 1 .. n PROVE FALSE
    BY <1>5, <1>8, <2>3, <2>5
  <2>6. ASSUME NEW y \in 1 .. m, k = n + y, i \in 1 .. n PROVE FALSE
    BY <1>5, <1>8, <2>3, <2>6
  <2>7. ASSUME NEW x \in 1 .. m, NEW y \in 1 .. m, i = n + x, k = n + y PROVE i = k
    BY <1>5, <1>8, <2>2, <2>7
  <2> QED BY <1>5, <2>4, <2>5, <2>6, <2>7
<1>9. ASSUME NEW i \in 1 .. n + m
      PROVE  ab[i].id \notin {RevisionId, NullId} /\ Typed(ab[i])
  <2>1. \A x \in 1 .. n : a[x].id \notin {RevisionId, NullId} /\ Typed(a[x])
    BY <1>6 DEF WellListed
  <2>2. \A x \in 1 .. m : b[x].id \notin {RevisionId, NullId} /\ Typed(b[x])
    BY <1>6 DEF WellListed
  <2> QED BY <1>5, <2>1, <2>2
<1>10. Distinct(ab, IdOf)
  BY <1>6, <1>8 DEF Distinct, IdOf
<1>11. WellListed(ab)
  BY <1>4, <1>6, <1>9, <1>10 DEF WellListed
<1> QED BY <1>7, <1>11 DEF ab

(* A server without commands is as good as its attributes. *)
LEMMA ServerIs ==
    ASSUME NEW id, NEW attrs, WellListed(attrs)
    PROVE  /\ WellDescribed(Server(id, attrs))
           /\ Piece(Server(id, attrs), id, IdsOf(attrs))
           /\ Server(id, attrs).attrs = attrs
<1> DEFINE c == Server(id, attrs)
<1>1. c = [id |-> id, role |-> "Server", attrs |-> attrs, cmds |-> <<>>]
  BY DEF Server
<1>2. Distinct(<<>>, IdOf)
  BY DEF Distinct
<1>3. c.attrs = attrs /\ c.cmds = <<>> /\ c.id = id /\ c.role = "Server"
  BY <1>1
<1> HIDE DEF c
<1>4. <<>> \in Seq({})
  OBVIOUS
<1>5. WellDescribed(c)
  BY <1>1, <1>2, <1>3, <1>4 DEF WellDescribed, Roles
<1> QED BY <1>3, <1>5 DEF c, Piece

(* The sum of pieces of one cluster that have no id in common is a well described cluster. *)
LEMMA PlusIs ==
    ASSUME NEW c, NEW d, WellDescribed(c), WellListed(d.attrs), c.cmds = <<>>, d.cmds = <<>>,
           IdsOf(c.attrs) \cap IdsOf(d.attrs) = {}
    PROVE  /\ WellDescribed(Plus(c, d))
           /\ Plus(c, d).cmds = <<>>
           /\ IdsOf(Plus(c, d).attrs) = IdsOf(c.attrs) \cup IdsOf(d.attrs)
<1> DEFINE p == Plus(c, d)
           attrs == c.attrs \o d.attrs
<1>1. p = [id |-> c.id, role |-> c.role, attrs |-> attrs, cmds |-> <<>>]
  <2>1. <<>> \o <<>> = <<>>
    OBVIOUS
  <2>2. c = [id |-> c.id, role |-> c.role, attrs |-> c.attrs, cmds |-> <<>>]
    BY DEF WellDescribed
  <2>3. p = [[c EXCEPT !.attrs = attrs] EXCEPT !.cmds = <<>>]
    BY <2>1 DEF Plus
  <2> HIDE DEF p, attrs
  <2> QED BY <2>2, <2>3
<1>2. WellListed(attrs) /\ IdsOf(attrs) = IdsOf(c.attrs) \cup IdsOf(d.attrs)
  BY ConcatIs DEF WellDescribed
<1>3. c.role \in Roles
  BY DEF WellDescribed
<1> HIDE DEF p, attrs
<1>4. p.attrs = attrs /\ p.cmds = <<>> /\ p.id = c.id /\ p.role = c.role
  BY <1>1
<1>5. Distinct(<<>>, IdOf) /\ <<>> \in Seq({})
  BY DEF Distinct
<1>6. WellDescribed(p)
  BY <1>1, <1>2, <1>3, <1>4, <1>5 DEF WellDescribed
<1> QED BY <1>2, <1>4, <1>6 DEF p

(* PlusAll adds one piece after the other.  That the recursion is well defined
   comes first, as for AddedCommands. *)
LEMMA PlusAllAdds ==
    ASSUME NEW d, NEW n \in Nat \ {0}, Len(d) = n
    PROVE  \E sum : /\ PlusAll(d) = sum[n]
                    /\ sum[1] = d[1]
                    /\ \A k \in 2 .. n : sum[k] = Plus(sum[k - 1], d[k])
<1> DEFINE
      Sum[k \in 1 .. Len(d)] == IF k = 1 THEN d[1] ELSE Plus(Sum[k - 1], d[k])
      Body(g, m) == [k \in 1 .. m |-> IF k = 1 THEN d[1] ELSE Plus(g[k - 1], d[k])]
      E == {m \in Nat : \E g : g = Body(g, m)}
<1>1. PlusAll(d) = Sum[n]
  BY DEF PlusAll
<1>2. Sum = CHOOSE g : g = Body(g, n)
  OBVIOUS
<1> HIDE DEF Sum
<1>3. 0 \in E
  <2> DEFINE g == [k \in 1 .. 0 |-> 0]
  <2>1. g = Body(g, 0)
    OBVIOUS
  <2> QED BY <2>1
<1>4. ASSUME NEW m \in Nat, m \in E PROVE m + 1 \in E
  <2>1. PICK g : g = Body(g, m)
    BY <1>4
  <2> DEFINE h == [k \in 1 .. m + 1 |-> IF k <= m THEN g[k]
                                        ELSE IF k = 1 THEN d[1] ELSE Plus(g[m], d[k])]
  <2>2. ASSUME NEW k \in 1 .. m + 1
        PROVE  h[k] = IF k = 1 THEN d[1] ELSE Plus(h[k - 1], d[k])
    <3>1. CASE k \in 1 .. m /\ k = 1
      BY <2>1, <3>1
    <3>2. CASE k \in 2 .. m
      <4>1. h[k - 1] = g[k - 1] /\ h[k] = g[k]
        BY <3>2
      <4>2. g[k] = Plus(g[k - 1], d[k])
        <5> HIDE DEF h
        <5> QED BY <2>1, <3>2
      <4> QED BY <4>1, <4>2, <3>2
    <3>3. CASE k = m + 1 /\ k # 1
      <4>1. h[k - 1] = g[m] /\ h[k] = Plus(g[m], d[k])
        BY <3>3
      <4> QED BY <4>1, <3>3
    <3>4. CASE k = m + 1 /\ k = 1
      BY <3>4
    <3> QED BY <3>1, <3>2, <3>3, <3>4
  <2>3. h = Body(h, m + 1)
    <3>1. h = [k \in 1 .. m + 1 |-> h[k]]
      OBVIOUS
    <3> HIDE DEF h
    <3> QED BY <2>2, <3>1
  <2> HIDE DEF Body, h
  <2> QED BY <2>3
<1>5. n \in E
  <2> HIDE DEF E
  <2> QED BY <1>3, <1>4, SetInduction
<1>6. Sum = Body(Sum, n)
  <2>1. PICK g : g = Body(g, n)
    BY <1>5
  <2> HIDE DEF Body
  <2> QED BY <2>1, <1>2
<1>7. /\ Sum[1] = d[1]
      /\ \A k \in 2 .. n : Sum[k] = Plus(Sum[k - 1], d[k])
  BY <1>6
<1> QED BY <1>1, <1>7

(* Whatever operator+ may add up is well described, however many pieces. *)
LEMMA SumIs ==
    ASSUME NEW d, Summable(d)
    PROVE  WellDescribed(PlusAll(d))
<1> DEFINE n == Len(d)
<1>1. /\ n \in Nat \ {0} /\ DOMAIN d = 1 .. n
  <2>1. PICK S : d \in Seq(S)
    BY DEF Summable
  <2> QED BY <2>1 DEF Summable
<1> HIDE DEF n
<1>2. PICK sum : /\ PlusAll(d) = sum[n]
                 /\ sum[1] = d[1]
                 /\ \A k \in 2 .. n : sum[k] = Plus(sum[k - 1], d[k])
  BY <1>1, PlusAllAdds DEF n
<1>3. CASE n = 1
  <2>1. 1 \in DOMAIN d
    BY <1>1
  <2> QED BY <1>2, <1>3, <2>1 DEF Summable
<1>4. CASE n > 1
  <2>1. \A k \in 1 .. n : d[k].cmds = <<>> /\ WellDescribed(d[k])
    BY <1>1, <1>4 DEF Summable, n
  <2>2. \A i, k \in 1 .. n : i # k => IdsOf(d[i].attrs) \cap IdsOf(d[k].attrs) = {}
    BY <1>1 DEF Summable
  <2> DEFINE Upto(k) == UNION {IdsOf(d[i].attrs) : i \in 1 .. k}
             Holds(k) == /\ WellDescribed(sum[k]) /\ sum[k].cmds = <<>>
                         /\ IdsOf(sum[k].attrs) = Upto(k)
             I == {k \in Nat : k + 1 <= n => Holds(k + 1)}
  <2>3. Holds(1)
    <3>1. Upto(1) = IdsOf(d[1].attrs)
      OBVIOUS
    <3>2. 1 \in 1 .. n
      BY <1>1
    <3> HIDE DEF Upto
    <3> QED BY <1>2, <2>1, <3>1, <3>2
  <2>4. ASSUME NEW k \in Nat, k \in I PROVE k + 1 \in I
    <3> SUFFICES ASSUME (k + 1) + 1 <= n PROVE Holds((k + 1) + 1)
      OBVIOUS
    <3> DEFINE m == k + 1
    <3>1. m \in 1 .. n /\ m + 1 \in 2 .. n /\ (m + 1) - 1 = m /\ m + 1 \in 1 .. n /\ m \in Nat
      BY <1>1
    <3>2. Holds(m)
      BY <2>4, <3>1
    <3> HIDE DEF m
    <3>3. sum[m + 1] = Plus(sum[m], d[m + 1])
      BY <1>2, <3>1
    <3>4. IdsOf(sum[m].attrs) \cap IdsOf(d[m + 1].attrs) = {}
      <4>1. ASSUME NEW i \in 1 .. m PROVE IdsOf(d[i].attrs) \cap IdsOf(d[m + 1].attrs) = {}
        <5>1. i \in 1 .. n /\ i # m + 1
          BY <1>1, <3>1
        <5> QED BY <2>2, <3>1, <5>1
      <4> QED BY <3>2, <4>1
    <3>5. Upto(m + 1) = Upto(m) \cup IdsOf(d[m + 1].attrs)
      <4>1. 1 .. m + 1 = (1 .. m) \cup {m + 1}
        BY <3>1
      <4> QED BY <4>1
    <3>6. WellListed(d[m + 1].attrs) /\ d[m + 1].cmds = <<>>
      BY <2>1, <3>1 DEF WellDescribed
    <3> HIDE DEF Upto
    <3>7. Holds(m + 1)
      <4> DEFINE c == sum[m]
                 e == d[m + 1]
      <4>1. WellDescribed(c) /\ c.cmds = <<>> /\ IdsOf(c.attrs) = Upto(m)
        BY <3>2
      <4>2. WellListed(e.attrs) /\ e.cmds = <<>> /\ IdsOf(c.attrs) \cap IdsOf(e.attrs) = {}
        BY <3>4, <3>6
      <4>3. sum[m + 1] = Plus(c, e)
        BY <3>3
      <4> HIDE DEF c, e
      <4>4. /\ WellDescribed(Plus(c, e)) /\ Plus(c, e).cmds = <<>>
            /\ IdsOf(Plus(c, e).attrs) = IdsOf(c.attrs) \cup IdsOf(e.attrs)
        BY <4>1, <4>2, PlusIs
      <4>5. Upto(m + 1) = IdsOf(c.attrs) \cup IdsOf(e.attrs)
        BY <3>5, <4>1 DEF e
      <4> QED BY <4>3, <4>4, <4>5
    <3> QED BY <3>7 DEF m
  <2>5. 0 \in I
    BY <2>3
  <2> HIDE DEF I, Holds
  <2>6. n - 1 \in I
    <3>1. n - 1 \in Nat
      BY <1>1
    <3> QED BY <2>4, <2>5, <3>1, SetInduction
  <2>7. Holds(n)
    <3>1. (n - 1) + 1 = n /\ n <= n
      BY <1>1
    <3> QED BY <2>6, <3>1 DEF I
  <2> QED BY <1>2, <2>7 DEF Holds
<1> QED BY <1>1, <1>3, <1>4

(* A description that is one struct, and sums of two and of three. *)
LEMMA OnePiece ==
    ASSUME NEW c, WellDescribed(c)
    PROVE  Summable(<<c>>)
<1> DEFINE d == <<c>>
<1>1. d \in Seq({c}) /\ Len(d) = 1 /\ DOMAIN d = 1 .. 1 /\ d[1] = c /\ d # <<>>
  OBVIOUS
<1> HIDE DEF d
<1>2. Summable(d)
  BY <1>1 DEF Summable
<1> QED BY <1>2 DEF d

LEMMA TwoPieces ==
    ASSUME NEW id, NEW I, NEW J, NEW c, NEW d, Piece(c, id, I), Piece(d, id, J), I \cap J = {}
    PROVE  Summable(<<c, d>>)
<1> DEFINE s == <<c, d>>
<1>1. s \in Seq({c, d}) /\ Len(s) = 2 /\ DOMAIN s = 1 .. 2 /\ s[1] = c /\ s[2] = d /\ s # <<>>
  OBVIOUS
<1> HIDE DEF s
<1>2. IdAndRole(c) = IdAndRole(d)
  BY DEF Piece, IdAndRole
<1>3. Summable(s)
  BY <1>1, <1>2 DEF Summable, Piece
<1> QED BY <1>3 DEF s

LEMMA ThreePieces ==
    ASSUME NEW id, NEW I, NEW J, NEW K, NEW c, NEW d, NEW e,
           Piece(c, id, I), Piece(d, id, J), Piece(e, id, K),
           I \cap J = {}, I \cap K = {}, J \cap K = {}
    PROVE  Summable(<<c, d, e>>)
<1> DEFINE s == <<c, d, e>>
<1>1. s \in Seq({c, d, e}) /\ Len(s) = 3 /\ DOMAIN s = 1 .. 3
      /\ s[1] = c /\ s[2] = d /\ s[3] = e /\ s # <<>>
  OBVIOUS
<1> HIDE DEF s
<1>2. IdAndRole(c) = IdAndRole(d) /\ IdAndRole(c) = IdAndRole(e)
  BY DEF Piece, IdAndRole
<1>3. \A i \in 1 .. 3 : s[i] = c \/ s[i] = d \/ s[i] = e
  BY <1>1
<1>4. \A i \in 1 .. 3 : WellDescribed(s[i]) /\ IdAndRole(s[i]) = IdAndRole(s[1]) /\ s[i].cmds = <<>>
  BY <1>1, <1>2, <1>3 DEF Piece
<1>5. /\ IdsOf(c.attrs) \cap IdsOf(d.attrs) = {} /\ IdsOf(c.attrs) \cap IdsOf(e.attrs) = {}
      /\ IdsOf(d.attrs) \cap IdsOf(e.attrs) = {}
  BY DEF Piece
<1>6. ASSUME NEW i \in 1 .. 3, NEW k \in 1 .. 3, i # k
      PROVE  IdsOf(s[i].attrs) \cap IdsOf(s[k].attrs) = {}
  BY <1>1, <1>5, <1>6
<1>7. Summable(s)
  BY <1>1, <1>4, <1>6 DEF Summable
<1> QED BY <1>7 DEF s

(* A server whose attributes have listed ids is well described, and a piece. *)
LEMMA ListedServer ==
    ASSUME NEW c, NEW id, NEW n, NEW ids, c = Server(id, c.attrs), Listing(c.attrs, n, ids)
    PROVE  WellDescribed(c) /\ Piece(c, id, OfIds(ids, n))
<1>1. WellListed(c.attrs) /\ IdsOf(c.attrs) = OfIds(ids, n)
  BY ListingIs
<1>2. WellDescribed(Server(id, c.attrs)) /\ Piece(Server(id, c.attrs), id, IdsOf(c.attrs))
  BY <1>1, ServerIs
<1> QED BY <1>1, <1>2

(* zb_std_cluster_desc.hpp: every struct, and the sums that its clusters are. *)
LEMMA StandardClusters ==
    \A d \in {<<basic_min>>, <<basic_min, basic_names>>, <<basic_ext>>, <<identify>>,
              <<on_off>>, <<groups>>, <<scenes>>, <<level_control>>} : Summable(d)
<1> DEFINE minimal == <<"ZCL_VERSION", "POWER_SOURCE">>
           names == <<"MANUFACTURER_NAME", "MODEL_IDENTIFIER">>
<1>1. Listing(basic_min.attrs, 2, minimal)
  BY AttrFits, MemberTypes, IdIs DEF basic_min, Server, Listing, RevisionId, NullId
<1>2. Listing(basic_names.attrs, 2, names)
  BY AttrFits, MemberTypes, IdIs DEF basic_names, Server, Listing, RevisionId, NullId
<1>3. Listing(basic_ext.attrs, 11,
              <<"ZCL_VERSION", "APPLICATION_VERSION", "STACK_VERSION", "HW_VERSION",
                "MANUFACTURER_NAME", "MODEL_IDENTIFIER", "DATE_CODE", "POWER_SOURCE",
                "LOCATION_DESCRIPTION", "PHYSICAL_ENVIRONMENT", "SW_BUILD">>)
  BY AttrFits, AttrAsFits, MemberTypes, IdIs DEF basic_ext, Server, Listing, RevisionId, NullId
<1>4. Listing(identify.attrs, 1, <<"IDENTIFY_TIME">>)
  BY AttrFits, MemberTypes, IdIs DEF identify, Server, Listing, RevisionId, NullId
<1>5. Listing(on_off.attrs, 1, <<"ON_OFF">>)
  BY AttrAsFits, IdIs DEF on_off, Server, Listing, RevisionId, NullId
<1>6. Listing(groups.attrs, 1, <<"NAME_SUPPORT">>)
  BY AttrAsFits, IdIs DEF groups, Server, Listing, RevisionId, NullId
<1>7. Listing(scenes.attrs, 5, <<"SCENE_COUNT", "CURRENT_SCENE", "SCENE_VALID", "NAME_SUPPORT",
                                 "CURRENT_GROUP">>)
  BY AttrFits, AttrAsFits, MemberTypes, IdIs DEF scenes, Server, Listing, RevisionId, NullId
<1>8. Listing(level_control.attrs, 2, <<"CURRENT_LEVEL", "REMAINING_TIME">>)
  BY AttrFits, MemberTypes, IdIs DEF level_control, Server, Listing, RevisionId, NullId
<1>9. /\ basic_min = Server("BASIC", basic_min.attrs)
      /\ basic_names = Server("BASIC", basic_names.attrs)
      /\ basic_ext = Server("BASIC", basic_ext.attrs)
      /\ identify = Server("IDENTIFY", identify.attrs)
      /\ on_off = Server("ON_OFF", on_off.attrs)
      /\ groups = Server("GROUPS", groups.attrs)
      /\ scenes = Server("SCENES", scenes.attrs)
      /\ level_control = Server("LEVEL_CONTROL", level_control.attrs)
  BY DEF basic_min, basic_names, basic_ext, identify, on_off, groups, scenes, level_control, Server
<1>10. /\ WellDescribed(basic_min) /\ WellDescribed(basic_ext) /\ WellDescribed(identify)
       /\ WellDescribed(on_off) /\ WellDescribed(groups) /\ WellDescribed(scenes)
       /\ WellDescribed(level_control)
  BY <1>1, <1>3, <1>4, <1>5, <1>6, <1>7, <1>8, <1>9, ListedServer
<1>11. Summable(<<basic_min, basic_names>>)
  <2>1. OfIds(minimal, 2) \cap OfIds(names, 2) = {}
    BY DEF OfIds
  <2> HIDE DEF minimal, names
  <2>2. /\ Piece(basic_min, "BASIC", OfIds(minimal, 2))
        /\ Piece(basic_names, "BASIC", OfIds(names, 2))
    BY <1>1, <1>2, <1>9, ListedServer
  <2> QED BY <2>1, <2>2, TwoPieces
<1> QED BY <1>10, <1>11, OnePiece

(* Attributes of one type and access, one for each of distinct ids. *)
LEMMA AttrsList ==
    ASSUME NEW mem \in DOMAIN TypeIds, NEW access, NEW n \in Nat, NEW ids, DOMAIN ids = 1 .. n,
           \A i \in 1 .. n : ids[i] \notin {RevisionId, NullId},
           \A i, k \in 1 .. n : ids[i] = ids[k] => i = k
    PROVE  Listing(Attrs(mem, access, ids), n, ids)
<1> DEFINE attrs == Attrs(mem, access, ids)
<1>1. attrs = [i \in 1 .. n |-> Attr(ids[i], mem, access)]
  BY DEF Attrs
<1>2. \A i \in 1 .. n : attrs[i] = Attr(ids[i], mem, access)
  BY <1>1
<1>3. attrs \in Seq({attrs[i] : i \in 1 .. n}) /\ DOMAIN attrs = 1 .. n
  BY <1>1
<1> HIDE DEF attrs
<1>4. \A i \in 1 .. n : attrs[i].id = ids[i] /\ Typed(attrs[i])
  BY <1>2, AttrFits, IdIs
<1>5. Listing(attrs, n, ids)
  BY <1>3, <1>4 DEF Listing
<1> QED BY <1>5 DEF attrs

(* The clusters of measured values. *)
LEMMA MeasurementIs ==
    ASSUME NEW id, NEW mem \in DOMAIN TypeIds
    PROVE  LET m == Measurement(id, mem)
           IN  /\ m = <<m[1], m[2]>>
               /\ Piece(m[1], id, {"0000"})
               /\ Piece(m[2], id, {"0001", "0002"})
<1> DEFINE v == <<"0000">>
           r == <<"0001", "0002">>
           c == Server(id, Attrs(mem, RP, v))
           d == Server(id, Attrs(mem, Read, r))
<1>1. Listing(Attrs(mem, RP, v), 1, v)
  <2>1. /\ 1 \in Nat /\ DOMAIN v = 1 .. 1
        /\ \A i \in 1 .. 1 : v[i] \notin {RevisionId, NullId}
        /\ \A i, k \in 1 .. 1 : v[i] = v[k] => i = k
    BY DEF RevisionId, NullId
  <2> HIDE DEF v
  <2> QED BY <2>1, AttrsList
<1>2. Listing(Attrs(mem, Read, r), 2, r)
  <2>1. /\ 2 \in Nat /\ DOMAIN r = 1 .. 2
        /\ \A i \in 1 .. 2 : r[i] \notin {RevisionId, NullId}
        /\ \A i, k \in 1 .. 2 : r[i] = r[k] => i = k
    BY DEF RevisionId, NullId
  <2> HIDE DEF r
  <2> QED BY <2>1, AttrsList
<1>3. OfIds(v, 1) = {"0000"} /\ OfIds(r, 2) = {"0001", "0002"}
  BY DEF OfIds
<1>4. Measurement(id, mem) = <<c, d>>
  BY DEF Measurement
<1>5. /\ c.attrs = Attrs(mem, RP, v) /\ c = Server(id, c.attrs)
      /\ d.attrs = Attrs(mem, Read, r) /\ d = Server(id, d.attrs)
  BY DEF Server
<1> HIDE DEF v, r, c, d
<1>6. Piece(c, id, OfIds(v, 1)) /\ Piece(d, id, OfIds(r, 2))
  BY <1>1, <1>2, <1>5, ListedServer
<1>7. Piece(c, id, {"0000"}) /\ Piece(d, id, {"0001", "0002"})
  BY <1>3, <1>6
<1> QED BY <1>4, <1>7

\* n commands with these ids.
CmdListing(cmds, n, ids) ==
    /\ cmds \in Seq({cmds[i] : i \in 1 .. n})
    /\ DOMAIN cmds = 1 .. n
    /\ \A i \in 1 .. n : cmds[i].id = ids[i]
    /\ \A i \in 1 .. n : Sized(cmds[i])
    /\ \A i, k \in 1 .. n : ids[i] = ids[k] => i = k

LEMMA CmdIs ==
    /\ \A id, size : CmdOut(id, size).id = id
    /\ \A id : CmdIn(id).id = id /\ Sized(CmdIn(id))
    /\ \A id : /\ Sized(CmdOut(id, 0)) /\ Sized(CmdOut(id, 2)) /\ Sized(CmdOut(id, 4))
               /\ Sized(CmdOut(id, 5)) /\ Sized(CmdOut(id, 6))
  BY DEF CmdOut, CmdIn, Sized

(* Commands with listed ids are apart, and their arguments sized. *)
LEMMA CmdListingIs ==
    ASSUME NEW cmds, NEW n, NEW ids, CmdListing(cmds, n, ids)
    PROVE  /\ \E S : cmds \in Seq(S)
           /\ Distinct(cmds, IdOf)
           /\ \A i \in DOMAIN cmds : Sized(cmds[i])
<1>1. Distinct(cmds, IdOf)
  BY DEF Distinct, IdOf, CmdListing
<1> QED BY <1>1 DEF CmdListing

LEMMA ClientIs ==
    ASSUME NEW id, NEW cmds, NEW n, NEW ids, CmdListing(cmds, n, ids)
    PROVE  WellDescribed(Client(id, cmds))
<1> DEFINE c == Client(id, cmds)
<1>1. c = [id |-> id, role |-> "Client", attrs |-> <<>>, cmds |-> cmds]
  BY DEF Client
<1>2. WellListed(<<>>)
  <2>1. <<>> \in Seq({})
    OBVIOUS
  <2> QED BY <2>1 DEF WellListed, Distinct
<1>3. c.attrs = <<>> /\ c.cmds = cmds /\ c.id = id /\ c.role = "Client"
  BY <1>1
<1> HIDE DEF c
<1>4. WellDescribed(c)
  BY <1>1, <1>2, <1>3, CmdListingIs DEF WellDescribed, Roles
<1> QED BY <1>4 DEF c

(* The clusters that are only bound to, and those with commands. *)
LEMMA ClientClusters ==
    \A d \in {<<identify_client>>, <<on_off_client>>, <<level_control_client>>} : Summable(d)
<1>1. CmdListing(identify_client.cmds, 3, <<"IDENTIFY", "QUERY", "TRIGGER_EFFECT">>)
  BY CmdIs DEF identify_client, Client, CmdListing
<1>2. CmdListing(on_off_client.cmds, 4, <<"ON", "OFF", "ON_WITH_TIMED_OFF", "TOGGLE">>)
  BY CmdIs DEF on_off_client, Client, CmdListing
<1>3. CmdListing(level_control_client.cmds, 9,
                 <<"MOVE_TO_LEVEL", "MOVE", "STEP", "STOP", "MOVE_TO_LEVEL_WITH_ON_OFF",
                   "MOVE_WITH_ON_OFF", "STEP_WITH_ON_OFF", "STOP_WITH_ON_OFF",
                   "MOVE_TO_CLOSEST_FREQUENCY">>)
  BY CmdIs DEF level_control_client, Client, CmdListing
<1>4. /\ identify_client = Client("IDENTIFY", identify_client.cmds)
      /\ on_off_client = Client("ON_OFF", on_off_client.cmds)
      /\ level_control_client = Client("LEVEL_CONTROL", level_control_client.cmds)
  BY DEF identify_client, on_off_client, level_control_client, Client
<1>5. /\ WellDescribed(identify_client) /\ WellDescribed(on_off_client)
      /\ WellDescribed(level_control_client)
  BY <1>1, <1>2, <1>3, <1>4, ClientIs
<1> QED BY <1>5, OnePiece

LEMMA WithCommandsIs ==
    ASSUME NEW id, NEW attrs, WellListed(attrs), NEW cmds, NEW n, NEW ids, CmdListing(cmds, n, ids)
    PROVE  WellDescribed(WithCommands(Server(id, attrs), cmds))
<1> DEFINE c == WithCommands(Server(id, attrs), cmds)
<1>1. c = [id |-> id, role |-> "Server", attrs |-> attrs, cmds |-> cmds]
  BY DEF WithCommands, Server
<1>2. c.attrs = attrs /\ c.cmds = cmds /\ c.id = id /\ c.role = "Server"
  BY <1>1
<1> HIDE DEF c
<1>3. WellDescribed(c)
  BY <1>1, <1>2, CmdListingIs DEF WellDescribed, Roles
<1> QED BY <1>3 DEF c

(* The status clusters, of values of two types. *)
LEMMA StatusClusters == Summable(<<status>>) /\ Summable(<<status2>>)
<1> DEFINE three == <<"0000", "0001", "0002">>
           four == <<"0000", "0001", "0002", "0003">>
<1>1. CmdListing(status_cmds, 3, <<"1", "2", "3">>)
  BY CmdIs DEF status_cmds, CmdListing
<1>2. WellListed(Attrs("s16", RP, three))
  <2>1. Listing(Attrs("s16", RP, three), 3, three)
    BY AttrFits, MemberTypes, IdIs DEF Attrs, Listing, RevisionId, NullId
  <2> QED BY <2>1, ListingIs
<1>3. WellListed(Attrs("s32", RP, four))
  <2>1. Listing(Attrs("s32", RP, four), 4, four)
    BY AttrFits, MemberTypes, IdIs DEF Attrs, Listing, RevisionId, NullId
  <2> QED BY <2>1, ListingIs
<1> HIDE DEF three, four
<1>4. WellDescribed(status) /\ WellDescribed(status2)
  BY <1>1, <1>2, <1>3, WithCommandsIs DEF status, status2, three, four
<1> QED BY <1>4, OnePiece

(* Power configuration and poll control. *)
LEMMA PowerClusters ==
    \A d \in {<<mains_info>>, <<mains_info, mains_settings>>, <<battery_info>>,
              <<battery_info, battery_settings>>} : Summable(d)
<1> DEFINE mains == <<"0000", "0001">>
           limits == <<"0011", "0012", "0013">>
           battery == <<"0020", "0021">>
           settings == <<"0030", "0031", "0032", "0033", "0034", "0035">>
           thresholds == <<"0036", "0037", "0038", "0039", "003a", "003b", "003c", "003d">>
<1>1. Listing(mains_info.attrs, 2, mains)
  BY AttrFits, MemberTypes, IdIs DEF mains_info, Server, Listing, RevisionId, NullId
<1>2. Listing(<<Attr("0010", "map8", RW)>>, 1, <<"0010">>)
  BY AttrFits, MemberTypes, IdIs DEF Listing, RevisionId, NullId
<1>3. Listing(Attrs("u16", RW, limits), 3, limits)
  BY AttrFits, MemberTypes, IdIs DEF Attrs, Listing, RevisionId, NullId
<1>4. Listing(battery_info.attrs, 2, battery)
  BY AttrFits, MemberTypes, IdIs DEF battery_info, Attrs, Server, Listing, RevisionId, NullId
<1>5. Listing(<<Attr("0030", "str", RW), Attr("0031", "enum_class", RW),
                Attr("0032", "u16", RW), Attr("0033", "u8", RW), Attr("0034", "u8", RW),
                Attr("0035", "map8", RW)>>, 6, settings)
  BY AttrFits, MemberTypes, IdIs DEF Listing, RevisionId, NullId
<1>6. Listing(Attrs("u8", RW, thresholds), 8, thresholds)
  BY AttrFits, MemberTypes, IdIs DEF Attrs, Listing, RevisionId, NullId
<1>7. Listing(<<Attr("003e", "map32", RW)>>, 1, <<"003e">>)
  BY AttrFits, MemberTypes, IdIs DEF Listing, RevisionId, NullId
<1>8. /\ mains_info = Server("0001", mains_info.attrs)
      /\ battery_info = Server("0001", battery_info.attrs)
  BY DEF mains_info, battery_info, Server
<1>9. Piece(mains_info, "0001", {"0000", "0001"})
  <2>1. OfIds(mains, 2) = {"0000", "0001"}
    BY DEF OfIds
  <2> HIDE DEF mains
  <2> QED BY <1>1, <1>8, <2>1, ListedServer
<1>10. Piece(battery_info, "0001", {"0020", "0021"})
  <2>1. OfIds(battery, 2) = {"0020", "0021"}
    BY DEF OfIds
  <2> HIDE DEF battery
  <2> QED BY <1>4, <1>8, <2>1, ListedServer
<1>11. Piece(mains_settings, "0001", {"0010", "0011", "0012", "0013"})
  <2> DEFINE a == <<Attr("0010", "map8", RW)>>
             b == Attrs("u16", RW, limits)
  <2>1. OfIds(<<"0010">>, 1) = {"0010"} /\ OfIds(limits, 3) = {"0011", "0012", "0013"}
    BY DEF OfIds
  <2>2. mains_settings = Server("0001", a \o b)
    BY DEF mains_settings
  <2> HIDE DEF a, limits
  <2>3. /\ WellListed(a) /\ IdsOf(a) = {"0010"}
        /\ WellListed(b) /\ IdsOf(b) = {"0011", "0012", "0013"}
    BY <1>2, <1>3, <2>1, ListingIs DEF a
  <2> HIDE DEF b
  <2>4. WellListed(a \o b) /\ IdsOf(a \o b) = {"0010", "0011", "0012", "0013"}
    BY <2>3, ConcatIs
  <2> QED BY <2>2, <2>4, ServerIs
<1>12. Piece(battery_settings, "0001",
             {"0030", "0031", "0032", "0033", "0034", "0035", "0036", "0037", "0038", "0039",
              "003a", "003b", "003c", "003d", "003e"})
  <2> DEFINE a == <<Attr("0030", "str", RW), Attr("0031", "enum_class", RW),
                    Attr("0032", "u16", RW), Attr("0033", "u8", RW), Attr("0034", "u8", RW),
                    Attr("0035", "map8", RW)>>
             b == Attrs("u8", RW, thresholds)
             e == <<Attr("003e", "map32", RW)>>
             A == {"0030", "0031", "0032", "0033", "0034", "0035"}
             B == {"0036", "0037", "0038", "0039", "003a", "003b", "003c", "003d"}
  <2>1. OfIds(settings, 6) = A /\ OfIds(thresholds, 8) = B /\ OfIds(<<"003e">>, 1) = {"003e"}
    BY DEF OfIds
  <2>2. battery_settings = Server("0001", a \o b \o e)
    BY DEF battery_settings
  <2>3. A \cap B = {} /\ (A \cup B) \cap {"003e"} = {}
    OBVIOUS
  <2>4. A \cup B \cup {"003e"} =
           {"0030", "0031", "0032", "0033", "0034", "0035", "0036", "0037", "0038", "0039",
            "003a", "003b", "003c", "003d", "003e"}
    OBVIOUS
  <2> HIDE DEF A, B, settings, thresholds, a, e
  <2>5. /\ WellListed(a) /\ IdsOf(a) = A /\ WellListed(e) /\ IdsOf(e) = {"003e"}
        /\ WellListed(b) /\ IdsOf(b) = B
    BY <1>5, <1>6, <1>7, <2>1, ListingIs DEF a, e
  <2> HIDE DEF b
  <2>6. WellListed(a \o b) /\ IdsOf(a \o b) = A \cup B
    BY <2>3, <2>5, ConcatIs
  <2> DEFINE ab == a \o b
  <2>7. WellListed(ab \o e) /\ IdsOf(ab \o e) = A \cup B \cup {"003e"}
    <3> HIDE DEF ab
    <3>1. WellListed(ab) /\ IdsOf(ab) = A \cup B
      BY <2>6 DEF ab
    <3> QED BY <2>3, <2>5, <3>1, ConcatIs
  <2>8. Piece(Server("0001", ab \o e), "0001", IdsOf(ab \o e))
    BY <2>7, ServerIs
  <2> QED BY <2>2, <2>4, <2>7, <2>8
<1>13. Summable(<<mains_info, mains_settings>>)
  <2>1. {"0000", "0001"} \cap {"0010", "0011", "0012", "0013"} = {}
    OBVIOUS
  <2> QED BY <1>9, <1>11, <2>1, TwoPieces
<1>14. Summable(<<battery_info, battery_settings>>)
  <2>1. {"0020", "0021"} \cap
          {"0030", "0031", "0032", "0033", "0034", "0035", "0036", "0037", "0038", "0039",
           "003a", "003b", "003c", "003d", "003e"} = {}
    OBVIOUS
  <2> QED BY <1>10, <1>12, <2>1, TwoPieces
<1>15. WellDescribed(mains_info) /\ WellDescribed(battery_info)
  BY <1>9, <1>10 DEF Piece
<1> QED BY <1>13, <1>14, <1>15, OnePiece

(* Poll control, with the alarm that it keeps as an attribute without a type. *)
LEMMA PollControlClusters == Summable(<<poll_ctrl_basic>>) /\ Summable(<<poll_ctrl_basic, poll_ctrl>>)
<1> DEFINE basic == <<"0000", "0001", "0002", "0003", "effe">>
           more == <<"0004", "0005", "0006">>
<1>1. Listing(poll_ctrl_basic.attrs, 5, basic)
  BY AttrFits, AttrAsFits, MemberTypes, IdIs DEF poll_ctrl_basic, Server, Listing, RevisionId, NullId
<1>2. Listing(poll_ctrl.attrs, 3, more)
  BY AttrFits, MemberTypes, IdIs DEF poll_ctrl, Server, Listing, RevisionId, NullId
<1>3. OfIds(basic, 5) \cap OfIds(more, 3) = {}
  BY DEF OfIds
<1>4. /\ poll_ctrl_basic = Server("0020", poll_ctrl_basic.attrs)
      /\ poll_ctrl = Server("0020", poll_ctrl.attrs)
  BY DEF poll_ctrl_basic, poll_ctrl, Server
<1> HIDE DEF basic, more
<1>5. /\ Piece(poll_ctrl_basic, "0020", OfIds(basic, 5)) /\ WellDescribed(poll_ctrl_basic)
      /\ Piece(poll_ctrl, "0020", OfIds(more, 3))
  BY <1>1, <1>2, <1>4, ListedServer
<1> QED BY <1>3, <1>5, OnePiece, TwoPieces

(* The descriptions with a tolerance append it to the others. *)
LEMMA OneMore ==
    ASSUME NEW x, NEW y, NEW z
    PROVE  <<x, y>> \o <<z>> = <<x, y, z>>
<1> DEFINE S == {x, y, z}
           s == <<x, y>>
           t == <<z>>
           u == <<x, y, z>>
<1>1. s \in Seq(S) /\ Len(s) = 2 /\ s[1] = x /\ s[2] = y
  OBVIOUS
<1>2. t \in Seq(S) /\ Len(t) = 1 /\ t[1] = z
  OBVIOUS
<1>3. u \in Seq(S) /\ Len(u) = 3 /\ u[1] = x /\ u[2] = y /\ u[3] = z
  OBVIOUS
<1> HIDE DEF S, s, t, u
<1>4. /\ s \o t \in Seq(S) /\ Len(s \o t) = 3
      /\ \A i \in 1 .. 3 : (s \o t)[i] = IF i <= 2 THEN s[i] ELSE t[i - 2]
  <2>1. s \o t \in Seq(S) /\ Len(s \o t) = Len(s) + Len(t)
    BY <1>1, <1>2, ConcatProperties
  <2>2. \A i \in 1 .. Len(s) + Len(t) :
           (s \o t)[i] = IF i <= Len(s) THEN s[i] ELSE t[i - Len(s)]
    BY <1>1, <1>2, ConcatProperties
  <2> QED BY <1>1, <1>2, <2>1, <2>2
<1> DEFINE st == s \o t
<1>5. st[1] = x /\ st[2] = y /\ st[3] = z
  BY <1>1, <1>2, <1>4
<1>6. st \in Seq(S) /\ Len(st) = 3
  BY <1>4
<1> HIDE DEF st
<1>7. \A i \in 1 .. 3 : st[i] = u[i]
  BY <1>3, <1>5
<1>8. st = u
  BY <1>3, <1>6, <1>7, SeqEqual
<1> QED BY <1>8 DEF s, t, u, st

(* Temperature, humidity, carbon dioxide, air quality. *)
LEMMA MeasurementClusters ==
    \A d \in {<<temp[1]>>, temp, temp \o <<temp_ext>>, <<rel_humid[1]>>, rel_humid,
              <<co2[1]>>, co2, co2 \o <<co2_ext>>, <<air_q>>} : Summable(d)
<1> DEFINE tolerance == <<"0003">>
           quality == <<"0000", "0001">>
<1>1. Listing(temp_ext.attrs, 1, tolerance) /\ Listing(co2_ext.attrs, 1, tolerance)
  BY AttrFits, MemberTypes, IdIs DEF temp_ext, co2_ext, Attrs, Server, Listing, RevisionId, NullId
<1>2. Listing(air_q.attrs, 2, quality)
  BY AttrFits, MemberTypes, IdIs DEF air_q, Server, Listing, RevisionId, NullId
<1>3. /\ temp_ext = Server("0402", temp_ext.attrs)
      /\ co2_ext = Server("040D", co2_ext.attrs)
      /\ air_q = Server("fc08", air_q.attrs)
  BY DEF temp_ext, co2_ext, air_q, Server
<1>4. OfIds(tolerance, 1) = {"0003"}
  BY DEF OfIds
<1> HIDE DEF tolerance, quality
<1>5. /\ Piece(temp_ext, "0402", {"0003"}) /\ Piece(co2_ext, "040D", {"0003"})
      /\ WellDescribed(air_q)
  BY <1>1, <1>2, <1>3, <1>4, ListedServer
<1>6. /\ temp = <<temp[1], temp[2]>>
      /\ Piece(temp[1], "0402", {"0000"}) /\ Piece(temp[2], "0402", {"0001", "0002"})
  BY MeasurementIs, MemberTypes DEF temp
<1>7. /\ rel_humid = <<rel_humid[1], rel_humid[2]>>
      /\ Piece(rel_humid[1], "0405", {"0000"}) /\ Piece(rel_humid[2], "0405", {"0001", "0002"})
  BY MeasurementIs, MemberTypes DEF rel_humid
<1>8. /\ co2 = <<co2[1], co2[2]>>
      /\ Piece(co2[1], "040D", {"0000"}) /\ Piece(co2[2], "040D", {"0001", "0002"})
  BY MeasurementIs, MemberTypes DEF co2
<1>9. /\ {"0000"} \cap {"0001", "0002"} = {} /\ {"0000"} \cap {"0003"} = {}
      /\ {"0001", "0002"} \cap {"0003"} = {}
  OBVIOUS
<1>10. \A x, y, z : <<x, y>> \o <<z>> = <<x, y, z>>
  BY OneMore
<1>11. WellDescribed(temp[1]) /\ WellDescribed(rel_humid[1]) /\ WellDescribed(co2[1])
  BY <1>6, <1>7, <1>8 DEF Piece
<1>12. Summable(<<temp[1], temp[2]>>) /\ Summable(<<temp[1], temp[2], temp_ext>>)
  BY <1>5, <1>6, <1>9, TwoPieces, ThreePieces
<1>13. Summable(<<rel_humid[1], rel_humid[2]>>)
  BY <1>7, <1>9, TwoPieces
<1>14. Summable(<<co2[1], co2[2]>>) /\ Summable(<<co2[1], co2[2], co2_ext>>)
  BY <1>5, <1>8, <1>9, TwoPieces, ThreePieces
<1>15. Summable(temp) /\ Summable(temp \o <<temp_ext>>)
  BY <1>6, <1>10, <1>12
<1>16. Summable(rel_humid)
  BY <1>7, <1>13
<1>17. Summable(co2) /\ Summable(co2 \o <<co2_ext>>)
  BY <1>8, <1>10, <1>14
<1> QED BY <1>5, <1>11, <1>15, <1>16, <1>17, OnePiece

(* Occupancy sensing: every sensor adds attributes of its own. *)
SensorIds ==
    [PIR |-> {"0010", "0011", "0012"}, Ultrasonic |-> {"0020", "0021", "0022"},
     PhysicalContact |-> {"0030", "0031", "0032"}]

LEMMA SensorPieces ==
    /\ Piece(occupancy, "0406", {"0000", "0001", "0002"})
    /\ \A s \in Sensors : Piece(occupancy_cfg(s), "0406", SensorIds[s])
<1> DEFINE ids(s) == [PIR |-> <<"0010", "0011", "0012">>,
                      Ultrasonic |-> <<"0020", "0021", "0022">>,
                      PhysicalContact |-> <<"0030", "0031", "0032">>][s]
           told == <<"0000", "0001", "0002">>
<1>1. Listing(occupancy.attrs, 3, told)
  BY AttrFits, AttrAsFits, MemberTypes, IdIs DEF occupancy, Server, Listing, RevisionId, NullId
<1>2. occupancy = Server("0406", occupancy.attrs)
  BY DEF occupancy, Server
<1>3. OfIds(told, 3) = {"0000", "0001", "0002"}
  BY DEF OfIds
<1>4. Piece(occupancy, "0406", {"0000", "0001", "0002"})
  <2> HIDE DEF told
  <2> QED BY <1>1, <1>2, <1>3, ListedServer
<1>5. ASSUME NEW s \in Sensors
      PROVE  Piece(occupancy_cfg(s), "0406", SensorIds[s])
  <2> DEFINE attrs == <<Attr(ids(s)[1], "u16", RW), Attr(ids(s)[2], "u16", RW),
                        Attr(ids(s)[3], "u8", RW)>>
  <2>1. /\ DOMAIN ids(s) = 1 .. 3
        /\ OfIds(ids(s), 3) = SensorIds[s]
        /\ \A i \in 1 .. 3 : ids(s)[i] \notin {RevisionId, NullId}
        /\ \A i, k \in 1 .. 3 : ids(s)[i] = ids(s)[k] => i = k
    BY DEF Sensors, OfIds, SensorIds, RevisionId, NullId
  <2>2. occupancy_cfg(s) = Server("0406", attrs)
    BY DEF occupancy_cfg
  <2> DEFINE of == ids(s)
             as == <<Attr(of[1], "u16", RW), Attr(of[2], "u16", RW), Attr(of[3], "u8", RW)>>
  <2>3. attrs = as
    OBVIOUS
  <2> HIDE DEF ids, of, attrs
  <2>4. Listing(as, 3, of)
    BY <2>1, AttrFits, MemberTypes, IdIs DEF Listing, of
  <2> HIDE DEF as
  <2>5. WellListed(as) /\ IdsOf(as) = SensorIds[s]
    BY <2>1, <2>4, ListingIs DEF of
  <2> QED BY <2>2, <2>3, <2>5, ServerIs
<1> QED BY <1>4, <1>5

(* The requires clause lets through one to three sensors, each once. *)
LEMMA OccupancyCfgIs ==
    ASSUME NEW cfgs \in OccupancyCfgs
    PROVE  \E m \in 1 .. 3 : /\ cfgs \in [1 .. m -> Sensors]
                            /\ \A i, k \in 1 .. m : cfgs[i] = cfgs[k] => i = k
<1>1. cfgs \in BoundedSeq(Sensors, 3) /\ cfgs # <<>> /\ kAllUniqueIds(cfgs)
  BY DEF OccupancyCfgs
<1>2. PICK m \in 0 .. 3 : cfgs \in [1 .. m -> Sensors]
  BY <1>1 DEF BoundedSeq, SeqOf
<1>3. cfgs \in Seq(Sensors) /\ Len(cfgs) = m /\ DOMAIN cfgs = 1 .. m
  BY <1>2
<1>4. \A i, k \in 1 .. m : cfgs[i] = cfgs[k] => i = k
  BY <1>1, <1>3, UniqueIds
<1>5. m # 0
  BY <1>1, <1>3
<1> QED BY <1>2, <1>4, <1>5

(* The attributes of any such sensors are apart, in whatever order these stand. *)
LEMMA OccupancyClusters == \A cfgs \in OccupancyCfgs : Summable(occupancy_tpl(cfgs))
<1> SUFFICES ASSUME NEW cfgs \in OccupancyCfgs
             PROVE  Summable(occupancy_tpl(cfgs))
  OBVIOUS
<1>1. PICK m \in 1 .. 3 : /\ cfgs \in [1 .. m -> Sensors]
                          /\ \A i, k \in 1 .. m : cfgs[i] = cfgs[k] => i = k
  BY OccupancyCfgIs
<1> DEFINE more == [i \in 1 .. m |-> occupancy_cfg(cfgs[i])]
           first == <<occupancy>>
           P == {occupancy} \cup {more[i] : i \in 1 .. m}
           d == first \o more
<1>2. occupancy_tpl(cfgs) = d
  BY <1>1 DEF occupancy_tpl, Each
<1>3. \A i \in 1 .. m : more[i] = occupancy_cfg(cfgs[i])
  OBVIOUS
<1>4. more \in Seq(P) /\ Len(more) = m
  OBVIOUS
<1>5. first \in Seq(P) /\ Len(first) = 1 /\ first[1] = occupancy
  OBVIOUS
<1> HIDE DEF more, first, P
<1>6. /\ d \in Seq(P) /\ Len(d) = m + 1
      /\ \A i \in 1 .. m + 1 : d[i] = IF i <= 1 THEN first[i] ELSE more[i - 1]
  <2>1. d \in Seq(P) /\ Len(d) = Len(first) + Len(more)
    BY <1>4, <1>5, ConcatProperties
  <2>2. \A i \in 1 .. Len(first) + Len(more) :
           d[i] = IF i <= Len(first) THEN first[i] ELSE more[i - Len(first)]
    BY <1>4, <1>5, ConcatProperties
  <2>3. Len(first) + Len(more) = m + 1
    BY <1>4, <1>5
  <2> HIDE DEF d
  <2> QED BY <1>5, <2>1, <2>2, <2>3
<1> HIDE DEF d
<1>7. /\ DOMAIN d = 1 .. m + 1 /\ d # <<>>
      /\ d[1] = occupancy
      /\ \A i \in 2 .. m + 1 : i - 1 \in 1 .. m /\ d[i] = occupancy_cfg(cfgs[i - 1])
  BY <1>3, <1>5, <1>6
<1> DEFINE ids(i) == IF i = 1 THEN {"0000", "0001", "0002"} ELSE SensorIds[cfgs[i - 1]]
<1>8. ASSUME NEW i \in 1 .. m + 1 PROVE Piece(d[i], "0406", ids(i))
  <2>1. CASE i = 1
    BY <1>7, <2>1, SensorPieces
  <2>2. CASE i \in 2 .. m + 1
    <3>1. cfgs[i - 1] \in Sensors
      BY <1>1, <1>7, <2>2
    <3> QED BY <1>7, <2>2, <3>1, SensorPieces
  <2> QED BY <2>1, <2>2
<1>9. ASSUME NEW i \in 1 .. m + 1, NEW k \in 1 .. m + 1, i # k
      PROVE  ids(i) \cap ids(k) = {}
  <2>1. \A s \in Sensors : SensorIds[s] \cap {"0000", "0001", "0002"} = {}
    BY DEF Sensors, SensorIds
  <2>2. \A s, t \in Sensors : s # t => SensorIds[s] \cap SensorIds[t] = {}
    BY DEF Sensors, SensorIds
  <2>3. \A x \in 2 .. m + 1 : x - 1 \in 1 .. m /\ cfgs[x - 1] \in Sensors
    BY <1>1
  <2>4. CASE i \in 2 .. m + 1 /\ k \in 2 .. m + 1
    <3>1. i - 1 # k - 1
      BY <1>9
    <3>2. cfgs[i - 1] # cfgs[k - 1]
      BY <1>1, <2>3, <2>4, <3>1
    <3> QED BY <2>2, <2>3, <2>4, <3>2
  <2>5. CASE i = 1 /\ k \in 2 .. m + 1
    BY <2>1, <2>3, <2>5
  <2>6. CASE k = 1 /\ i \in 2 .. m + 1
    BY <2>1, <2>3, <2>6
  <2> QED BY <1>9, <2>4, <2>5, <2>6
<1> HIDE DEF ids
<1>10. \A i \in 1 .. m + 1 : /\ WellDescribed(d[i]) /\ d[i].cmds = <<>>
                             /\ IdAndRole(d[i]) = <<"0406", "Server">>
                             /\ IdsOf(d[i].attrs) \subseteq ids(i)
  BY <1>8 DEF Piece, IdAndRole
<1>11. ASSUME NEW i \in 1 .. m + 1, NEW k \in 1 .. m + 1, i # k
       PROVE  IdsOf(d[i].attrs) \cap IdsOf(d[k].attrs) = {}
  BY <1>9, <1>10, <1>11
<1>12. 1 \in 1 .. m + 1
  OBVIOUS
<1>13. Summable(d)
  BY <1>6, <1>7, <1>10, <1>11, <1>12 DEF Summable
<1> QED BY <1>2, <1>13

(* All descriptions of the library are sums of pieces of one cluster. *)
LEMMA AllSummable == \A d \in Descriptions : Summable(d)
<1>1. \A d \in StdDescriptions : Summable(d)
  BY StandardClusters, ClientClusters DEF StdDescriptions
<1>2. \A d \in PowerConfigDescriptions : Summable(d)
  BY PowerClusters DEF PowerConfigDescriptions
<1>3. \A d \in PollCtrlDescriptions \cup StatusDescriptions : Summable(d)
  BY PollControlClusters, StatusClusters DEF PollCtrlDescriptions, StatusDescriptions
<1>4. \A d \in UNION {TempDescriptions, HumidDescriptions, Co2Descriptions, AirQDescriptions} :
         Summable(d)
  BY MeasurementClusters
     DEF TempDescriptions, HumidDescriptions, Co2Descriptions, AirQDescriptions
<1>5. \A d \in OccupancyDescriptions : Summable(d)
  <2>1. WellDescribed(occupancy) /\ \A s \in Sensors : WellDescribed(occupancy_cfg(s))
    BY SensorPieces DEF Piece
  <2> QED BY <2>1, OnePiece, OccupancyClusters DEF OccupancyDescriptions
<1> QED BY <1>1, <1>2, <1>3, <1>4, <1>5 DEF Descriptions

(* Every cluster of the library is well described. *)
LEMMA LibraryIsWellDescribed == \A c \in Library : WellDescribed(c)
  BY AllSummable, SumIs DEF Library

-----------------------------------------------------------------------------
(* What an application can have written. *)

\* What the clusters of the library are made of.
LibraryAttrs == UNION {{c.attrs[i] : i \in DOMAIN c.attrs} : c \in Library}
LibraryCmds == UNION {{c.cmds[i] : i \in DOMAIN c.cmds} : c \in Library}

\* Ids: the application's own and those of the library's descriptions.
AttrNames == AttrIds \cup {a.id : a \in LibraryAttrs}
CmdNames == CmdIds \cup {cmd.id : cmd \in LibraryCmds}
ClusterNames == ClusterIds \cup {c.id : c \in Library}

AppAttrs ==
    {[id |-> id, access |-> kind.access, mem |-> kind.mem,
      type |-> kind.type, validator |-> kind.validator] :
        id \in AttrIds, kind \in AttrKinds}

AppCmds ==
    {[id |-> id, receive |-> kind.receive, size |-> kind.size] :
        id \in CmdIds, kind \in CmdKinds}

AttrItems == AppAttrs \cup LibraryAttrs
CmdItems == AppCmds \cup LibraryCmds

ClusterItems ==
    [id : ClusterNames, role : Roles, attrs : Seq(AttrItems), cmds : Seq(CmdItems)]

EndpointItems == [ep : Eps, clusters : Seq(ClusterItems) \ {<<>>}]

\* The inductive invariant: endpoints, none without a cluster, whose clusters
\* have attributes and commands of the application's or the library's.
IInv ==
    /\ device \in Seq(EndpointItems) \ {<<>>}
    /\ items \in 1 .. kMaxItems

(* An attribute has an id that is none of the list's own. *)
LEMMA AttrTypes ==
    ASSUME NEW a \in AttrItems
    PROVE  a.id \in AttrNames /\ a.validator \in BOOLEAN
<1>1. CASE a \in AppAttrs
  BY <1>1, DeclarationsAssumption DEF AppAttrs, AttrNames
<1>2. CASE a \in LibraryAttrs
  <2>1. a.id \in AttrNames
    BY <1>2 DEF AttrNames
  <2>2. PICK c \in Library : \E i \in DOMAIN c.attrs : a = c.attrs[i]
    BY <1>2 DEF LibraryAttrs
  <2>3. WellListed(c.attrs)
    BY <2>2, LibraryIsWellDescribed DEF WellDescribed
  <2> QED BY <2>1, <2>2, <2>3 DEF WellListed, Typed
<1> QED BY <1>1, <1>2 DEF AttrItems

(* The ids that the attribute list adds are no member's. *)
LEMMA OwnIds == RevisionId # NullId /\ RevisionId \notin AttrNames /\ NullId \notin AttrNames
<1>1. ASSUME NEW c \in Library, NEW i \in DOMAIN c.attrs
      PROVE  c.attrs[i].id \notin {RevisionId, NullId}
  <2>1. WellListed(c.attrs)
    BY LibraryIsWellDescribed DEF WellDescribed
  <2> QED BY <2>1 DEF WellListed
<1>2. \A a \in LibraryAttrs : a.id \notin {RevisionId, NullId}
  BY <1>1 DEF LibraryAttrs
<1>3. {RevisionId, NullId} \cap AttrIds = {}
  BY DeclarationsAssumption
<1>4. RevisionId # NullId
  BY DEF RevisionId, NullId
<1> QED BY <1>2, <1>3, <1>4 DEF AttrNames

(* A command has a size that kMaxAllowedArgumentSize can be compared with. *)
LEMMA CmdTypes ==
    ASSUME NEW cmd \in CmdItems
    PROVE  cmd.id \in CmdNames /\ cmd.receive \in BOOLEAN /\ cmd.size \in 0 .. 255
<1>1. CASE cmd \in AppCmds
  BY <1>1, DeclarationsAssumption DEF AppCmds, CmdNames
<1>2. CASE cmd \in LibraryCmds
  <2>1. cmd.id \in CmdNames
    BY <1>2 DEF CmdNames
  <2>2. PICK c \in Library : \E i \in DOMAIN c.cmds : cmd = c.cmds[i]
    BY <1>2 DEF LibraryCmds
  <2>3. \A i \in DOMAIN c.cmds : Sized(c.cmds[i])
    BY <2>2, LibraryIsWellDescribed DEF WellDescribed
  <2> QED BY <2>1, <2>2, <2>3 DEF Sized
<1> QED BY <1>1, <1>2 DEF CmdItems

(* The clusters of the library are items. *)
LEMMA LibraryItems == Library \subseteq ClusterItems
<1> SUFFICES ASSUME NEW c \in Library
             PROVE  c \in ClusterItems
  OBVIOUS
<1>1. WellDescribed(c)
  BY LibraryIsWellDescribed
<1>2. c.attrs \in Seq(AttrItems)
  <2>1. PICK S : c.attrs \in Seq(S)
    BY <1>1 DEF WellDescribed, WellListed
  <2>2. \A i \in DOMAIN c.attrs : c.attrs[i] \in AttrItems
    BY DEF AttrItems, LibraryAttrs
  <2> QED BY <2>1, <2>2
<1>3. c.cmds \in Seq(CmdItems)
  <2>1. PICK S : c.cmds \in Seq(S)
    BY <1>1 DEF WellDescribed
  <2>2. \A i \in DOMAIN c.cmds : c.cmds[i] \in CmdItems
    BY DEF CmdItems, LibraryCmds
  <2> QED BY <2>1, <2>2
<1>4. c.id \in ClusterNames
  BY DEF ClusterNames
<1>5. c = [id |-> c.id, role |-> c.role, attrs |-> c.attrs, cmds |-> c.cmds] /\ c.role \in Roles
  BY <1>1 DEF WellDescribed
<1> QED BY <1>2, <1>3, <1>4, <1>5 DEF ClusterItems

(* What AddCluster and AddEndpoint begin with is an item. *)
LEMMA NewClusterItem ==
    ASSUME NEW id \in ClusterIds, NEW role \in Roles
    PROVE  NewCluster(id, role) \in ClusterItems
  BY DEF NewCluster, ClusterItems, ClusterNames

LEMMA LastEndpointItem ==
    ASSUME IInv
    PROVE  /\ Last(device) \in EndpointItems
           /\ Last(device).clusters \in Seq(ClusterItems) \ {<<>>}
<1>1. Last(device) \in EndpointItems
  BY ElementOfSeq DEF IInv, Last
<1> QED BY <1>1 DEF EndpointItems

(* An item is added to the last endpoint, the others stay as they are. *)
LEMMA LastEndpointType ==
    ASSUME IInv, NEW clusters \in Seq(ClusterItems) \ {<<>>}
    PROVE  InLastEndpoint(clusters) \in Seq(EndpointItems) \ {<<>>}
<1> DEFINE n == Len(device)
           e == [device[n] EXCEPT !.clusters = clusters]
<1>1. device \in Seq(EndpointItems) /\ n \in 1 .. Len(device)
  BY DEF IInv
<1>2. e \in EndpointItems
  <2>1. device[n] \in EndpointItems
    BY <1>1, ElementOfSeq
  <2> HIDE DEF n
  <2> QED BY <2>1 DEF EndpointItems
<1>3. InLastEndpoint(clusters) = [device EXCEPT ![n] = e]
  BY DEF InLastEndpoint
<1> HIDE DEF e, n
<1>4. /\ [device EXCEPT ![n] = e] \in Seq(EndpointItems)
      /\ Len([device EXCEPT ![n] = e]) = Len(device)
  BY <1>1, <1>2, ExceptSeq
<1> QED BY <1>1, <1>3, <1>4

(* The last cluster is an item, and another item may take its place. *)
LEMMA LastClusterType ==
    ASSUME IInv
    PROVE  /\ LastCluster \in ClusterItems
           /\ \A c \in ClusterItems :
                 WithLastCluster(c) \in Seq(EndpointItems) \ {<<>>}
<1> DEFINE clusters == Last(device).clusters
<1>1. clusters \in Seq(ClusterItems) /\ clusters # <<>>
  BY LastEndpointItem
<1> HIDE DEF clusters
<1>2. LastCluster \in ClusterItems
  BY <1>1 DEF LastCluster, Last, clusters
<1>3. Front(clusters) \in Seq(ClusterItems)
  BY <1>1, SubSeqProperties DEF Front
<1>4. ASSUME NEW c \in ClusterItems
      PROVE  WithLastCluster(c) \in Seq(EndpointItems) \ {<<>>}
  <2>1. Append(Front(clusters), c) \in Seq(ClusterItems) \ {<<>>}
    <3> DEFINE front == Front(clusters)
    <3>1. front \in Seq(ClusterItems)
      BY <1>3
    <3> HIDE DEF front
    <3>2. Append(front, c) \in Seq(ClusterItems) \ {<<>>}
      BY <3>1
    <3> QED BY <3>2 DEF front
  <2> QED BY <2>1, LastEndpointType DEF WithLastCluster, clusters
<1> QED BY <1>2, <1>4

(* A description begins with an endpoint that has a cluster ... *)
LEMMA FirstItem == Init => IInv
<1> SUFFICES ASSUME NEW ep \in Eps, NEW id \in ClusterIds, NEW role \in Roles,
                    device = <<[ep |-> ep, clusters |-> <<NewCluster(id, role)>>]>>,
                    items = 1
             PROVE  IInv
  BY DEF Init
<1>1. <<NewCluster(id, role)>> \in Seq(ClusterItems) \ {<<>>}
  BY NewClusterItem
<1>2. [ep |-> ep, clusters |-> <<NewCluster(id, role)>>] \in EndpointItems
  BY <1>1 DEF EndpointItems
<1> QED BY <1>2, DeclarationsAssumption DEF IInv

(* Each item leaves the device well formed. *)
LEMMA AnotherItem == IInv /\ [Next]_vars => IInv'
<1> SUFFICES ASSUME IInv, [Next]_vars
             PROVE  IInv'
  OBVIOUS
<1>1. Continued => items' \in 1 .. kMaxItems
  BY DeclarationsAssumption DEF IInv, Continued
<1>2. ASSUME NEW ep \in Eps, NEW id \in ClusterIds, NEW role \in Roles,
             AddEndpoint(ep, id, role)
      PROVE  IInv'
  <2> DEFINE e == [ep |-> ep, clusters |-> <<NewCluster(id, role)>>]
  <2>1. <<NewCluster(id, role)>> \in Seq(ClusterItems) \ {<<>>}
    BY NewClusterItem
  <2>2. e \in EndpointItems
    BY <2>1 DEF EndpointItems
  <2> HIDE DEF e
  <2>3. Append(device, e) \in Seq(EndpointItems) \ {<<>>}
    BY <2>2 DEF IInv
  <2> QED BY <1>1, <1>2, <2>3 DEF AddEndpoint, IInv, e
<1>3. ASSUME NEW id \in ClusterIds, NEW role \in Roles, AddCluster(id, role)
      PROVE  IInv'
  <2>1. Last(device).clusters \in Seq(ClusterItems)
    BY LastEndpointItem
  <2>2. Append(Last(device).clusters, NewCluster(id, role)) \in Seq(ClusterItems) \ {<<>>}
    BY <2>1, NewClusterItem
  <2> QED BY <1>1, <1>3, <2>2, LastEndpointType DEF AddCluster, IInv
<1>4. ASSUME NEW id \in AttrIds, NEW kind \in AttrKinds, AddAttribute(id, kind)
      PROVE  IInv'
  <2> DEFINE a == [id |-> id, access |-> kind.access, mem |-> kind.mem,
                   type |-> kind.type, validator |-> kind.validator]
             c == [LastCluster EXCEPT !.attrs = Append(@, a)]
  <2>1. a \in AttrItems
    BY DEF AttrItems, AppAttrs
  <2> HIDE DEF a
  <2>2. c \in ClusterItems
    <3>1. LastCluster \in ClusterItems
      BY LastClusterType
    <3>2. Append(LastCluster.attrs, a) \in Seq(AttrItems)
      BY <2>1, <3>1 DEF ClusterItems
    <3> QED BY <3>1, <3>2 DEF ClusterItems
  <2>3. device' = WithLastCluster(c)
    BY <1>4 DEF AddAttribute, a
  <2> HIDE DEF c
  <2> QED BY <1>1, <1>4, <2>2, <2>3, LastClusterType DEF AddAttribute, IInv
<1>5. ASSUME NEW id \in CmdIds, NEW kind \in CmdKinds, AddCommand(id, kind)
      PROVE  IInv'
  <2> DEFINE cmd == [id |-> id, receive |-> kind.receive, size |-> kind.size]
             c == [LastCluster EXCEPT !.cmds = Append(@, cmd)]
  <2>1. cmd \in CmdItems
    BY DEF CmdItems, AppCmds
  <2> HIDE DEF cmd
  <2>2. c \in ClusterItems
    <3>1. LastCluster \in ClusterItems
      BY LastClusterType
    <3>2. Append(LastCluster.cmds, cmd) \in Seq(CmdItems)
      BY <2>1, <3>1 DEF ClusterItems
    <3> QED BY <3>1, <3>2 DEF ClusterItems
  <2>3. device' = WithLastCluster(c)
    BY <1>5 DEF AddCommand, cmd
  <2> HIDE DEF c
  <2> QED BY <1>1, <1>5, <2>2, <2>3, LastClusterType DEF AddCommand, IInv
<1>6. CASE UNCHANGED vars
  BY <1>6 DEF IInv, vars
<1> QED BY <1>2, <1>3, <1>4, <1>5, <1>6 DEF Next

(* The inductive invariant holds of every device of an application's items ... *)
THEOREM Invariance == Spec => []IInv
  BY FirstItem, AnotherItem, PTL DEF Spec

(* A device may begin with a cluster of the library ... *)
LEMMA LibraryBegins == LibraryInit => IInv
<1> SUFFICES ASSUME NEW ep \in Eps, NEW c \in Library,
                    device = <<[ep |-> ep, clusters |-> <<c>>]>>, items = kMaxItems - 1
             PROVE  IInv
  BY DEF LibraryInit
<1>1. c \in ClusterItems
  BY LibraryItems
<1>2. <<c>> \in Seq(ClusterItems) \ {<<>>}
  BY <1>1
<1>3. [ep |-> ep, clusters |-> <<c>>] \in EndpointItems
  BY <1>2 DEF EndpointItems
<1>4. kMaxItems - 1 \in 1 .. kMaxItems
  BY DeclarationsAssumption
<1> QED BY <1>3, <1>4 DEF IInv

(* ... and have another one beside it. *)
LEMMA LibraryContinues ==
    ASSUME IInv, NEW c \in Library, AddLibraryCluster(c)
    PROVE  IInv'
<1>1. Continued => items' \in 1 .. kMaxItems
  BY DeclarationsAssumption DEF IInv, Continued
<1>2. Last(device).clusters \in Seq(ClusterItems)
  BY LastEndpointItem
<1>3. c \in ClusterItems
  BY LibraryItems
<1>4. Append(Last(device).clusters, c) \in Seq(ClusterItems) \ {<<>>}
  BY <1>2, <1>3
<1> QED BY <1>1, <1>4, LastEndpointType DEF AddLibraryCluster, IInv

(* ... and of every device that has clusters of the library among them. *)
THEOREM DeviceInvariance == DeviceSpec => []IInv
<1>1. DeviceInit => IInv
  BY FirstItem, LibraryBegins DEF DeviceInit
<1>2. IInv /\ [DeviceNext]_<<vars, battery_vars>> => IInv'
  <2> SUFFICES ASSUME IInv, [DeviceNext]_<<vars, battery_vars>>
               PROVE  IInv'
    OBVIOUS
  <2>1. CASE Next
    BY <2>1, AnotherItem
  <2>2. ASSUME NEW c \in Library, AddLibraryCluster(c) PROVE IInv'
    BY <2>2, LibraryContinues
  <2>3. CASE Measures
    BY <2>3, AnotherItem DEF Measures
  <2>4. CASE UNCHANGED <<vars, battery_vars>>
    BY <2>4, AnotherItem
  <2> QED BY <2>1, <2>2, <2>3, <2>4 DEF DeviceNext
<1> QED BY <1>1, <1>2, PTL DEF DeviceSpec

LEMMA WellTyped == IInv => TypeOK
<1> SUFFICES ASSUME IInv, NEW i \in DOMAIN device
             PROVE  device[i].ep \in Eps /\ device[i].clusters # <<>>
  BY DEF IInv, TypeOK
<1>1. device[i] \in EndpointItems
  BY ElementOfSeq DEF IInv
<1> QED BY <1>1 DEF EndpointItems

(* A device always has an endpoint, an endpoint always has a cluster. *)
THEOREM TypeCorrect == Spec => []TypeOK
  BY Invariance, WellTyped, PTL

-----------------------------------------------------------------------------
(* Lists and searches. *)

(* The list of a direction's commands has their ids and is as long as they are
   many.  That the recursion is well defined comes first: what adds n commands
   also adds n + 1. *)
LEMMA AddedCommands ==
    ASSUME NEW cmds \in Seq(CmdItems), NEW receive \in BOOLEAN
    PROVE  LET of == {i \in DOMAIN cmds : cmds[i].receive = receive}
               ids == CommandIds(cmds, receive)
           IN  /\ ids \in Seq(CmdNames)
               /\ Len(ids) = Cardinality(of)
               /\ ToSet(ids) = {cmds[i].id : i \in of}
<1> DEFINE
      L == Len(cmds)
      Added[n \in 0 .. Len(cmds)] ==
            IF n = 0 THEN <<>>
            ELSE IF cmds[n].receive = receive THEN Append(Added[n - 1], cmds[n].id)
            ELSE Added[n - 1]
      Wanted(n) == cmds[n].receive = receive
      AfterOne(n, s) == IF Wanted(n) THEN Append(s, cmds[n].id) ELSE s
      Body(g, n) == [i \in 0 .. n |-> IF i = 0 THEN <<>> ELSE AfterOne(i, g[i - 1])]
      OfFirst(n) == {i \in 1 .. n : Wanted(i)}
<1>0. /\ L \in Nat /\ DOMAIN cmds = 1 .. L
      /\ \A i \in 1 .. L : cmds[i].id \in CmdNames
  BY ElementOfSeq, CmdTypes
<1>1. CommandIds(cmds, receive) = Added[L]
  BY DEF CommandIds
<1>2. Added = CHOOSE g : g = Body(g, L)
  OBVIOUS
<1> HIDE DEF Added, AfterOne
<1> DEFINE E == {n \in Nat : \E g : g = Body(g, n)}
<1>3. 0 \in E
  <2> DEFINE g == [i \in 0 .. 0 |-> <<>>]
  <2>1. g = Body(g, 0)
    OBVIOUS
  <2> QED BY <2>1
<1>4. ASSUME NEW n \in Nat, n \in E PROVE n + 1 \in E
  <2>1. PICK g : g = Body(g, n)
    BY <1>4
  <2> DEFINE h == [i \in 0 .. n + 1 |-> IF i <= n THEN g[i] ELSE AfterOne(i, g[n])]
  <2>2. ASSUME NEW i \in 0 .. n + 1
        PROVE  h[i] = IF i = 0 THEN <<>> ELSE AfterOne(i, h[i - 1])
    <3>1. CASE i = 0
      BY <2>1, <3>1
    <3>2. CASE i \in 1 .. n
      <4>1. h[i - 1] = g[i - 1] /\ h[i] = g[i]
        BY <3>2
      <4>2. g[i] = AfterOne(i, g[i - 1])
        <5> HIDE DEF h
        <5> QED BY <2>1, <3>2
      <4> QED BY <4>1, <4>2, <3>2
    <3>3. CASE i = n + 1
      <4>1. h[i - 1] = g[n] /\ h[i] = AfterOne(i, g[n])
        BY <3>3
      <4> QED BY <4>1, <3>3
    <3> QED BY <3>1, <3>2, <3>3
  <2>3. h = Body(h, n + 1)
    <3>1. h = [i \in 0 .. n + 1 |-> h[i]]
      OBVIOUS
    <3> HIDE DEF h
    <3> QED BY <2>2, <3>1
  <2> HIDE DEF Body, h
  <2> QED BY <2>3
<1>5. L \in E
  <2> HIDE DEF E
  <2> QED BY <1>0, <1>3, <1>4, SetInduction
<1>6. Added = Body(Added, L)
  <2>1. PICK g : g = Body(g, L)
    BY <1>5
  <2> HIDE DEF Body
  <2> QED BY <2>1, <1>2
<1>7. /\ Added[0] = <<>>
      /\ \A n \in 1 .. L : Added[n] = AfterOne(n, Added[n - 1])
  BY <1>0, <1>6
<1> DEFINE
      Holds(n) == /\ Added[n] \in Seq(CmdNames)
                  /\ Len(Added[n]) = Cardinality(OfFirst(n))
                  /\ ToSet(Added[n]) = {cmds[i].id : i \in OfFirst(n)}
      I == {n \in Nat : n <= L => Holds(n)}
<1>8. 0 \in I
  <2>1. OfFirst(0) = {}
    OBVIOUS
  <2>2. ToSet(<<>>) = {}
    BY DEF ToSet
  <2>3. Holds(0)
    <3>1. {cmds[i].id : i \in OfFirst(0)} = {}
      BY <2>1
    <3>2. Cardinality(OfFirst(0)) = 0
      BY <2>1, FS_EmptySet
    <3>3. Added[0] = <<>> /\ Len(<<>>) = 0 /\ <<>> \in Seq(CmdNames)
      BY <1>7
    <3> HIDE DEF OfFirst
    <3> QED BY <2>2, <3>1, <3>2, <3>3
  <2> HIDE DEF Holds
  <2> QED BY <2>3
<1>9. ASSUME NEW n \in Nat, n \in I PROVE n + 1 \in I
  <2> SUFFICES ASSUME n + 1 <= L PROVE Holds(n + 1)
    OBVIOUS
  <2>1. Holds(n) /\ n + 1 \in 1 .. L
    BY <1>0, <1>9
  <2>2. IsFiniteSet(OfFirst(n)) /\ n + 1 \notin OfFirst(n)
    <3>1. IsFiniteSet(1 .. n)
      BY FS_Interval
    <3> QED BY <3>1, FS_Subset
  <2>3. Added[n + 1] = AfterOne(n + 1, Added[n])
    BY <1>7, <2>1
  <2>4. CASE Wanted(n + 1)
    <3> DEFINE s == Added[n]
               t == Append(s, cmds[n + 1].id)
    <3>1. s \in Seq(CmdNames) /\ Len(s) \in Nat
      BY <2>1
    <3>2. Added[n + 1] = t
      BY <2>3, <2>4 DEF AfterOne
    <3>3. OfFirst(n + 1) = OfFirst(n) \cup {n + 1}
      BY <2>4
    <3> HIDE DEF s, OfFirst
    <3>4. t \in Seq(CmdNames) /\ Len(t) = Len(s) + 1
      BY <3>1, <2>1, <1>0
    <3>5. ToSet(t) = ToSet(s) \cup {cmds[n + 1].id}
      <4>1. DOMAIN s = 1 .. Len(s) /\ DOMAIN t = 1 .. Len(s) + 1
        BY <3>1, <3>4
      <4>2. /\ \A i \in 1 .. Len(s) : t[i] = s[i]
            /\ t[Len(s) + 1] = cmds[n + 1].id
        BY <3>1, <2>1, <1>0
      <4> HIDE DEF t
      <4> QED BY <4>1, <4>2, <3>1 DEF ToSet
    <3>6. Cardinality(OfFirst(n + 1)) = Cardinality(OfFirst(n)) + 1
      BY <2>2, <3>3, FS_AddElement
    <3>7. {cmds[i].id : i \in OfFirst(n + 1)} = {cmds[i].id : i \in OfFirst(n)} \cup {cmds[n + 1].id}
      BY <3>3
    <3> QED BY <2>1, <3>2, <3>4, <3>5, <3>6, <3>7 DEF s
  <2>5. CASE ~ Wanted(n + 1)
    <3>1. Added[n + 1] = Added[n]
      BY <2>3, <2>5 DEF AfterOne
    <3>2. OfFirst(n + 1) = OfFirst(n)
      BY <2>5
    <3> QED BY <2>1, <3>1, <3>2
  <2> QED BY <2>4, <2>5
<1>10. Holds(L)
  <2> HIDE DEF Holds
  <2>1. 0 \in I /\ \A n \in Nat : n \in I => n + 1 \in I
    BY <1>8, <1>9
  <2>2. L \in I
    <3> HIDE DEF I
    <3> QED BY <1>0, <2>1, SetInduction
  <2> QED BY <2>2, <1>0
<1>11. OfFirst(L) = {i \in DOMAIN cmds : cmds[i].receive = receive}
  BY <1>0
<1> QED BY <1>1, <1>10, <1>11

(* A search that can only find x finds x, one that can find nothing 0. *)
LEMMA FirstIs ==
    ASSUME NEW S \in SUBSET Nat, NEW x \in S, \A y \in S : x <= y
    PROVE  First(S) = x
<1>1. Min(S) \in S /\ Min(S) <= x
  BY MinIsLeast
<1>2. First(S) = Min(S)
  BY DEF First
<1>3. x <= Min(S) /\ x \in Nat /\ Min(S) \in Nat
  BY <1>1
<1> QED BY <1>1, <1>2, <1>3

LEMMA FirstFinds ==
    ASSUME NEW n \in Nat, NEW S \in SUBSET (1 .. n)
    PROVE  /\ First(S) # 0 <=> S # {}
           /\ S # {} => First(S) \in S
<1>1. S \in SUBSET Nat
  OBVIOUS
<1>2. S # {} => Min(S) \in S
  BY <1>1, MinIsLeast
<1>3. S # {} => First(S) \in S
  BY <1>2 DEF First
<1>4. S = {} => First(S) = 0
  BY DEF First
<1>5. \A i \in S : i # 0
  OBVIOUS
<1> QED BY <1>3, <1>4, <1>5

(* The attribute list: the members in their order, between the revision and the
   end mark. *)
LEMMA AttributeListIs ==
    ASSUME NEW Attributes, NEW c, c.attrs \in Seq(Attributes)
    PROVE  LET n == Len(c.attrs)
               list == AttributeList(c)
           IN  /\ n \in Nat /\ DOMAIN c.attrs = 1 .. n
               /\ DOMAIN list = 1 .. n + 2
               /\ list[1] = RevisionAttr
               /\ list[n + 2] = g_LastAttribute
               /\ \A a \in 1 .. n :
                     list[a + 1] = [id |-> c.attrs[a].id, access |-> c.attrs[a].access, data |-> a]
<1> DEFINE n == Len(c.attrs)
           members == [i \in 1 .. n |-> [id |-> c.attrs[i].id,
                                         access |-> c.attrs[i].access, data |-> i]]
           X == {RevisionAttr, g_LastAttribute} \cup {members[i] : i \in 1 .. n}
           front == <<RevisionAttr>> \o members
           list == front \o <<g_LastAttribute>>
<1>1. n \in Nat /\ DOMAIN c.attrs = 1 .. n
  OBVIOUS
<1>2. AttributeList(c) = list
  BY <1>1 DEF AttributeList
<1> HIDE DEF n
<1>3. members \in Seq(X) /\ Len(members) = n
  <2>1. \A i \in 1 .. n : members[i] \in X
    OBVIOUS
  <2>2. members = [i \in 1 .. n |-> members[i]]
    OBVIOUS
  <2> HIDE DEF members, X
  <2> QED BY <1>1, <2>1, <2>2
<1>4. \A a \in 1 .. n : members[a] = [id |-> c.attrs[a].id, access |-> c.attrs[a].access, data |-> a]
  OBVIOUS
<1>5. /\ <<RevisionAttr>> \in Seq(X) /\ Len(<<RevisionAttr>>) = 1
      /\ <<g_LastAttribute>> \in Seq(X) /\ Len(<<g_LastAttribute>>) = 1
  OBVIOUS
<1> HIDE DEF members, X
<1>6. /\ front \in Seq(X) /\ Len(front) = n + 1
      /\ \A i \in 1 .. n + 1 : front[i] = IF i <= 1 THEN RevisionAttr ELSE members[i - 1]
  BY <1>1, <1>3, <1>5, ConcatProperties
<1> HIDE DEF front
<1>7. /\ list \in Seq(X) /\ Len(list) = n + 2
      /\ \A i \in 1 .. n + 2 : list[i] = IF i <= n + 1 THEN front[i] ELSE g_LastAttribute
  BY <1>1, <1>6, <1>5, ConcatProperties
<1> HIDE DEF list
<1>8. DOMAIN list = 1 .. n + 2
  BY <1>7
<1>9. list[1] = RevisionAttr /\ list[n + 2] = g_LastAttribute
  BY <1>1, <1>6, <1>7
<1>10. \A a \in 1 .. n : list[a + 1] = members[a]
  BY <1>1, <1>6, <1>7
<1> QED BY <1>1, <1>2, <1>4, <1>8, <1>9, <1>10 DEF n

(* ZBOSS's search of the attribute list for a member's id ends at the member. *)
LEMMA AttributeSearch ==
    ASSUME NEW c \in ClusterItems, Distinct(c.attrs, IdOf),
           NEW a \in DOMAIN c.attrs
    PROVE  LET list == AttributeList(c)
           IN  /\ First({x \in DOMAIN list : list[x].id \in {c.attrs[a].id, NullId}}) = a + 1
               /\ list[a + 1].data = a
<1> DEFINE n == Len(c.attrs)
           list == AttributeList(c)
           S == {x \in DOMAIN list : list[x].id \in {c.attrs[a].id, NullId}}
<1>1. /\ n \in Nat /\ DOMAIN c.attrs = 1 .. n
      /\ DOMAIN list = 1 .. n + 2
      /\ list[1] = RevisionAttr
      /\ \A x \in 1 .. n : list[x + 1] = [id |-> c.attrs[x].id,
                                          access |-> c.attrs[x].access, data |-> x]
  <2>1. c.attrs \in Seq(AttrItems)
    BY DEF ClusterItems
  <2> HIDE DEF n, list
  <2> QED BY <2>1, AttributeListIs DEF n, list
<1>2. /\ a \in 1 .. n
      /\ list[1].id = RevisionId
      /\ \A x \in 1 .. n : list[x + 1].id = c.attrs[x].id
      /\ list[a + 1].data = a
  <2> HIDE DEF n, list
  <2>1. a \in 1 .. n
    BY <1>1
  <2>2. list[1].id = RevisionId
    BY <1>1 DEF RevisionAttr
  <2>3. ASSUME NEW x \in 1 .. n
        PROVE  list[x + 1].id = c.attrs[x].id /\ list[x + 1].data = x
    <3>1. list[x + 1] = [id |-> c.attrs[x].id, access |-> c.attrs[x].access, data |-> x]
      BY <1>1
    <3> QED BY <3>1
  <2> QED BY <2>1, <2>2, <2>3
<1>3. \A x \in 1 .. n : c.attrs[x].id \in AttrNames
  <2>1. \A x \in 1 .. n : c.attrs[x] \in AttrItems
    BY <1>1, ElementOfSeq DEF ClusterItems
  <2> QED BY <2>1, AttrTypes
<1>4. RevisionId # NullId /\ RevisionId \notin AttrNames /\ NullId \notin AttrNames
  BY OwnIds
<1> HIDE DEF list, n
<1>5. S \in SUBSET Nat /\ a + 1 \in S
  <2>1. a + 1 \in 1 .. n + 2
    BY <1>1, <1>2
  <2> QED BY <1>1, <1>2, <2>1
<1>6. ASSUME NEW x \in S, x < a + 1 PROVE FALSE
  <2>1. x \in 1 .. n + 2 /\ list[x].id \in {c.attrs[a].id, NullId}
    BY <1>1
  <2>2. x # 1
    BY <1>2, <1>3, <1>4, <2>1
  <2>3. x - 1 \in 1 .. n /\ (x - 1) + 1 = x /\ x - 1 # a
    BY <1>1, <1>2, <1>6, <2>1, <2>2
  <2>4. list[x].id = c.attrs[x - 1].id
    BY <1>2, <2>3
  <2>5. c.attrs[x - 1].id = c.attrs[a].id
    BY <1>3, <1>4, <2>1, <2>3, <2>4
  <2> QED BY <1>1, <1>2, <2>3, <2>5 DEF Distinct, IdOf
<1>7. \A x \in S : a + 1 <= x
  BY <1>1, <1>2, <1>5, <1>6
<1> HIDE DEF S
<1>8. First(S) = a + 1
  BY <1>5, <1>7, FirstIs
<1> QED BY <1>2, <1>8 DEF S, list

(* SumOf adds one number after the other.  That the recursion is well defined
   comes first, as for AddedCommands. *)
LEMMA SumAdds ==
    ASSUME NEW ns \in Seq(Nat)
    PROVE  \E sum \in [0 .. Len(ns) -> Nat] :
              /\ SumOf(ns) = sum[Len(ns)]
              /\ sum[0] = 0
              /\ \A n \in 1 .. Len(ns) : sum[n] = sum[n - 1] + ns[n]
<1> DEFINE
      L == Len(ns)
      Sum[n \in 0 .. Len(ns)] == IF n = 0 THEN 0 ELSE Sum[n - 1] + ns[n]
      Body(g, n) == [i \in 0 .. n |-> IF i = 0 THEN 0 ELSE g[i - 1] + ns[i]]
      E == {n \in Nat : \E g : g = Body(g, n)}
<1>0. L \in Nat /\ \A n \in 1 .. L : ns[n] \in Nat
  OBVIOUS
<1>1. SumOf(ns) = Sum[L]
  BY DEF SumOf
<1>2. Sum = CHOOSE g : g = Body(g, L)
  OBVIOUS
<1> HIDE DEF Sum
<1>3. 0 \in E
  <2> DEFINE g == [i \in 0 .. 0 |-> 0]
  <2>1. g = Body(g, 0)
    OBVIOUS
  <2> QED BY <2>1
<1>4. ASSUME NEW n \in Nat, n \in E PROVE n + 1 \in E
  <2>1. PICK g : g = Body(g, n)
    BY <1>4
  <2> DEFINE h == [i \in 0 .. n + 1 |-> IF i <= n THEN g[i] ELSE g[n] + ns[i]]
  <2>2. ASSUME NEW i \in 0 .. n + 1
        PROVE  h[i] = IF i = 0 THEN 0 ELSE h[i - 1] + ns[i]
    <3>1. CASE i = 0
      BY <2>1, <3>1
    <3>2. CASE i \in 1 .. n
      <4>1. h[i - 1] = g[i - 1] /\ h[i] = g[i]
        BY <3>2
      <4>2. g[i] = g[i - 1] + ns[i]
        <5> HIDE DEF h
        <5> QED BY <2>1, <3>2
      <4> QED BY <4>1, <4>2, <3>2
    <3>3. CASE i = n + 1
      <4>1. h[i - 1] = g[n] /\ h[i] = g[n] + ns[i]
        BY <3>3
      <4> QED BY <4>1, <3>3
    <3> QED BY <3>1, <3>2, <3>3
  <2>3. h = Body(h, n + 1)
    <3>1. h = [i \in 0 .. n + 1 |-> h[i]]
      OBVIOUS
    <3> HIDE DEF h
    <3> QED BY <2>2, <3>1
  <2> HIDE DEF Body, h
  <2> QED BY <2>3
<1>5. L \in E
  <2> HIDE DEF E
  <2> QED BY <1>0, <1>3, <1>4, SetInduction
<1>6. Sum = Body(Sum, L)
  <2>1. PICK g : g = Body(g, L)
    BY <1>5
  <2> HIDE DEF Body
  <2> QED BY <2>1, <1>2
<1>7. /\ Sum[0] = 0
      /\ \A n \in 1 .. L : Sum[n] = Sum[n - 1] + ns[n]
  BY <1>0, <1>6
<1>8. \A m \in 0 .. L : Sum[m] \in Nat
  <2> DEFINE J == {n \in Nat : n <= L => Sum[n] \in Nat}
  <2>1. 0 \in J
    BY <1>7
  <2>2. ASSUME NEW n \in Nat, n \in J PROVE n + 1 \in J
    <3> SUFFICES ASSUME n + 1 <= L PROVE Sum[n + 1] \in Nat
      OBVIOUS
    <3>1. Sum[n] \in Nat /\ n + 1 \in 1 .. L /\ (n + 1) - 1 = n
      BY <1>0, <2>2
    <3> QED BY <3>1, <1>0, <1>7
  <2>3. \A n \in Nat : n \in J => n + 1 \in J
    BY <2>2
  <2>4. Nat \subseteq J
    <3> HIDE DEF J
    <3> QED BY <2>1, <2>3, SetInduction
  <2> QED BY <2>4, <1>0
<1>9. Sum \in [0 .. L -> Nat]
  <2>1. Sum = [i \in 0 .. L |-> IF i = 0 THEN 0 ELSE Sum[i - 1] + ns[i]]
    BY <1>6
  <2>2. DOMAIN Sum = 0 .. L /\ Sum = [i \in 0 .. L |-> Sum[i]]
    BY <2>1
  <2> QED BY <2>2, <1>8
<1> QED BY <1>1, <1>7, <1>9

LEMMA SumIsMonotone ==
    ASSUME NEW n \in Nat, NEW f \in [1 .. n -> Nat], NEW g \in [1 .. n -> Nat],
           \A i \in 1 .. n : f[i] <= g[i]
    PROVE  SumOf(f) <= SumOf(g)
<1>1. PICK sf \in [0 .. n -> Nat] : /\ SumOf(f) = sf[n]
                                    /\ sf[0] = 0
                                    /\ \A i \in 1 .. n : sf[i] = sf[i - 1] + f[i]
  <2>1. f \in Seq(Nat) /\ Len(f) = n
    OBVIOUS
  <2> QED BY <2>1, SumAdds
<1>2. PICK sg \in [0 .. n -> Nat] : /\ SumOf(g) = sg[n]
                                    /\ sg[0] = 0
                                    /\ \A i \in 1 .. n : sg[i] = sg[i - 1] + g[i]
  <2>1. g \in Seq(Nat) /\ Len(g) = n
    OBVIOUS
  <2> QED BY <2>1, SumAdds
<1> DEFINE I == {i \in Nat : i <= n => sf[i] <= sg[i]}
<1>3. 0 \in I
  BY <1>1, <1>2
<1>4. ASSUME NEW i \in Nat, i \in I PROVE i + 1 \in I
  <2> SUFFICES ASSUME i + 1 <= n PROVE sf[i + 1] <= sg[i + 1]
    OBVIOUS
  <2>1. /\ i \in 0 .. n /\ i + 1 \in 1 .. n /\ (i + 1) - 1 = i
        /\ sf[i] <= sg[i]
    BY <1>4
  <2>2. /\ sf[i + 1] = sf[i] + f[i + 1]
        /\ sg[i + 1] = sg[i] + g[i + 1]
        /\ f[i + 1] <= g[i + 1]
    BY <1>1, <1>2, <2>1
  <2>3. sf[i] \in Nat /\ sg[i] \in Nat /\ f[i + 1] \in Nat /\ g[i + 1] \in Nat
    BY <2>1
  <2> QED BY <2>1, <2>2, <2>3
<1>5. n \in I
  <2>1. \A i \in Nat : i \in I => i + 1 \in I
    BY <1>4
  <2> HIDE DEF I
  <2> QED BY <1>3, <2>1, SetInduction
<1> QED BY <1>1, <1>2, <1>5

-----------------------------------------------------------------------------
(* The checks of the compiler. *)

LEMMA CmdSizes ==
    ASSUME NEW c \in ClusterItems, NEW i \in DOMAIN c.cmds
    PROVE  c.cmds[i].size \in 0 .. 255
<1>1. c.cmds[i] \in CmdItems
  BY ElementOfSeq DEF ClusterItems
<1> QED BY <1>1, CmdTypes

LEMMA UniqueEach ==
    ASSUME NEW A, NEW s \in Seq(A), NEW B, NEW t \in [DOMAIN s -> B]
    PROVE  kAllUniqueIds(t) <=> \A i, k \in DOMAIN s : t[i] = t[k] => i = k
<1>1. DOMAIN s = 1 .. Len(s) /\ Len(s) \in Nat
  OBVIOUS
<1>2. t \in Seq(B) /\ DOMAIN t = DOMAIN s
  BY <1>1
<1> QED BY <1>2, UniqueIds

(* The assertions about ids are about all the members there are. *)
LEMMA UniqueAttrs ==
    ASSUME NEW c \in ClusterItems
    PROVE  kAllUniqueIds(Each(c.attrs, IdOf)) <=> Distinct(c.attrs, IdOf)
<1> DEFINE ids == [i \in DOMAIN c.attrs |-> IdOf(c.attrs[i])]
<1>1. c.attrs \in Seq(AttrItems)
  BY DEF ClusterItems
<1>2. ids \in [DOMAIN c.attrs -> {IdOf(a) : a \in AttrItems}]
  <2>1. \A i \in DOMAIN c.attrs : c.attrs[i] \in AttrItems
    BY <1>1, ElementOfSeq
  <2> QED BY <2>1
<1>3. kAllUniqueIds(Each(c.attrs, IdOf)) = kAllUniqueIds(ids)
  BY DEF Each
<1>4. Distinct(c.attrs, IdOf) <=> \A i, k \in DOMAIN c.attrs : ids[i] = ids[k] => i = k
  BY DEF Distinct
<1> HIDE DEF ids
<1>5. kAllUniqueIds(ids) <=> \A i, k \in DOMAIN c.attrs : ids[i] = ids[k] => i = k
  BY <1>1, <1>2, UniqueEach
<1> QED BY <1>3, <1>4, <1>5

LEMMA UniqueCmds ==
    ASSUME NEW c \in ClusterItems
    PROVE  kAllUniqueIds(Each(c.cmds, IdOf)) <=> Distinct(c.cmds, IdOf)
<1> DEFINE ids == [i \in DOMAIN c.cmds |-> IdOf(c.cmds[i])]
<1>1. c.cmds \in Seq(CmdItems)
  BY DEF ClusterItems
<1>2. ids \in [DOMAIN c.cmds -> {IdOf(cmd) : cmd \in CmdItems}]
  <2>1. \A i \in DOMAIN c.cmds : c.cmds[i] \in CmdItems
    BY <1>1, ElementOfSeq
  <2> QED BY <2>1
<1>3. kAllUniqueIds(Each(c.cmds, IdOf)) = kAllUniqueIds(ids)
  BY DEF Each
<1>4. Distinct(c.cmds, IdOf) <=> \A i, k \in DOMAIN c.cmds : ids[i] = ids[k] => i = k
  BY DEF Distinct
<1> HIDE DEF ids
<1>5. kAllUniqueIds(ids) <=> \A i, k \in DOMAIN c.cmds : ids[i] = ids[k] => i = k
  BY <1>1, <1>2, UniqueEach
<1> QED BY <1>3, <1>4, <1>5

LEMMA UniqueClusters ==
    ASSUME NEW e \in EndpointItems
    PROVE  kAllUniqueIds(Each(e.clusters, IdAndRole)) <=> Distinct(e.clusters, IdAndRole)
<1> DEFINE ids == [i \in DOMAIN e.clusters |-> IdAndRole(e.clusters[i])]
<1>1. e.clusters \in Seq(ClusterItems)
  BY DEF EndpointItems
<1>2. ids \in [DOMAIN e.clusters -> {IdAndRole(c) : c \in ClusterItems}]
  <2>1. \A i \in DOMAIN e.clusters : e.clusters[i] \in ClusterItems
    BY <1>1, ElementOfSeq
  <2> QED BY <2>1
<1>3. kAllUniqueIds(Each(e.clusters, IdAndRole)) = kAllUniqueIds(ids)
  BY DEF Each
<1>4. Distinct(e.clusters, IdAndRole) <=> \A i, k \in DOMAIN e.clusters : ids[i] = ids[k] => i = k
  BY DEF Distinct
<1> HIDE DEF ids
<1>5. kAllUniqueIds(ids) <=> \A i, k \in DOMAIN e.clusters : ids[i] = ids[k] => i = k
  BY <1>1, <1>2, UniqueEach
<1> QED BY <1>3, <1>4, <1>5

LEMMA UniqueEndpoints ==
    ASSUME IInv
    PROVE  kAllUniqueIds(Each(device, EpId)) <=> Distinct(device, EpId)
<1> DEFINE ids == [i \in DOMAIN device |-> EpId(device[i])]
<1>1. device \in Seq(EndpointItems)
  BY DEF IInv
<1>2. ids \in [DOMAIN device -> {EpId(e) : e \in EndpointItems}]
  <2>1. \A i \in DOMAIN device : device[i] \in EndpointItems
    BY <1>1, ElementOfSeq
  <2> QED BY <2>1
<1>3. kAllUniqueIds(Each(device, EpId)) = kAllUniqueIds(ids)
  BY DEF Each
<1>4. Distinct(device, EpId) <=> \A i, k \in DOMAIN device : ids[i] = ids[k] => i = k
  BY DEF Distinct
<1> HIDE DEF ids
<1>5. kAllUniqueIds(ids) <=> \A i, k \in DOMAIN device : ids[i] = ids[k] => i = k
  BY <1>1, <1>2, UniqueEach
<1> QED BY <1>3, <1>4, <1>5

(* The largest size that is reckoned for an endpoint is within the limit when
   every command's is. *)
LEMMA ArgsFit ==
    ASSUME NEW e \in EndpointItems, NEW limit \in Nat
    PROVE  kCmdMaxArgsSize(e) <= limit <=>
              \A i \in DOMAIN e.clusters : \A j \in DOMAIN e.clusters[i].cmds :
                 e.clusters[i].cmds[j].size <= limit
<1>1. e.clusters \in Seq(ClusterItems) /\ e.clusters # <<>>
  BY DEF EndpointItems
<1>2. ASSUME NEW i \in DOMAIN e.clusters
      PROVE  /\ MaxArgSize(e.clusters[i]) \in 0 .. 255
             /\ MaxArgSize(e.clusters[i]) <= limit <=>
                   \A j \in DOMAIN e.clusters[i].cmds : e.clusters[i].cmds[j].size <= limit
  <2> DEFINE c == e.clusters[i]
             sizes == {0} \cup {c.cmds[j].size : j \in DOMAIN c.cmds}
  <2>1. c \in ClusterItems
    BY <1>1, <1>2, ElementOfSeq
  <2>2. sizes \in SUBSET (0 .. 255) /\ sizes # {}
    BY <2>1, CmdSizes
  <2>3. (\A n \in sizes : n <= limit) <=> \A j \in DOMAIN c.cmds : c.cmds[j].size <= limit
    <3>1. 0 <= limit
      OBVIOUS
    <3> HIDE DEF c
    <3> QED BY <3>1
  <2>4. MaxArgSize(c) = Max(sizes)
    BY DEF MaxArgSize
  <2> HIDE DEF sizes, c
  <2>5. /\ Max(sizes) \in sizes
        /\ \A n \in sizes : n <= Max(sizes)
    <3>1. 255 \in Nat
      OBVIOUS
    <3> QED BY <3>1, <2>2, MaxIsGreatest, Zenon
  <2>6. Max(sizes) <= limit <=> \A n \in sizes : n <= limit
    <3>1. \A n \in sizes : n \in 0 .. 255
      BY <2>2, Zenon
    <3>2. Max(sizes) \in Nat /\ \A n \in sizes : n \in Nat
      BY <3>1, <2>5
    <3> QED BY <3>2, <2>5
  <2> QED BY <2>2, <2>3, <2>4, <2>5, <2>6 DEF c
<1> DEFINE maxima == {MaxArgSize(e.clusters[i]) : i \in DOMAIN e.clusters}
<1>3. maxima \in SUBSET (0 .. 255) /\ maxima # {}
  <2>1. 1 \in DOMAIN e.clusters
    BY <1>1
  <2> QED BY <2>1, <1>2
<1>4. (\A n \in maxima : n <= limit) <=>
         \A i \in DOMAIN e.clusters : MaxArgSize(e.clusters[i]) <= limit
  OBVIOUS
<1>5. kCmdMaxArgsSize(e) = Max(maxima)
  BY DEF kCmdMaxArgsSize
<1> HIDE DEF maxima
<1>6. Max(maxima) \in maxima /\ \A n \in maxima : n <= Max(maxima)
  <2>1. 255 \in Nat
    OBVIOUS
  <2> QED BY <2>1, <1>3, MaxIsGreatest, Zenon
<1>7. Max(maxima) <= limit <=> \A n \in maxima : n <= limit
  <2>1. \A n \in maxima : n \in 0 .. 255
    BY <1>3, Zenon
  <2>2. Max(maxima) \in Nat /\ \A n \in maxima : n \in Nat
    BY <2>1, <1>6
  <2> QED BY <2>2, <1>6
<1> QED BY <1>2, <1>4, <1>5, <1>7

(* In a device of an application's items, an endpoint's clusters and a
   cluster's members are its items. *)
LEMMA Items ==
    ASSUME IInv
    PROVE  /\ \A i \in DOMAIN device : device[i] \in EndpointItems
           /\ \A i \in DOMAIN device : \A k \in DOMAIN device[i].clusters :
                 device[i].clusters[k] \in ClusterItems
<1>1. ASSUME NEW i \in DOMAIN device
      PROVE  device[i] \in EndpointItems
  BY <1>1, ElementOfSeq DEF IInv
<1>2. ASSUME NEW i \in DOMAIN device, NEW k \in DOMAIN device[i].clusters
      PROVE  device[i].clusters[k] \in ClusterItems
  <2>1. device[i].clusters \in Seq(ClusterItems)
    BY <1>1 DEF EndpointItems
  <2> QED BY <2>1, ElementOfSeq
<1> QED BY <1>1, <1>2

LEMMA EndpointCompilesExactly ==
    ASSUME NEW e \in EndpointItems
    PROVE  EndpointCompiles(e) <=>
              /\ Distinct(e.clusters, IdAndRole)
              /\ \A k, l \in DOMAIN e.clusters :
                    IsClient(e.clusters[k]) /\ IsServer(e.clusters[l]) => l < k
              /\ \A k \in DOMAIN e.clusters :
                    /\ Distinct(e.clusters[k].attrs, IdOf)
                    /\ Distinct(e.clusters[k].cmds, IdOf)
                    /\ \A j \in DOMAIN e.clusters[k].cmds :
                          e.clusters[k].cmds[j].size <= kMaxAllowedArgumentSize
<1>1. e.clusters \in Seq(ClusterItems) /\ e.clusters # <<>>
  BY DEF EndpointItems
<1>2. \A k \in DOMAIN e.clusters : e.clusters[k] \in ClusterItems
  BY <1>1, ElementOfSeq
<1>3. \A k \in DOMAIN e.clusters :
         ClusterCompiles(e.clusters[k]) <=> /\ Distinct(e.clusters[k].attrs, IdOf)
                                            /\ Distinct(e.clusters[k].cmds, IdOf)
  BY <1>2, UniqueAttrs, UniqueCmds DEF ClusterCompiles
<1>4. kAllClientClustersAtEnd(e.clusters) <=>
         \A k, l \in DOMAIN e.clusters :
            IsClient(e.clusters[k]) /\ IsServer(e.clusters[l]) => l < k
  <2>1. \A c \in ClusterItems : c.role \in Roles
    BY DEF ClusterItems
  <2> QED BY <1>1, <2>1, ClientsAtEnd
<1>5. kCmdMaxArgsSize(e) <= kMaxAllowedArgumentSize <=>
         \A k \in DOMAIN e.clusters : \A j \in DOMAIN e.clusters[k].cmds :
            e.clusters[k].cmds[j].size <= kMaxAllowedArgumentSize
  BY ArgsFit, DeclarationsAssumption
<1> QED BY <1>3, <1>4, <1>5, UniqueClusters DEF EndpointCompiles

LEMMA ExactAsserts == IInv => CompilesExactly
<1> SUFFICES ASSUME IInv
             PROVE  CompilesExactly
  OBVIOUS
<1>1. Compiles <=>
         /\ Distinct(device, EpId)
         /\ \A i \in DOMAIN device : EndpointCompiles(device[i])
  BY UniqueEndpoints DEF Compiles
<1>2. \A p \in Declared : /\ p[1] \in DOMAIN device
                          /\ p[2] \in DOMAIN device[p[1]].clusters
                          /\ ClusterAt(p) = device[p[1]].clusters[p[2]]
  BY DEF Declared, ClusterAt
<1>3. \A i \in DOMAIN device : \A k \in DOMAIN device[i].clusters :
         <<i, k>> \in Declared /\ ClusterAt(<<i, k>>) = device[i].clusters[k]
  BY DEF Declared, ClusterAt
<1>4. ASSUME Compiles
      PROVE  /\ Distinct(device, EpId)
             /\ \A i \in DOMAIN device :
                   /\ Distinct(device[i].clusters, IdAndRole)
                   /\ \A k, l \in DOMAIN device[i].clusters :
                         IsClient(device[i].clusters[k]) /\ IsServer(device[i].clusters[l])
                            => l < k
             /\ \A p \in Declared :
                   /\ Distinct(ClusterAt(p).attrs, IdOf)
                   /\ Distinct(ClusterAt(p).cmds, IdOf)
                   /\ \A j \in DOMAIN ClusterAt(p).cmds :
                         ClusterAt(p).cmds[j].size <= kMaxAllowedArgumentSize
  BY <1>1, <1>2, <1>4, Items, EndpointCompilesExactly
<1>5. ASSUME /\ Distinct(device, EpId)
             /\ \A i \in DOMAIN device :
                   /\ Distinct(device[i].clusters, IdAndRole)
                   /\ \A k, l \in DOMAIN device[i].clusters :
                         IsClient(device[i].clusters[k]) /\ IsServer(device[i].clusters[l])
                            => l < k
             /\ \A p \in Declared :
                   /\ Distinct(ClusterAt(p).attrs, IdOf)
                   /\ Distinct(ClusterAt(p).cmds, IdOf)
                   /\ \A j \in DOMAIN ClusterAt(p).cmds :
                         ClusterAt(p).cmds[j].size <= kMaxAllowedArgumentSize
      PROVE  Compiles
  <2>1. ASSUME NEW i \in DOMAIN device
        PROVE  EndpointCompiles(device[i])
    <3> DEFINE e == device[i]
    <3>1. e \in EndpointItems
      BY Items
    <3>2. \A k \in DOMAIN e.clusters :
             /\ Distinct(e.clusters[k].attrs, IdOf)
             /\ Distinct(e.clusters[k].cmds, IdOf)
             /\ \A j \in DOMAIN e.clusters[k].cmds :
                   e.clusters[k].cmds[j].size <= kMaxAllowedArgumentSize
      BY <1>3, <1>5
    <3>3. /\ Distinct(e.clusters, IdAndRole)
          /\ \A k, l \in DOMAIN e.clusters :
                IsClient(e.clusters[k]) /\ IsServer(e.clusters[l]) => l < k
      BY <1>5
    <3> QED BY <3>1, <3>2, <3>3, EndpointCompilesExactly
  <2> QED BY <1>1, <1>5, <2>1
<1> QED BY <1>4, <1>5 DEF CompilesExactly

(* The static_asserts reject exactly the descriptions they speak of, for any
   number of endpoints, clusters, attributes and commands. *)
THEOREM AssertsAreExact == Spec => []CompilesExactly
  BY Invariance, ExactAsserts, PTL

-----------------------------------------------------------------------------
(* What is looked up. *)

LEMMA AttributesReached == IInv /\ CompilesExactly => AttrReachesMember
<1> SUFFICES ASSUME IInv, CompilesExactly, Compiles, NEW p \in Declared,
                    NEW a \in DOMAIN ClusterAt(p).attrs
             PROVE  ZbossFinds(AttrRaw(device[p[1]], ClusterAt(p), ClusterAt(p).attrs[a]))
                      = <<p[1], p[2], a>>
  BY DEF AttrReachesMember
<1> DEFINE i == p[1]
           k == p[2]
           clusters == device[i].clusters
           c == clusters[k]
           n == Len(c.attrs)
           list == AttributeList(c)
           to == AttrRaw(device[i], c, c.attrs[a])
<1>1. /\ i \in DOMAIN device /\ k \in DOMAIN clusters /\ ClusterAt(p) = c
      /\ device \in Seq(EndpointItems) /\ clusters \in Seq(ClusterItems)
      /\ c \in ClusterItems
  BY Items DEF Declared, ClusterAt, IInv, EndpointItems
<1>2. to.ep = device[i].ep /\ to.cluster = c.id /\ to.role = c.role
      /\ to.attr = c.attrs[a].id
  BY DEF AttrRaw
<1> HIDE DEF to
<1>3. /\ Distinct(device, EpId)
      /\ Distinct(clusters, IdAndRole)
      /\ Distinct(c.attrs, IdOf)
  BY <1>1 DEF CompilesExactly
<1>4. First({x \in DOMAIN device : device[x].ep = to.ep}) = i
  <2> DEFINE S == {x \in DOMAIN device : device[x].ep = to.ep}
  <2>1. S \in SUBSET Nat /\ i \in S
    BY <1>1, <1>2
  <2>2. \A x \in S : x = i
    BY <1>1, <1>2, <1>3 DEF Distinct, EpId
  <2> HIDE DEF S
  <2>3. \A x \in S : i <= x
    BY <2>1, <2>2
  <2>4. First(S) = i
    BY <2>1, <2>3, FirstIs
  <2> QED BY <2>4 DEF S
<1>5. First({x \in DOMAIN clusters : IdAndRole(clusters[x]) = <<to.cluster, to.role>>}) = k
  <2> DEFINE S == {x \in DOMAIN clusters : IdAndRole(clusters[x]) = <<to.cluster, to.role>>}
  <2>1. S \in SUBSET Nat /\ k \in S
    BY <1>1, <1>2 DEF IdAndRole
  <2>2. \A x \in S : x = k
    BY <1>1, <1>2, <1>3 DEF Distinct, IdAndRole
  <2> HIDE DEF S
  <2>3. \A x \in S : k <= x
    BY <2>1, <2>2
  <2>4. First(S) = k
    BY <2>1, <2>3, FirstIs
  <2> QED BY <2>4 DEF S
<1>6. /\ First({x \in DOMAIN list : list[x].id \in {to.attr, NullId}}) = a + 1
      /\ list[a + 1].data = a
  <2>1. a \in DOMAIN c.attrs
    BY <1>1
  <2> HIDE DEF c
  <2> QED BY <2>1, <1>1, <1>2, <1>3, AttributeSearch
<1>7. i # 0 /\ k # 0
  BY <1>1
<1>8. ZbossFinds(to) = <<i, k, a>>
  <2> HIDE DEF i, k
  <2> QED BY <1>4, <1>5, <1>6, <1>7 DEF ZbossFinds
<1> QED BY <1>1, <1>8 DEF to

(* In a device that compiles, ZBOSS's walk ends at the member whose pointer the
   application named: its endpoint, cluster and attribute are the only ones with
   their ids, and the list does not end before. *)
THEOREM AttributesAreReached == Spec => []AttrReachesMember
  BY Invariance, AssertsAreExact, AttributesReached, PTL

LEMMA ReceiveIsBoolean ==
    ASSUME NEW c \in ClusterItems, NEW i \in DOMAIN c.cmds
    PROVE  c.cmds[i].receive \in BOOLEAN
<1>1. c.cmds[i] \in CmdItems
  BY ElementOfSeq DEF ClusterItems
<1> QED BY <1>1, CmdTypes

(* Each list of commands has the ids of its direction, each once, and fills the
   array counted for it; the lists have no id in common. *)
LEMMA CommandLists ==
    ASSUME NEW c \in ClusterItems, Distinct(c.cmds, IdOf)
    PROVE  LET received == ReceivedCommands(c)
               generated == GeneratedCommands(c)
           IN  /\ ToSet(received) = {c.cmds[i].id : i \in {j \in DOMAIN c.cmds : c.cmds[j].receive}}
               /\ Len(received) = Cardinality(ToSet(received))
               /\ ToSet(received) \cap ToSet(generated) = {}
               /\ Len(received) = Count(c.cmds, IsReceived)
               /\ Len(generated) = Count(c.cmds, IsGenerated)
<1> DEFINE of(receive) == {i \in DOMAIN c.cmds : c.cmds[i].receive = receive}
           received == ReceivedCommands(c)
           generated == GeneratedCommands(c)
<1>1. c.cmds \in Seq(CmdItems)
  BY DEF ClusterItems
<1>2. of(TRUE) = {i \in DOMAIN c.cmds : c.cmds[i].receive}
  BY ReceiveIsBoolean
<1>3. of(FALSE) = {i \in DOMAIN c.cmds : ~ c.cmds[i].receive}
  BY ReceiveIsBoolean
<1>4. /\ Len(received) = Cardinality(of(TRUE))
      /\ ToSet(received) = {c.cmds[i].id : i \in of(TRUE)}
  BY <1>1, AddedCommands DEF ReceivedCommands
<1>5. /\ Len(generated) = Cardinality(of(FALSE))
      /\ ToSet(generated) = {c.cmds[i].id : i \in of(FALSE)}
  BY <1>1, AddedCommands DEF GeneratedCommands
<1> HIDE DEF received, generated
<1>6. Len(received) = Count(c.cmds, IsReceived)
  BY <1>2, <1>4 DEF Count, IsReceived
<1>7. Len(generated) = Count(c.cmds, IsGenerated)
  BY <1>3, <1>5 DEF Count, IsGenerated
<1>8. ToSet(received) \cap ToSet(generated) = {}
  <2> SUFFICES ASSUME NEW i \in of(TRUE), NEW j \in of(FALSE), c.cmds[i].id = c.cmds[j].id
               PROVE  FALSE
    BY <1>4, <1>5
  <2>1. i = j
    BY DEF Distinct, IdOf
  <2> QED BY <2>1
<1>9. Len(received) = Cardinality(ToSet(received))
  <2> DEFINE S == of(TRUE)
             T == {c.cmds[i].id : i \in S}
             f == [i \in S |-> c.cmds[i].id]
  <2>1. f \in Injection(S, T)
    <3>1. \A i, k \in S : c.cmds[i].id = c.cmds[k].id => i = k
      BY DEF Distinct, IdOf
    <3> HIDE DEF S
    <3> QED BY <3>1 DEF Injection, IsInjective
  <2>2. f \in Surjection(S, T)
    <3> HIDE DEF S
    <3> QED BY DEF Surjection
  <2>3. IsFiniteSet(S)
    <3>1. IsFiniteSet(DOMAIN c.cmds)
      BY <1>1, FS_Interval
    <3> QED BY <3>1, FS_Subset
  <2> HIDE DEF S, T, f
  <2>4. Cardinality(T) = Cardinality(S)
    BY <2>1, <2>2, <2>3, FS_Surjection
  <2> QED BY <2>4, <1>4 DEF S, T
<1> QED BY <1>2, <1>4, <1>6, <1>7, <1>8, <1>9 DEF received, generated

(* The handler of a command is found exactly when the cluster receives it. *)
LEMMA HandlerFound ==
    ASSUME NEW c \in ClusterItems, NEW id
    PROVE  FindCmdHandler(c, id) # 0 <=>
              id \in {c.cmds[i].id : i \in {j \in DOMAIN c.cmds : c.cmds[j].receive}}
<1> DEFINE S == {i \in DOMAIN c.cmds : c.cmds[i].id = id /\ c.cmds[i].receive}
<1>1. Len(c.cmds) \in Nat /\ S \in SUBSET (1 .. Len(c.cmds))
  BY DEF ClusterItems
<1>2. FindCmdHandler(c, id) = First(S)
  BY DEF FindCmdHandler
<1>3. S # {} <=> id \in {c.cmds[i].id : i \in {j \in DOMAIN c.cmds : c.cmds[j].receive}}
  OBVIOUS
<1> HIDE DEF S
<1>4. First(S) # 0 <=> S # {}
  BY <1>1, FirstFinds
<1> QED BY <1>2, <1>3, <1>4

(* A written attribute is checked by its own validator. *)
LEMMA ValidatorFound ==
    ASSUME NEW c \in ClusterItems, Distinct(c.attrs, IdOf)
    PROVE  /\ \A a \in DOMAIN c.attrs :
                 FindAttributeValidator(c, c.attrs[a].id)
                    = IF c.attrs[a].validator THEN a ELSE 0
           /\ \A id : FindAttributeValidator(c, id) # 0 =>
                 \E a \in DOMAIN c.attrs : c.attrs[a].validator
<1>1. Len(c.attrs) \in Nat /\ DOMAIN c.attrs = 1 .. Len(c.attrs)
  BY DEF ClusterItems
<1>2. ASSUME NEW a \in DOMAIN c.attrs
      PROVE  FindAttributeValidator(c, c.attrs[a].id)
                = IF c.attrs[a].validator THEN a ELSE 0
  <2> DEFINE S == {k \in DOMAIN c.attrs : c.attrs[k].id = c.attrs[a].id}
  <2>1. S \in SUBSET Nat /\ a \in S
    BY <1>1
  <2>2. \A k \in S : a <= k
    BY <1>1 DEF Distinct, IdOf
  <2> HIDE DEF S
  <2>3. First(S) = a
    BY <2>1, <2>2, FirstIs
  <2>4. a # 0
    BY <1>1
  <2> QED BY <2>3, <2>4 DEF FindAttributeValidator, S
<1>3. ASSUME NEW id, FindAttributeValidator(c, id) # 0
      PROVE  \E a \in DOMAIN c.attrs : c.attrs[a].validator
  <2> DEFINE S == {k \in DOMAIN c.attrs : c.attrs[k].id = id}
  <2>1. S \in SUBSET (1 .. Len(c.attrs))
    BY <1>1
  <2>2. First(S) # 0 /\ c.attrs[First(S)].validator
    BY <1>3 DEF FindAttributeValidator
  <2> HIDE DEF S
  <2>3. First(S) \in S
    BY <1>1, <2>1, <2>2, FirstFinds
  <2> QED BY <1>1, <2>1, <2>2, <2>3
<1> QED BY <1>2, <1>3

LEMMA MatchingLookups == IInv /\ CompilesExactly => LookupsMatch
<1> SUFFICES ASSUME IInv, CompilesExactly, Compiles, NEW p \in Declared
             PROVE  LET c == ClusterAt(p)
                        received == ReceivedCommands(c)
                        generated == GeneratedCommands(c)
                        cmds == CmdIds \cup ToSet(Each(c.cmds, IdOf))
                        attrs == AttrIds \cup ToSet(Each(c.attrs, IdOf))
                    IN  /\ \A id \in cmds : FindCmdHandler(c, id) # 0 <=> id \in ToSet(received)
                        /\ Len(received) = Cardinality(ToSet(received))
                        /\ ToSet(received) \cap ToSet(generated) = {}
                        /\ Len(received) = Count(c.cmds, IsReceived)
                        /\ Len(generated) = Count(c.cmds, IsGenerated)
                        /\ CountWithValidators(c) > 0
                             <=> \E id \in attrs : FindAttributeValidator(c, id) # 0
                        /\ \A a \in DOMAIN c.attrs :
                              FindAttributeValidator(c, c.attrs[a].id)
                                  = IF c.attrs[a].validator THEN a ELSE 0
  BY DEF LookupsMatch
<1> DEFINE c == ClusterAt(p)
           received == ReceivedCommands(c)
           generated == GeneratedCommands(c)
           attrs == AttrIds \cup ToSet(Each(c.attrs, IdOf))
           V == {a \in DOMAIN c.attrs : HasValidator(c.attrs[a])}
<1>1. c \in ClusterItems
  BY Items DEF Declared, ClusterAt
<1>2. Distinct(c.attrs, IdOf) /\ Distinct(c.cmds, IdOf)
  BY DEF CompilesExactly
<1>3. /\ \A id : FindCmdHandler(c, id) # 0 <=> id \in ToSet(received)
      /\ Len(received) = Cardinality(ToSet(received))
      /\ ToSet(received) \cap ToSet(generated) = {}
      /\ Len(received) = Count(c.cmds, IsReceived)
      /\ Len(generated) = Count(c.cmds, IsGenerated)
  <2> HIDE DEF c
  <2> QED BY <1>1, <1>2, CommandLists, HandlerFound
<1>4. CountWithValidators(c) > 0 <=> V # {}
  <2>1. IsFiniteSet(V)
    <3>1. IsFiniteSet(DOMAIN c.attrs)
      BY <1>1, FS_Interval DEF ClusterItems
    <3> QED BY <3>1, FS_Subset
  <2>2. CountWithValidators(c) = Cardinality(V)
    BY DEF CountWithValidators, Count
  <2> HIDE DEF V
  <2>3. Cardinality(V) \in Nat /\ (Cardinality(V) = 0 <=> V = {})
    BY <2>1, FS_EmptySet, FS_CardinalityType
  <2> QED BY <2>2, <2>3
<1>5. V # {} <=> \E id \in attrs : FindAttributeValidator(c, id) # 0
  <2>1. ASSUME NEW a \in V
        PROVE  c.attrs[a].id \in attrs /\ FindAttributeValidator(c, c.attrs[a].id) # 0
    <3>1. a # 0 /\ a \in DOMAIN c.attrs
      BY <1>1 DEF ClusterItems
    <3>2. c.attrs[a].id \in ToSet(Each(c.attrs, IdOf))
      BY <3>1 DEF ToSet, Each, IdOf
    <3>3. FindAttributeValidator(c, c.attrs[a].id) = a
      BY <1>1, <1>2, ValidatorFound DEF HasValidator
    <3> QED BY <3>1, <3>2, <3>3
  <2>2. ASSUME NEW id \in attrs, FindAttributeValidator(c, id) # 0
        PROVE  V # {}
    BY <1>1, <1>2, <2>2, ValidatorFound DEF HasValidator
  <2> QED BY <2>1, <2>2
<1>6. \A a \in DOMAIN c.attrs :
         FindAttributeValidator(c, c.attrs[a].id) = IF c.attrs[a].validator THEN a ELSE 0
  BY <1>1, <1>2, ValidatorFound
<1> HIDE DEF c, V
<1> QED BY <1>3, <1>4, <1>5, <1>6 DEF c

(* In a device that compiles, the lists and the lookups of every cluster agree,
   however many commands and attributes it has. *)
THEOREM LookupsAgree == Spec => []LookupsMatch
  BY Invariance, AssertsAreExact, MatchingLookups, PTL

-----------------------------------------------------------------------------
(* What ZBOSS is told of an endpoint. *)

(* The simple descriptor: the counts of input and output clusters share the list
   out, and as the clients are at its end the first of them are the inputs. *)
LEMMA CountsSplitTheList ==
    ASSUME NEW e \in EndpointItems,
           \A k, l \in DOMAIN e.clusters :
              IsClient(e.clusters[k]) /\ IsServer(e.clusters[l]) => l < k
    PROVE  LET d == SimpleDesc(e)
           IN  /\ Len(d.app_cluster_list)
                    = d.app_input_cluster_count + d.app_output_cluster_count
               /\ \A k \in DOMAIN e.clusters :
                     IsServer(e.clusters[k]) <=> k <= d.app_input_cluster_count
<1> DEFINE n == Len(e.clusters)
           servers == {k \in DOMAIN e.clusters : IsServer(e.clusters[k])}
           clients == {k \in DOMAIN e.clusters : IsClient(e.clusters[k])}
           d == SimpleDesc(e)
<1>1. /\ n \in Nat /\ DOMAIN e.clusters = 1 .. n
      /\ \A k \in 1 .. n : e.clusters[k] \in ClusterItems
  BY ElementOfSeq DEF EndpointItems
<1>2. /\ d.app_input_cluster_count = Cardinality(servers)
      /\ d.app_output_cluster_count = Cardinality(clients)
  BY DEF SimpleDesc, Count
<1>3. Len(d.app_cluster_list) = n
  <2>1. d.app_cluster_list = [k \in 1 .. n |-> IdOf(e.clusters[k])]
    BY <1>1 DEF SimpleDesc, Each
  <2> HIDE DEF n, d
  <2>2. [k \in 1 .. n |-> IdOf(e.clusters[k])] \in Seq({IdOf(e.clusters[k]) : k \in 1 .. n})
    BY <1>1
  <2> QED BY <1>1, <2>1
<1>4. \A k \in 1 .. n : IsServer(e.clusters[k]) <=> ~ IsClient(e.clusters[k])
  BY <1>1 DEF IsServer, IsClient, ClusterItems, Roles
<1>5. /\ IsFiniteSet(1 .. n) /\ Cardinality(1 .. n) = n
      /\ IsFiniteSet(servers) /\ IsFiniteSet(clients)
  <2>1. IsFiniteSet(1 .. n) /\ Cardinality(1 .. n) = n
    BY <1>1, FS_Interval
  <2> QED BY <1>1, <2>1, FS_Subset
<1>6. Cardinality(servers) \in Nat /\ Cardinality(clients) \in Nat
  BY <1>5, FS_CardinalityType
<1>7. n = Cardinality(servers) + Cardinality(clients)
  <2>1. servers \cup clients = 1 .. n /\ servers \cap clients = {}
    BY <1>1, <1>4
  <2> HIDE DEF servers, clients
  <2>2. Cardinality(servers \cup clients)
           = Cardinality(servers) + Cardinality(clients) - Cardinality(servers \cap clients)
    BY <1>5, FS_Union
  <2>3. Cardinality(servers \cap clients) = 0
    BY <2>1, FS_EmptySet
  <2>4. Cardinality(servers \cup clients) = n
    BY <1>5, <2>1
  <2> QED BY <1>6, <2>2, <2>3, <2>4
<1>8. \E m \in 0 .. n : servers = 1 .. m
  <2>1. CASE servers = {}
    <3>1. servers = 1 .. 0
      BY <2>1
    <3> HIDE DEF servers
    <3> QED BY <1>1, <3>1
  <2>2. CASE servers # {}
    <3>1. servers \in SUBSET (0 .. n)
      BY <1>1
    <3> DEFINE m == Max(servers)
    <3>2. m \in servers /\ \A k \in servers : k <= m
      <4> HIDE DEF servers
      <4> QED BY <1>1, <2>2, <3>1, MaxIsGreatest
    <3> HIDE DEF m
    <3>3. m \in 1 .. n
      BY <1>1, <3>2
    <3>4. ASSUME NEW k \in 1 .. m PROVE k \in servers
      <4>1. k \in 1 .. n /\ ~ m < k
        BY <3>3
      <4>2. ~ IsClient(e.clusters[k])
        BY <1>1, <3>2, <4>1
      <4> QED BY <1>1, <1>4, <4>1, <4>2
    <3>5. \A k \in servers : k \in 1 .. m
      BY <1>1, <3>2, <3>3
    <3> HIDE DEF servers
    <3>6. servers = 1 .. m
      BY <3>4, <3>5
    <3>7. m \in 0 .. n
      BY <1>1, <3>3
    <3> QED BY <3>6, <3>7
  <2> QED BY <2>1, <2>2
<1>9. \A k \in 1 .. n : IsServer(e.clusters[k]) <=> k <= Cardinality(servers)
  <2>1. PICK m \in 0 .. n : servers = 1 .. m
    BY <1>8
  <2>2. Cardinality(servers) = m
    <3> HIDE DEF servers
    <3>1. m \in Nat /\ Cardinality(1 .. m) = m
      BY <1>1, FS_Interval
    <3> QED BY <2>1, <3>1
  <2>3. \A k \in 1 .. n : IsServer(e.clusters[k]) <=> k \in 1 .. m
    BY <1>1, <2>1
  <2> HIDE DEF servers
  <2> QED BY <1>1, <2>2, <2>3
<1> HIDE DEF servers, clients, d, n
<1> QED BY <1>1, <1>2, <1>3, <1>7, <1>9 DEF n, d

(* The attribute list has as many reported attributes as the description: the
   revision and the end mark are not. *)
LEMMA ReportedInList ==
    ASSUME NEW c \in ClusterItems
    PROVE  Cardinality({j \in DOMAIN AttributeList(c) : HasReport(AttributeList(c)[j])})
              = Count(c.attrs, HasReport)
<1> DEFINE n == Len(c.attrs)
           list == AttributeList(c)
           S == {a \in DOMAIN c.attrs : HasReport(c.attrs[a])}
           T == {j \in DOMAIN list : HasReport(list[j])}
           f == [a \in S |-> a + 1]
<1>1. /\ n \in Nat /\ DOMAIN c.attrs = 1 .. n
      /\ DOMAIN list = 1 .. n + 2
      /\ list[1] = RevisionAttr
      /\ list[n + 2] = g_LastAttribute
      /\ \A a \in 1 .. n : list[a + 1] = [id |-> c.attrs[a].id,
                                          access |-> c.attrs[a].access, data |-> a]
  <2>1. c.attrs \in Seq(AttrItems)
    BY DEF ClusterItems
  <2> HIDE DEF n, list
  <2> QED BY <2>1, AttributeListIs DEF n, list
<1> HIDE DEF n, list
<1>2. /\ ~ HasReport(list[1]) /\ ~ HasReport(list[n + 2])
  BY <1>1 DEF RevisionAttr, g_LastAttribute, HasReport
<1>3. ASSUME NEW a \in 1 .. n
      PROVE  HasReport(list[a + 1]) <=> HasReport(c.attrs[a])
  <2>1. list[a + 1] = [id |-> c.attrs[a].id, access |-> c.attrs[a].access, data |-> a]
    BY <1>1
  <2> QED BY <2>1 DEF HasReport
<1>4. f \in [S -> T]
  <2>1. ASSUME NEW a \in S PROVE a + 1 \in T
    BY <1>1, <1>3
  <2> HIDE DEF S, T
  <2> QED BY <2>1
<1>5. f \in Injection(S, T)
  <2>1. \A a, b \in S : a + 1 = b + 1 => a = b
    BY <1>1
  <2> HIDE DEF S, T
  <2> QED BY <1>4, <2>1 DEF Injection, IsInjective
<1>6. f \in Surjection(S, T)
  <2>1. ASSUME NEW j \in T PROVE \E a \in S : f[a] = j
    <3>1. j \in 2 .. n + 1
      BY <1>1, <1>2
    <3>2. j - 1 \in 1 .. n /\ (j - 1) + 1 = j
      BY <1>1, <3>1
    <3>3. j - 1 \in S
      BY <1>1, <1>3, <3>2
    <3> HIDE DEF S, T
    <3> QED BY <3>2, <3>3
  <2> HIDE DEF S, T, f
  <2> QED BY <1>4, <2>1 DEF Surjection
<1>7. IsFiniteSet(S)
  <2>1. IsFiniteSet(1 .. n)
    BY <1>1, FS_Interval
  <2> QED BY <1>1, <2>1, FS_Subset
<1>8. Cardinality(T) = Cardinality(S)
  <2> HIDE DEF S, T, f
  <2> QED BY <1>5, <1>6, <1>7, FS_Surjection
<1> QED BY <1>8 DEF Count, list

(* The room for reporting is what the attribute lists ask for; that for change
   conditions is never larger. *)
LEMMA ReportRoom ==
    ASSUME NEW e \in EndpointItems
    PROVE  /\ RepInfoCount(e) =
                 SumOf([k \in DOMAIN e.clusters |->
                           Cardinality({j \in DOMAIN AttributeList(e.clusters[k]) :
                                           HasReport(AttributeList(e.clusters[k])[j])})])
           /\ CvcAlarmCount(e) <= RepInfoCount(e)
<1> DEFINE n == Len(e.clusters)
           R(k) == Count(e.clusters[k].attrs, HasReport)
           C(k) == Count(e.clusters[k].attrs, IsCvc)
           reports == [k \in 1 .. n |-> R(k)]
           cvcs == [k \in 1 .. n |-> C(k)]
<1>1. /\ n \in Nat /\ DOMAIN e.clusters = 1 .. n
      /\ \A k \in 1 .. n : e.clusters[k] \in ClusterItems
  BY ElementOfSeq DEF EndpointItems
<1>2. RepInfoCount(e) = SumOf(reports)
  BY <1>1 DEF RepInfoCount, Each
<1>3. CvcAlarmCount(e) = SumOf(cvcs)
  BY <1>1 DEF CvcAlarmCount, Each
<1>4. \A k \in 1 .. n : R(k) = Cardinality({j \in DOMAIN AttributeList(e.clusters[k]) :
                                               HasReport(AttributeList(e.clusters[k])[j])})
  BY <1>1, ReportedInList
<1>5. reports = [k \in DOMAIN e.clusters |->
                    Cardinality({j \in DOMAIN AttributeList(e.clusters[k]) :
                                    HasReport(AttributeList(e.clusters[k])[j])})]
  <2> HIDE DEF n, R
  <2> QED BY <1>1, <1>4
<1>6. ASSUME NEW k \in 1 .. n
      PROVE  C(k) \in Nat /\ R(k) \in Nat /\ C(k) <= R(k)
  <2> DEFINE attrs == e.clusters[k].attrs
             r == {a \in DOMAIN attrs : HasReport(attrs[a])}
             v == {a \in DOMAIN attrs : IsCvc(attrs[a])}
  <2>1. attrs \in Seq(AttrItems)
    BY <1>1 DEF ClusterItems
  <2>2. IsFiniteSet(r)
    <3>1. IsFiniteSet(DOMAIN attrs)
      <4>1. Len(attrs) \in Nat /\ DOMAIN attrs = 1 .. Len(attrs)
        BY <2>1, LenProperties
      <4> HIDE DEF attrs
      <4>2. IsFiniteSet(1 .. Len(attrs))
        BY <4>1, FS_Interval
      <4> QED BY <4>1, <4>2
    <3> QED BY <3>1, FS_Subset
  <2>3. v \subseteq r
    BY DEF IsCvc
  <2>4. C(k) = Cardinality(v) /\ R(k) = Cardinality(r)
    BY DEF Count
  <2> HIDE DEF r, v, C, R
  <2> QED BY <2>2, <2>3, <2>4, FS_Subset, FS_CardinalityType
<1>7. /\ reports \in [1 .. n -> Nat] /\ cvcs \in [1 .. n -> Nat]
      /\ \A k \in 1 .. n : cvcs[k] <= reports[k]
  <2> HIDE DEF C, R, n
  <2> QED BY <1>6
<1>8. SumOf(cvcs) <= SumOf(reports)
  <2> HIDE DEF cvcs, reports, n
  <2> QED BY <1>1, <1>7, SumIsMonotone
<1> HIDE DEF reports, cvcs
<1> QED BY <1>2, <1>3, <1>5, <1>8

LEMMA AgreeingTables == IInv /\ CompilesExactly => EndpointTables
<1> SUFFICES ASSUME IInv, CompilesExactly, NEW i \in DOMAIN device
             PROVE  LET e == device[i]
                        d == SimpleDesc(e)
                        reported(c) == {j \in DOMAIN AttributeList(c) :
                                           HasReport(AttributeList(c)[j])}
                    IN  /\ Compiles =>
                              /\ Len(d.app_cluster_list)
                                   = d.app_input_cluster_count + d.app_output_cluster_count
                              /\ \A k \in DOMAIN e.clusters :
                                    IsServer(e.clusters[k]) <=> k <= d.app_input_cluster_count
                        /\ RepInfoCount(e) =
                              SumOf(Each(e.clusters, LAMBDA c : Cardinality(reported(c))))
                        /\ CvcAlarmCount(e) <= RepInfoCount(e)
  BY DEF EndpointTables
<1> DEFINE e == device[i]
<1>1. e \in EndpointItems
  BY Items
<1>2. Compiles => \A k, l \in DOMAIN e.clusters :
                     IsClient(e.clusters[k]) /\ IsServer(e.clusters[l]) => l < k
  BY DEF CompilesExactly
<1> HIDE DEF e
<1>3. Compiles =>
        /\ Len(SimpleDesc(e).app_cluster_list)
             = SimpleDesc(e).app_input_cluster_count + SimpleDesc(e).app_output_cluster_count
        /\ \A k \in DOMAIN e.clusters :
              IsServer(e.clusters[k]) <=> k <= SimpleDesc(e).app_input_cluster_count
  BY <1>1, <1>2, CountsSplitTheList
<1>4. /\ RepInfoCount(e) =
               SumOf([k \in DOMAIN e.clusters |->
                         Cardinality({j \in DOMAIN AttributeList(e.clusters[k]) :
                                         HasReport(AttributeList(e.clusters[k])[j])})])
      /\ CvcAlarmCount(e) <= RepInfoCount(e)
  BY <1>1, ReportRoom
<1>5. SumOf(Each(e.clusters, LAMBDA c : Cardinality({j \in DOMAIN AttributeList(c) :
                                                        HasReport(AttributeList(c)[j])})))
         = SumOf([k \in DOMAIN e.clusters |->
                         Cardinality({j \in DOMAIN AttributeList(e.clusters[k]) :
                                         HasReport(AttributeList(e.clusters[k])[j])})])
  BY DEF Each
<1> QED BY <1>3, <1>4, <1>5 DEF e, Each

(* What ZBOSS is told of an endpoint agrees with its tables, for any number of
   clusters and attributes. *)
THEOREM TablesAgree == Spec => []EndpointTables
  BY Invariance, AssertsAreExact, AgreeingTables, PTL

(* All of this holds of a device that has clusters of the library too, with what
   the application adds to them, and while its battery is measured. *)
THEOREM DeviceIsWellFormed ==
    DeviceSpec => [](/\ TypeOK /\ CompilesExactly /\ AttrReachesMember
                     /\ LookupsMatch /\ EndpointTables)
<1>1. IInv => /\ TypeOK /\ CompilesExactly /\ AttrReachesMember
              /\ LookupsMatch /\ EndpointTables
  BY WellTyped, ExactAsserts, AttributesReached, MatchingLookups, AgreeingTables
<1> QED BY <1>1, DeviceInvariance, PTL

-----------------------------------------------------------------------------
(* The library's clusters on a device. *)

(* A type that is not declared is of the member's size. *)
LEMMA OwnTypeFits ==
    \A mem \in DOMAIN TypeIds :
        /\ mem \in DOMAIN SizeOf
        /\ \/ TypeToTypeId(mem) \in DOMAIN Width /\ Width[TypeToTypeId(mem)] = SizeOf[mem]
           \/ TypeToTypeId(mem) = "CharStr" /\ mem \in {"str", "chars"}
  BY DEF TypeToTypeId, TypeIds, SizeOf, Width

(* Nobody but the library may leave an attribute without a type. *)
LEMMA FittingAttrs ==
    ASSUME KindsFit, NEW a \in AttrItems
    PROVE  FitsItsMember(a)
<1>1. CASE a \in AppAttrs
  <2>1. PICK id \in AttrIds, kind \in AttrKinds :
            a = [id |-> id, access |-> kind.access, mem |-> kind.mem,
                 type |-> kind.type, validator |-> kind.validator]
    BY <1>1 DEF AppAttrs
  <2>2. a.mem = kind.mem /\ a.type = kind.type /\ a.access = kind.access
    BY <2>1
  <2>3. kind.access # {"Internal"}
    <3>1. kind.access \subseteq {"Read", "Write", "Report", "Scene"}
      BY DeclarationsAssumption
    <3> QED BY <3>1
  <2>4. Fits(kind) /\ kind.mem \in DOMAIN SizeOf
    BY OwnTypeFits DEF KindsFit, Fits
  <2>5. kind.type # "Null"
    <3>1. "Null" \notin DOMAIN Width /\ "Null" # "CharStr"
      BY DEF Width
    <3> QED BY <2>3, <2>4, <3>1 DEF Fits
  <2> QED BY <2>2, <2>4, <2>5 DEF FitsItsMember, Fits
<1>2. CASE a \in LibraryAttrs
  <2>1. PICK c \in Library : \E i \in DOMAIN c.attrs : a = c.attrs[i]
    BY <1>2 DEF LibraryAttrs
  <2>2. WellListed(c.attrs)
    BY <2>1, LibraryIsWellDescribed DEF WellDescribed
  <2> QED BY <2>1, <2>2 DEF WellListed, Typed
<1> QED BY <1>1, <1>2 DEF AttrItems

(* No description of the library fails its static_asserts. *)
LEMMA LibraryCompiles == \A c \in Library : ClusterCompiles(c)
<1> SUFFICES ASSUME NEW c \in Library
             PROVE  ClusterCompiles(c)
  OBVIOUS
<1>1. WellDescribed(c) /\ c \in ClusterItems
  BY LibraryIsWellDescribed, LibraryItems
<1>2. Distinct(c.attrs, IdOf) /\ Distinct(c.cmds, IdOf)
  BY <1>1 DEF WellDescribed, WellListed
<1> QED BY <1>1, <1>2, UniqueAttrs, UniqueCmds DEF ClusterCompiles

(* The bits of distinct sensors add up to the index of the type that tells the
   same of PIR and ultrasonic ones. *)
LEMMA SensorsAlwaysAgree == SensorsAgree
<1> SUFFICES ASSUME NEW cfgs \in OccupancyCfgs
             PROVE  LET type == sensor_type(kTypeBitMask(cfgs))
                        has(s) == s \in ToSet(cfgs)
                    IN  /\ has("PIR") <=> type \in {"PIR", "PIRandUltrasonic"}
                        /\ has("Ultrasonic") <=> type \in {"Ultrasonic", "PIRandUltrasonic"}
  BY DEF SensorsAgree
<1>1. PICK m \in 1 .. 3 : /\ cfgs \in [1 .. m -> Sensors]
                          /\ \A i, k \in 1 .. m : cfgs[i] = cfgs[k] => i = k
  BY OccupancyCfgIs
<1> DEFINE ns == [i \in 1 .. m |-> Bit[cfgs[i]]]
           bmp == kTypeBitMask(cfgs)
           Has(s) == \E i \in 1 .. m : cfgs[i] = s
           Share(s) == IF Has(s) THEN Bit[s] ELSE 0
<1>2. bmp = SumOf(ns)
  BY <1>1 DEF kTypeBitMask, Each
<1>3. \A s \in Sensors : Bit[s] \in Nat
  BY DEF Sensors, Bit
<1>4. ns \in Seq(Nat) /\ Len(ns) = m /\ \A i \in 1 .. m : ns[i] = Bit[cfgs[i]]
  BY <1>1, <1>3
<1> HIDE DEF ns, bmp
<1>5. PICK sum \in [0 .. m -> Nat] : /\ bmp = sum[m] /\ sum[0] = 0
                                     /\ \A n \in 1 .. m : sum[n] = sum[n - 1] + ns[n]
  BY <1>2, <1>4, SumAdds
<1>6. /\ bmp \in 1 .. 7
      /\ Has("PIR") <=> bmp \in {1, 3, 5, 7}
      /\ Has("Ultrasonic") <=> bmp \in {2, 3, 6, 7}
  <2>1. sum[1] = Bit[cfgs[1]]
    BY <1>1, <1>3, <1>4, <1>5
  <2>2. m >= 2 => sum[2] = Bit[cfgs[1]] + Bit[cfgs[2]]
    BY <1>1, <1>4, <1>5, <2>1
  <2>3. m >= 3 => sum[3] = Bit[cfgs[1]] + Bit[cfgs[2]] + Bit[cfgs[3]]
    BY <1>1, <1>4, <1>5, <2>2
  <2>4. Bit["PIR"] = 1 /\ Bit["Ultrasonic"] = 2 /\ Bit["PhysicalContact"] = 4
    BY DEF Bit
  <2>5. CASE m = 1
    BY <1>1, <1>5, <2>1, <2>4, <2>5 DEF Sensors
  <2>6. CASE m = 2
    BY <1>1, <1>5, <2>2, <2>4, <2>6 DEF Sensors
  <2>7. CASE m = 3
    BY <1>1, <1>5, <2>3, <2>4, <2>7 DEF Sensors
  <2> QED BY <2>5, <2>6, <2>7
<1>7. \A s : s \in ToSet(cfgs) <=> Has(s)
  BY <1>1 DEF ToSet
<1> HIDE DEF Has
<1>8. /\ sensor_type(bmp) \in {"PIR", "PIRandUltrasonic"} <=> bmp \in {1, 3, 5, 7}
      /\ sensor_type(bmp) \in {"Ultrasonic", "PIRandUltrasonic"} <=> bmp \in {2, 3, 6, 7}
  BY <1>6 DEF sensor_type
<1> QED BY <1>6, <1>7, <1>8 DEF bmp

(* The parts of LibraryFits, of any device of such items. *)
LEMMA FittingLibrary == KindsFit /\ IInv => LibraryFits
<1> SUFFICES ASSUME KindsFit, IInv
             PROVE  LibraryFits
  OBVIOUS
<1>1. SumsOfOneCluster
  BY AllSummable DEF SumsOfOneCluster, Summable
<1>2. ASSUME NEW p \in Declared
      PROVE  /\ ClusterAt(p) \in Library => ClusterCompiles(ClusterAt(p))
             /\ \A i \in DOMAIN ClusterAt(p).attrs : Fits(ClusterAt(p).attrs[i])
  <2>1. ClusterAt(p) \in ClusterItems
    BY Items DEF Declared, ClusterAt
  <2>2. \A i \in DOMAIN ClusterAt(p).attrs : ClusterAt(p).attrs[i] \in AttrItems
    BY <2>1, ElementOfSeq DEF ClusterItems
  <2> QED BY <2>2, FittingAttrs, LibraryCompiles DEF FitsItsMember
<1> QED BY <1>1, <1>2, SensorsAlwaysAgree DEF LibraryFits

(* Every description of the library is of one cluster and compiles, for every
   list of sensors; on every device, whatever an application adds whose own types
   fit, the type of an attribute is of its member's size; and the type and the
   bitmap of the occupancy cluster agree. *)
THEOREM LibraryAlwaysFits ==
    ASSUME KindsFit
    PROVE  DeviceSpec => []LibraryFits
<1>1. IInv => LibraryFits
  BY KindsFit, FittingLibrary
<1> QED BY <1>1, DeviceInvariance, PTL

-----------------------------------------------------------------------------
(* The values of typed handlers. *)

(* What the get_typed_data of each type accepts. *)
LEMMA AcceptedIs ==
    /\ Accepted("u8") = {"U8", "E8"} /\ Accepted("bool") = {"U8", "E8"}
    /\ Accepted("u16") = {"U16", "E16"}
    /\ Accepted("u32") = {"U32"} /\ Accepted("u64") = {"U64"}
    /\ Accepted("s8") = {"S8", "E8"} /\ Accepted("s16") = {"S16", "E16"}
    /\ Accepted("s32") = {"S32"} /\ Accepted("s64") = {"S64"}
<1>1. Accepted("u8") = {"U8", "E8"}
  BY DEF Accepted, Signed, Unsigned, SizeOf
<1>2. Accepted("bool") = {"U8", "E8"}
  BY DEF Accepted, Signed, Unsigned, SizeOf
<1>3. Accepted("u16") = {"U16", "E16"}
  BY DEF Accepted, Signed, Unsigned, SizeOf
<1>4. Accepted("u32") = {"U32"}
  BY DEF Accepted, Signed, Unsigned, SizeOf
<1>5. Accepted("u64") = {"U64"}
  BY DEF Accepted, Signed, Unsigned, SizeOf
<1>6. Accepted("s8") = {"S8", "E8"}
  BY DEF Accepted, Signed, Unsigned, SizeOf
<1>7. Accepted("s16") = {"S16", "E16"}
  BY DEF Accepted, Signed, Unsigned, SizeOf
<1>8. Accepted("s32") = {"S32"}
  BY DEF Accepted, Signed, Unsigned, SizeOf
<1>9. Accepted("s64") = {"S64"}
  BY DEF Accepted, Signed, Unsigned, SizeOf
<1> QED BY <1>1, <1>2, <1>3, <1>4, <1>5, <1>6, <1>7, <1>8, <1>9

(* An accepted type has the width that is copied, is no Bool or bitmap, and
   every integral type but bool accepts its own and an enum of its size. *)
LEMMA AcceptedFits ==
    \A T \in Integral :
        /\ \A type \in Accepted(T) : /\ type \in DOMAIN Width /\ Width[type] = SizeOf[T]
                                     /\ type \notin {"Bool", "Map8", "Map32"}
        /\ T # "bool" => TypeToTypeId(T) \in Accepted(T)
        /\ TypeToTypeId("bool") = "Bool"
        /\ SizeOf[T] = 1 => "E8" \in Accepted(T)
<1>1. DOMAIN Width = {"U8", "U16", "U32", "U64", "S8", "S16", "S32", "S64", "Bool", "Float",
                      "Double", "E8", "E16", "Map8", "Map32"}
  BY DEF Width
<1>2. \A T \in Integral : \A type \in Accepted(T) :
         /\ type \in DOMAIN Width /\ Width[type] = SizeOf[T]
         /\ type \notin {"Bool", "Map8", "Map32"}
  BY <1>1, AcceptedIs DEF Integral, Signed, Unsigned, Width, SizeOf
<1>3. \A T \in Integral : T # "bool" => TypeToTypeId(T) \in Accepted(T)
  BY AcceptedIs DEF Integral, Signed, Unsigned, TypeToTypeId, TypeIds
<1>4. TypeToTypeId("bool") = "Bool"
  BY DEF TypeToTypeId, TypeIds
<1>5. \A T \in Integral : SizeOf[T] = 1 => "E8" \in Accepted(T)
  BY AcceptedIs DEF Integral, Signed, Unsigned, SizeOf
<1> QED BY <1>2, <1>3, <1>4, <1>5

(* A number fits the union. *)
LEMMA WidthIs == \A type \in DOMAIN Width : Width[type] \in 1 .. 8
  BY DEF Width

(* A member of the union, or the string that is pointed to, is the value. *)
LEMMA WrittenValueArrives ==
    ASSUME NEW a, FitsItsMember(a), a.mem = "str" \/ SizeOf[a.mem] \in {1, 2, 3, 4, 6, 8},
           NEW arg \in HandlerTypes(a.mem)
    PROVE  ReadFor(a.mem, arg, SetAttrValues(a.type)) = Bytes(a.type)
<1> DEFINE passed == SetAttrValues(a.type)
<1>1. ReadFor(a.mem, arg, passed) = TypedSetData(a.mem, passed)
  BY DEF ReadFor
<1>2. SizeOf["str"] = 33 /\ SizeOf["chars"] = 32 /\ SizeOf["struct"] = 12
  BY DEF SizeOf
<1>3. CASE a.mem = "str"
  <2>1. a.type \notin DOMAIN Width
    BY <1>2, <1>3, WidthIs DEF FitsItsMember, Fits, Width
  <2>2. TypedSetData(a.mem, passed) = Bytes(a.type)
    BY <1>3, <2>1 DEF TypedSetData, SetAttrValues
  <2> QED BY <1>1, <2>2
<1>4. CASE a.mem # "str"
  <2>1. a.type \in DOMAIN Width /\ Width[a.type] = SizeOf[a.mem]
    BY <1>2, <1>4 DEF FitsItsMember, Fits
  <2> DEFINE n == Width[a.type]
             inline == [i \in 1 .. 8 |-> IF i <= n THEN <<a.type, i>> ELSE "?"]
             bytes == [i \in 1 .. n |-> <<a.type, i>>]
             T == {inline[i] : i \in 1 .. 8}
  <2>2. n \in 1 .. 8
    BY <2>1, WidthIs
  <2>3. Bytes(a.type) = bytes
    BY <2>1 DEF Bytes
  <2>4. passed.inline = inline
    BY <2>1 DEF SetAttrValues
  <2>5. TypedSetData(a.mem, passed) = SubSeq(inline, 1, n)
    BY <1>4, <2>1, <2>4 DEF TypedSetData
  <2> HIDE DEF n
  <2>6. inline \in Seq(T) /\ Len(inline) = 8
    OBVIOUS
  <2>7. \A i \in 1 .. n : inline[i] = <<a.type, i>>
    BY <2>2
  <2> HIDE DEF inline, T
  <2> DEFINE s == SubSeq(inline, 1, n)
  <2>8. s \in Seq(T) /\ Len(s) = n /\ \A i \in 1 .. n : s[i] = inline[i]
    <3>1. /\ s \in Seq(T)
          /\ Len(s) = IF 1 <= n THEN n - 1 + 1 ELSE 0
      BY <2>2, <2>6, SubSeqProperties
    <3>2. \A i \in 1 .. n : s[i] = inline[1 + i - 1]
      BY <2>2, <2>6, SubSeqProperties
    <3> HIDE DEF s
    <3> QED BY <2>2, <3>1, <3>2
  <2> HIDE DEF s
  <2>9. s = [i \in 1 .. n |-> s[i]]
    BY <2>8
  <2>10. s = bytes
    BY <2>7, <2>8, <2>9
  <2> QED BY <1>1, <2>3, <2>5, <2>10 DEF s
<1> QED BY <1>3, <1>4

(* A reported value is read as it is or not at all. *)
LEMMA ReportedValueArrives ==
    ASSUME NEW T \in Integral, NEW type
    PROVE  /\ type \in Accepted(T) => TypedReportData(T, type) = Bytes(type) /\ Bytes(type) # Abort
           /\ type \notin Accepted(T) => TypedReportData(T, type) = Abort
<1>1. CASE type \notin Accepted(T)
  BY <1>1 DEF TypedReportData
<1>2. CASE type \in Accepted(T)
  <2> DEFINE n == Width[type]
             bytes == [i \in 1 .. n |-> <<type, i>>]
             read == [i \in 1 .. n |-> IF i \in DOMAIN bytes THEN bytes[i] ELSE "?"]
  <2>1. type \in DOMAIN Width /\ n = SizeOf[T] /\ n \in 1 .. 8
    BY <1>2, AcceptedFits, WidthIs
  <2>2. Bytes(type) = bytes
    BY <2>1 DEF Bytes
  <2>3. TypedReportData(T, type) = read
    BY <1>2, <2>1, <2>2 DEF TypedReportData
  <2> HIDE DEF n
  <2>4. read = bytes
    OBVIOUS
  <2>5. bytes # <<>>
    <3>1. 1 \in DOMAIN bytes
      BY <2>1
    <3> HIDE DEF bytes
    <3> QED BY <3>1
  <2> QED BY <1>2, <2>2, <2>3, <2>4, <2>5 DEF Abort
<1> QED BY <1>1, <1>2

(* The parts of TypedValuesArrive, of any attribute of such a device. *)
LEMMA ArrivingValues == KindsFit /\ IInv => TypedValuesArrive
<1> SUFFICES ASSUME KindsFit, IInv, NEW p \in Declared, NEW i \in DOMAIN ClusterAt(p).attrs
             PROVE  LET a == ClusterAt(p).attrs[i]
                    IN  /\ (a.mem = "str" \/ SizeOf[a.mem] \in {1, 2, 3, 4, 6, 8}) =>
                              \A arg \in HandlerTypes(a.mem) :
                                  ReadFor(a.mem, arg, SetAttrValues(a.type)) = Bytes(a.type)
                        /\ \A T \in Integral :
                              LET read == TypedReportData(T, a.type)
                              IN  /\ read \in {Abort, Bytes(a.type)}
                                  /\ a.type \in {"Bool", "Map8", "Map32"} => read = Abort
                                  /\ T = a.mem /\ a.type \in {TypeToTypeId(T), "E8"} \ {"Bool"} =>
                                        read # Abort
  BY DEF TypedValuesArrive
<1> DEFINE a == ClusterAt(p).attrs[i]
<1>1. FitsItsMember(a)
  <2>1. ClusterAt(p) \in ClusterItems
    BY Items DEF Declared, ClusterAt
  <2>2. a \in AttrItems
    BY <2>1, ElementOfSeq DEF ClusterItems
  <2> QED BY <2>2, FittingAttrs
<1> HIDE DEF a
<1>2. ASSUME NEW T \in Integral
      PROVE  LET read == TypedReportData(T, a.type)
             IN  /\ read \in {Abort, Bytes(a.type)}
                 /\ a.type \in {"Bool", "Map8", "Map32"} => read = Abort
                 /\ T = a.mem /\ a.type \in {TypeToTypeId(T), "E8"} \ {"Bool"} => read # Abort
  <2>1. TypedReportData(T, a.type) \in {Abort, Bytes(a.type)}
    BY ReportedValueArrives
  <2>2. a.type \in {"Bool", "Map8", "Map32"} => TypedReportData(T, a.type) = Abort
    BY ReportedValueArrives, AcceptedFits
  <2>3. ASSUME T = a.mem, a.type \in {TypeToTypeId(T), "E8"} \ {"Bool"}
        PROVE  a.type \in Accepted(T)
    <3>1. CASE a.type = TypeToTypeId(T)
      BY <2>3, <3>1, AcceptedFits
    <3>2. CASE a.type = "E8"
      <4>1. SizeOf[T] = 1
        BY <1>1, <2>3, <3>2 DEF FitsItsMember, Fits, Width
      <4> QED BY <3>2, <4>1, AcceptedFits
    <3> QED BY <2>3, <3>1, <3>2
  <2> QED BY <2>1, <2>2, <2>3, ReportedValueArrives
<1> QED BY <1>1, <1>2, WrittenValueArrives DEF a

(* Whatever typed handlers an application registers for the attributes of its
   device (zb_handlers.hpp): one of writes is handed the whole value that was
   written, one of reports the whole value that was reported or it stops the
   device, which it does not for the integral type of a member other than
   bool. *)
THEOREM TypedHandlersGetTheValue ==
    ASSUME KindsFit
    PROVE  DeviceSpec => []TypedValuesArrive
<1>1. IInv => TypedValuesArrive
  BY KindsFit, ArrivingValues
<1> QED BY <1>1, DeviceInvariance, PTL

-----------------------------------------------------------------------------
(* The battery. *)

(* A byte holds 25.5 V. *)
ReadingsFit == \A reading \in AdcReadings : reading < 25600

(* The division of the code, where it is used within the bounds. *)
LEMMA QuotientIs ==
    ASSUME NEW a \in Nat, NEW b \in Nat \ {0}
    PROVE  /\ Quotient(a, b) \in Nat
           /\ Quotient(a, b) * b <= a
           /\ a < (Quotient(a, b) + 1) * b
<1> DEFINE q == a \div b
           r == a % b
<1>1. Quotient(a, b) = q
  BY DEF Quotient
<1>2. q \in Int
  OBVIOUS
<1>3. a = b * q + r /\ r \in 0 .. b - 1
  OBVIOUS
<1> QED BY <1>1, <1>2, <1>3

LEMMA QuotientIsAtMost ==
    ASSUME NEW b \in Nat \ {0}, NEW m \in Nat, NEW a \in 0 .. b * m
    PROVE  Quotient(a, b) <= m
<1> DEFINE q == Quotient(a, b)
<1>1. b * m \in Nat /\ a \in Nat
  OBVIOUS
<1>2. q \in Nat /\ q * b <= a
  BY <1>1, QuotientIs
<1> HIDE DEF q
<1>3. q * b <= b * m
  BY <1>1, <1>2
<1>4. ASSUME q > m PROVE FALSE
  <2>1. PICK k \in Nat : q = m + 1 + k
    <3>1. q - m - 1 \in Nat /\ q = m + 1 + (q - m - 1)
      BY <1>2, <1>4
    <3> QED BY <3>1
  <2>2. q * b = m * b + b + k * b
    BY <2>1
  <2>3. k * b \in Nat /\ b > 0 /\ m * b = b * m /\ b * m \in Nat
    BY <2>1
  <2> QED BY <2>2, <2>3, <1>3
<1> QED BY <1>2, <1>4 DEF q

(* The voltage is cut to a byte only when it does not fit one. *)
LEMMA VoltageTold ==
    ASSUME ReadingsFit, NEW mV \in AdcReadings
    PROVE  LET voltage == AsU8(mV \div 100)
           IN  voltage * 100 <= mV /\ mV < (voltage + 1) * 100
<1>1. mV \in Nat /\ mV < 25600
  <2>1. AdcReadings \subseteq Nat
    BY BatteryAssumption
  <2>2. mV < 25600
    BY DEF ReadingsFit
  <2> QED BY <2>1, <2>2
<1> DEFINE q == mV \div 100
<1>2. q \in 0 .. 255 /\ q * 100 <= mV /\ mV < (q + 1) * 100
  BY <1>1
<1> HIDE DEF q
<1>3. AsU8(q) = q
  BY <1>2 DEF AsU8
<1> QED BY <1>2, <1>3 DEF q

(* The bounds are apart: nothing is divided by 0. *)
LEMMA RangeIs == /\ minBatteryVoltage \in Nat /\ maxBatteryVoltage \in Nat
                 /\ g_BatteryVoltageRange \in Nat \ {0}
<1>1. /\ minBatteryVoltage \in Nat /\ maxBatteryVoltage \in Nat
      /\ minBatteryVoltage < maxBatteryVoltage
  BY BatteryAssumption
<1> QED BY <1>1 DEF g_BatteryVoltageRange

(* Between the bounds no percentage is cut or below 0, whatever the bounds. *)
LEMMA PercentageTold ==
    ASSUME NEW mV \in minBatteryVoltage .. maxBatteryVoltage
    PROVE  /\ Percentage(mV) * g_BatteryVoltageRange <= (mV - minBatteryVoltage) * 200
           /\ (mV - minBatteryVoltage) * 200 < (Percentage(mV) + 1) * g_BatteryVoltageRange
           /\ Percentage(mV) <= 200
<1> DEFINE a == (mV - minBatteryVoltage) * 200
           q == Quotient(a, g_BatteryVoltageRange)
<1>1. mV - minBatteryVoltage \in 0 .. g_BatteryVoltageRange
  BY RangeIs DEF g_BatteryVoltageRange
<1>2. a \in Nat /\ a \in 0 .. g_BatteryVoltageRange * 200
  BY <1>1, RangeIs
<1>3. Percentage(mV) = AsU8(q)
  BY DEF Percentage
<1> HIDE DEF a
<1>4. /\ q \in Nat
      /\ q * g_BatteryVoltageRange <= a /\ a < (q + 1) * g_BatteryVoltageRange
  BY <1>2, RangeIs, QuotientIs
<1>5. q <= 200
  BY <1>2, RangeIs, QuotientIsAtMost
<1> HIDE DEF q
<1>6. AsU8(q) = q
  BY <1>4, <1>5 DEF AsU8
<1> QED BY <1>3, <1>4, <1>5, <1>6 DEF a

(* Both descriptions of a battery begin with the two attributes. *)
LEMMA BatteryCluster ==
    ASSUME NEW c \in BatteryClusters
    PROVE  /\ IdAndRole(c) = <<"0001", "Server">>
           /\ \E S : c.attrs \in Seq(S)
           /\ 1 \in DOMAIN c.attrs /\ c.attrs[1].id = "0020"
           /\ 2 \in DOMAIN c.attrs /\ c.attrs[2].id = "0021"
<1> DEFINE first == battery_info.attrs
           more == battery_settings.attrs
<1>1. /\ first \in Seq({Attr("0020", "u8", RP), Attr("0021", "u8", RP)})
      /\ Len(first) = 2
      /\ first[1] = Attr("0020", "u8", RP) /\ first[2] = Attr("0021", "u8", RP)
  BY DEF battery_info, Server, Attrs
<1>2. Attr("0020", "u8", RP).id = "0020" /\ Attr("0021", "u8", RP).id = "0021"
  BY DEF Attr
<1>3. \E S : more \in Seq(S)
  <2> DEFINE a == <<Attr("0030", "str", RW), Attr("0031", "enum_class", RW),
                    Attr("0032", "u16", RW), Attr("0033", "u8", RW), Attr("0034", "u8", RW),
                    Attr("0035", "map8", RW)>>
             ids == <<"0036", "0037", "0038", "0039", "003a", "003b", "003c", "003d">>
             b == Attrs("u8", RW, ids)
             d == <<Attr("003e", "map32", RW)>>
             S == {a[i] : i \in 1 .. 6} \cup {b[i] : i \in 1 .. 8} \cup {d[1]}
  <2>1. more = a \o b \o d
    BY DEF battery_settings, Server
  <2>2. a \in Seq(S)
    OBVIOUS
  <2>3. b \in Seq(S)
    <3>1. DOMAIN ids = 1 .. 8
      OBVIOUS
    <3>2. b = [i \in 1 .. 8 |-> b[i]]
      BY <3>1 DEF Attrs
    <3> HIDE DEF b, a, d
    <3> QED BY <3>2
  <2>4. d \in Seq(S)
    OBVIOUS
  <2> HIDE DEF a, b, d, S
  <2>5. a \o b \in Seq(S)
    BY <2>2, <2>3
  <2>6. (a \o b) \o d \in Seq(S)
    BY <2>4, <2>5
  <2> QED BY <2>1, <2>6
<1>4. CASE c = battery_info
  <2>1. c.attrs = first
    BY <1>4
  <2>2. IdAndRole(c) = <<"0001", "Server">>
    BY <1>4 DEF IdAndRole, battery_info, Server
  <2> HIDE DEF first
  <2> QED BY <1>1, <1>2, <2>1, <2>2
<1>5. CASE c = Plus(battery_info, battery_settings)
  <2>1. c.attrs = first \o more
    BY <1>5 DEF Plus, battery_info, Server
  <2>2. IdAndRole(c) = <<"0001", "Server">>
    BY <1>5 DEF IdAndRole, Plus, battery_info, Server
  <2>3. PICK S : more \in Seq(S)
    BY <1>3
  <2> DEFINE T == S \cup {Attr("0020", "u8", RP), Attr("0021", "u8", RP)}
  <2>4. more \in Seq(T) /\ first \in Seq(T)
    BY <1>1, <2>3
  <2> HIDE DEF first, more, T
  <2>5. /\ first \o more \in Seq(T)
        /\ Len(first \o more) = Len(first) + Len(more)
        /\ \A i \in 1 .. Len(first) : (first \o more)[i] = first[i]
    BY <2>4, ConcatProperties
  <2>6. Len(first) = 2 /\ Len(more) \in Nat
    BY <1>1, <2>4
  <2>7. 1 \in DOMAIN c.attrs /\ 2 \in DOMAIN c.attrs
    BY <2>1, <2>5, <2>6
  <2>8. c.attrs[1] = first[1] /\ c.attrs[2] = first[2]
    BY <2>1, <2>5, <2>6
  <2> QED BY <1>1, <1>2, <2>1, <2>2, <2>5, <2>7, <2>8
<1> QED BY <1>4, <1>5 DEF BatteryClusters

(* ZBOSS finds the two attributes at their members, past the revision and before
   any attribute that battery_settings adds. *)
LEMMA BatteryPlaces ==
    ASSUME NEW S, device \in Seq(S), device # <<>>,
           device[1].clusters \in {<<c>> : c \in BatteryClusters}
    PROVE  Place(Voltage) = <<1, 1, 1>> /\ Place(PercentageRemaining) = <<1, 1, 2>>
<1> DEFINE clusters == device[1].clusters
           c == clusters[1]
           list == AttributeList(c)
           n == Len(c.attrs)
<1>1. c \in BatteryClusters /\ clusters = <<c>>
  OBVIOUS
<1>2. /\ IdAndRole(c) = <<"0001", "Server">>
      /\ 1 \in DOMAIN c.attrs /\ c.attrs[1].id = "0020"
      /\ 2 \in DOMAIN c.attrs /\ c.attrs[2].id = "0021"
  BY <1>1, BatteryCluster
<1>3. PICK T : c.attrs \in Seq(T)
  BY <1>1, BatteryCluster
<1> HIDE DEF c
<1>4. DOMAIN clusters = {1} /\ clusters[1] = c
  BY <1>1
<1>5. c.id = "0001" /\ c.role = "Server"
  BY <1>2 DEF IdAndRole
<1>6. /\ n \in Nat /\ DOMAIN c.attrs = 1 .. n
      /\ DOMAIN list = 1 .. n + 2
      /\ list[1] = RevisionAttr
      /\ \A a \in 1 .. n : list[a + 1] = [id |-> c.attrs[a].id,
                                          access |-> c.attrs[a].access, data |-> a]
  <2> HIDE DEF n, list
  <2> QED BY <1>3, AttributeListIs DEF n, list
<1> HIDE DEF list, n, clusters
<1>7. n >= 2
  BY <1>2, <1>6
<1>8. /\ list[1].id = RevisionId
      /\ list[2].id = "0020" /\ list[2].data = 1
      /\ list[3].id = "0021" /\ list[3].data = 2
  <2>1. list[1].id = RevisionId
    BY <1>6 DEF RevisionAttr
  <2>2. ASSUME NEW a \in 1 .. n
        PROVE  list[a + 1].id = c.attrs[a].id /\ list[a + 1].data = a
    <3>1. list[a + 1] = [id |-> c.attrs[a].id, access |-> c.attrs[a].access, data |-> a]
      BY <1>6
    <3> QED BY <3>1
  <2>3. list[1 + 1].id = c.attrs[1].id /\ list[1 + 1].data = 1
    BY <1>6, <1>7, <2>2
  <2>4. list[2 + 1].id = c.attrs[2].id /\ list[2 + 1].data = 2
    BY <1>6, <1>7, <2>2
  <2> QED BY <1>2, <2>1, <2>3, <2>4
<1>9. ASSUME NEW a, NEW to, to = AttrRaw(device[1], c, a),
             NEW x \in 2 .. 3, list[x].id = a.id,
             \A y \in 1 .. x - 1 : list[y].id \notin {a.id, NullId}
      PROVE  ZbossFinds(to) = <<1, 1, list[x].data>>
  <2>1. to.ep = device[1].ep /\ to.cluster = "0001" /\ to.role = "Server" /\ to.attr = a.id
    BY <1>5, <1>9 DEF AttrRaw
  <2>2. First({i \in DOMAIN device : device[i].ep = to.ep}) = 1
    <3> DEFINE F == {i \in DOMAIN device : device[i].ep = to.ep}
    <3>1. F \in SUBSET Nat /\ 1 \in F /\ \A i \in F : 1 <= i
      BY <2>1
    <3> HIDE DEF F
    <3>2. First(F) = 1
      BY <3>1, FirstIs
    <3> QED BY <3>2 DEF F
  <2>3. First({i \in DOMAIN clusters : IdAndRole(clusters[i]) = <<to.cluster, to.role>>}) = 1
    <3> DEFINE F == {i \in DOMAIN clusters : IdAndRole(clusters[i]) = <<to.cluster, to.role>>}
    <3>1. F \in SUBSET Nat /\ 1 \in F /\ \A i \in F : 1 <= i
      BY <1>2, <1>4, <2>1
    <3> HIDE DEF F
    <3>2. First(F) = 1
      BY <3>1, FirstIs
    <3> QED BY <3>2 DEF F
  <2>4. First({i \in DOMAIN list : list[i].id \in {to.attr, NullId}}) = x
    <3> DEFINE F == {i \in DOMAIN list : list[i].id \in {to.attr, NullId}}
    <3>1. F \in SUBSET Nat /\ x \in F
      BY <1>6, <1>7, <1>9, <2>1
    <3>2. ASSUME NEW i \in F PROVE x <= i
      <4>1. i \in 1 .. n + 2 /\ list[i].id \in {a.id, NullId}
        BY <1>6, <2>1
      <4>2. i \notin 1 .. x - 1
        BY <4>1, <1>9
      <4> QED BY <4>1, <4>2, <1>6
    <3> HIDE DEF F
    <3>3. First(F) = x
      BY <3>1, <3>2, FirstIs
    <3> QED BY <3>3 DEF F
  <2> DEFINE e == 1
             k == 1
  <2>5. /\ First({i \in DOMAIN device : device[i].ep = to.ep}) = e
        /\ First({i \in DOMAIN device[e].clusters :
                     IdAndRole(device[e].clusters[i]) = <<to.cluster, to.role>>}) = k
        /\ First({i \in DOMAIN AttributeList(device[e].clusters[k]) :
                     AttributeList(device[e].clusters[k])[i].id \in {to.attr, NullId}}) = x
    BY <2>2, <2>3, <2>4 DEF clusters, list, c
  <2>6. AttributeList(device[e].clusters[k])[x].data = list[x].data
    BY DEF clusters, list, c
  <2>7. e # 0 /\ k # 0
    OBVIOUS
  <2>8. ZbossFinds(to) = <<e, k, AttributeList(device[e].clusters[k])[x].data>>
    <3> HIDE DEF e, k
    <3> QED BY <2>5, <2>7 DEF ZbossFinds
  <2> QED BY <2>6, <2>8
<1>10. /\ Voltage.id = "0020" /\ PercentageRemaining.id = "0021"
       /\ RevisionId \notin {"0020", "0021", NullId}
       /\ "0020" \notin {"0021", NullId}
  BY DEF Voltage, PercentageRemaining, battery_info, Server, Attrs, Attr, RevisionId, NullId
<1>11. ZbossFinds(AttrRaw(device[1], c, Voltage)) = <<1, 1, 1>>
  <2>1. \A y \in 1 .. 2 - 1 : list[y].id \notin {Voltage.id, NullId}
    BY <1>8, <1>10
  <2>2. list[2].id = Voltage.id
    BY <1>8, <1>10
  <2> QED BY <1>8, <1>9, <2>1, <2>2
<1>12. ZbossFinds(AttrRaw(device[1], c, PercentageRemaining)) = <<1, 1, 2>>
  <2>1. \A y \in 1 .. 3 - 1 : list[y].id \notin {PercentageRemaining.id, NullId}
    BY <1>8, <1>10
  <2>2. list[3].id = PercentageRemaining.id
    BY <1>8, <1>10
  <2> QED BY <1>8, <1>9, <2>1, <2>2
<1> QED BY <1>11, <1>12 DEF Place, clusters, c

(* What is reached: the device is a sequence, the program measures once a
   description is complete, and what it wrote last tells what it measured. *)
BatteryInv ==
    /\ \E S : device \in Seq(S)
    /\ device # <<>>
    /\ DOMAIN values = {<<1, 1, 1>>, <<1, 1, 2>>}
    /\ g_Battery = <<>> => measured = <<>>
    /\ BatteryTold

(* Whatever was described before, whichever block is set up and in any order of
   readings up to 25.6 V: a battery cluster tells the voltage and the percentage
   of its last measurement, for any bounds of the voltage (update of
   battery_measurements_block_t). *)
THEOREM BatteryIsTold ==
    ASSUME ReadingsFit
    PROVE  DeviceSpec => []BatteryTold
<1>1. DeviceInit => BatteryInv
  <2> SUFFICES ASSUME DeviceInit PROVE BatteryInv
    OBVIOUS
  <2>1. PICK e : device = <<e>>
    BY DEF DeviceInit, Init, LibraryInit
  <2>2. device \in Seq({e}) /\ device # <<>>
    BY <2>1
  <2> QED BY <2>2 DEF DeviceInit, BatteryInit, BatteryInv, BatteryTold
<1>2. BatteryInv /\ [DeviceNext]_<<vars, battery_vars>> => BatteryInv'
  <2> SUFFICES ASSUME BatteryInv, [DeviceNext]_<<vars, battery_vars>> PROVE BatteryInv'
    OBVIOUS
  <2>1. CASE UNCHANGED <<vars, battery_vars>>
    BY <2>1 DEF BatteryInv, BatteryTold, vars, battery_vars
  <2>2. ASSUME NEW x, device' = Append(device, x) \/ device' = InLastEndpoint(x),
               UNCHANGED battery_vars
        PROVE  BatteryInv'
    <3>1. PICK S : device \in Seq(S)
      BY DEF BatteryInv
    <3>2. (\E T : device' \in Seq(T)) /\ device' # <<>>
      <4>1. CASE device' = Append(device, x)
        <5>1. device \in Seq(S \cup {x})
          BY <3>1
        <5>2. device' \in Seq(S \cup {x}) /\ Len(device') = Len(device) + 1
          BY <4>1, <5>1
        <5>3. device' # <<>>
          BY <3>1, <5>2
        <5> QED BY <5>2, <5>3
      <4>2. CASE device' = InLastEndpoint(x)
        <5> DEFINE n == Len(device)
                   e == [device[n] EXCEPT !.clusters = x]
        <5>1. device' = [device EXCEPT ![n] = e]
          BY <4>2 DEF InLastEndpoint
        <5> HIDE DEF e
        <5>2. device' \in Seq(S \cup {e}) /\ Len(device') = Len(device)
          <6>1. device \in Seq(S \cup {e})
            BY <3>1
          <6>2. n \in 1 .. Len(device)
            BY <3>1 DEF BatteryInv
          <6> QED BY <5>1, <6>1, <6>2, ExceptSeq
        <5>3. device' # <<>>
          BY <3>1, <5>2 DEF BatteryInv
        <5> QED BY <5>2, <5>3
      <4> QED BY <2>2, <4>1, <4>2
    <3> QED BY <2>2, <3>2 DEF BatteryInv, BatteryTold, battery_vars
  <2>3. CASE Described /\ Next
    <3>1. UNCHANGED battery_vars
      BY <2>3 DEF Described
    <3>2. \E x : device' = Append(device, x) \/ device' = InLastEndpoint(x)
      <4>1. ASSUME NEW ep, NEW id, NEW role, AddEndpoint(ep, id, role)
            PROVE  \E x : device' = Append(device, x)
        BY <4>1 DEF AddEndpoint
      <4>2. ASSUME NEW id, NEW role, AddCluster(id, role)
            PROVE  \E x : device' = InLastEndpoint(x)
        BY <4>2 DEF AddCluster
      <4>3. ASSUME NEW id, NEW kind, AddAttribute(id, kind) \/ AddCommand(id, kind)
            PROVE  \E x : device' = InLastEndpoint(x)
        BY <4>3 DEF AddAttribute, AddCommand, WithLastCluster
      <4> QED BY <2>3, <4>1, <4>2, <4>3 DEF Next
    <3> QED BY <2>2, <3>1, <3>2
  <2>4. CASE Described /\ \E c \in Library : AddLibraryCluster(c)
    <3>1. UNCHANGED battery_vars
      BY <2>4 DEF Described
    <3>2. \E x : device' = InLastEndpoint(x)
      BY <2>4 DEF AddLibraryCluster
    <3> QED BY <2>2, <3>1, <3>2
  <2>5. CASE Measures
    <3>1. UNCHANGED device /\ device[1].clusters \in {<<c>> : c \in BatteryClusters}
      BY <2>5 DEF Measures, vars
    <3>2. ASSUME NEW b \in Blocks, setup(b) PROVE BatteryInv'
      BY <3>1, <3>2 DEF setup, BatteryInv, BatteryTold
    <3>3. ASSUME NEW r \in AdcReadings, NEW in_mV \in BOOLEAN,
                 update_zb_callback(r, in_mV)
          PROVE  BatteryInv'
      <4>1. Place(Voltage) = <<1, 1, 1>> /\ Place(PercentageRemaining) = <<1, 1, 2>>
        BY <3>1, BatteryPlaces DEF BatteryInv
      <4>2. /\ values' = [values EXCEPT ![<<1, 1, 1>>] = AsU8(r \div 100),
                                        ![<<1, 1, 2>>] = Percentage(r)]
            /\ measured' = IF in_mV THEN <<r>> ELSE <<>>
            /\ g_Battery' = g_Battery /\ g_Battery # <<>>
        BY <3>3, <4>1 DEF update_zb_callback, update
      <4>3. /\ DOMAIN values' = {<<1, 1, 1>>, <<1, 1, 2>>}
            /\ values'[<<1, 1, 1>>] = AsU8(r \div 100)
            /\ values'[<<1, 1, 2>>] = Percentage(r)
        BY <4>2 DEF BatteryInv
      <4>4. LET voltage == AsU8(r \div 100)
            IN  voltage * 100 <= r /\ r < (voltage + 1) * 100
        BY VoltageTold
      <4>5. BatteryTold'
        <5> SUFFICES ASSUME measured' # <<>> PROVE BatteryTold'
          BY DEF BatteryTold
        <5>1. measured'[1] = r
          BY <4>2
        <5>2. g_BatteryVoltageRange' = g_BatteryVoltageRange
          BY DEF g_BatteryVoltageRange
        <5> HIDE DEF g_BatteryVoltageRange, AsU8, Percentage
        <5> QED BY <4>3, <4>4, <5>1, <5>2, PercentageTold DEF BatteryTold
      <4> QED BY <3>1, <4>2, <4>3, <4>5 DEF BatteryInv
    <3> QED BY <2>5, <3>2, <3>3 DEF Measures, BatteryNext
  <2> QED BY <2>1, <2>3, <2>4, <2>5 DEF DeviceNext
<1>3. BatteryInv => BatteryTold
  BY DEF BatteryInv
<1> QED BY <1>1, <1>2, <1>3, PTL DEF DeviceSpec

===============================================================================
