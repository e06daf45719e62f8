---------------------------- MODULE FieldProofs -----------------------------
(***************************************************************************)
(* Proofs about the fields that init writes: each one has exactly the      *)
(* members that the schema admits and the constructor of its generator     *)
(* takes, for every entry of the catalog and every column of a table; and  *)
(* what is inferred from the type of a column alone yields values that the *)
(* column takes.                                                           *)
(*                                                                         *)
(* First come induction over an interval, without a predicate as a         *)
(* parameter, and the trees that documents are made of.                    *)
(***************************************************************************)
EXTENDS Commands, FiniteSetTheorems, SequenceTheorems, TLAPS

(***************************************************************************)
(* Induction.  The library's theorems take the predicate as an operator,   *)
(* which the provers cannot instantiate; here it is the set of the numbers *)
(* that have it, and the step of a recursion is a function.                *)
(***************************************************************************)
LEMMA LeastNumber ==
    ASSUME NEW T, T \subseteq Nat, T # {}
    PROVE  \E x \in T : \A y \in T : x <= y
<1> DEFINE R == OpToRel(<, Nat)
<1>1. IsWellFoundedOn(R, Nat)
  BY NatLessThanWellFounded
<1> HIDE DEF R
<1>2. PICK x \in T : \A y \in T : ~(<<y, x>> \in R)
  BY <1>1, WFMin
<1>3. ASSUME NEW y \in T
      PROVE  ~(y < x)
  BY <1>2, Zenon DEF R, OpToRel
<1> QED BY <1>2, <1>3

LEMMA EveryNumber ==
    ASSUME NEW T, 0 \in T, \A n \in Nat \cap T : n + 1 \in T
    PROVE  Nat \subseteq T
<1> SUFFICES ASSUME Nat \ T # {}
             PROVE  FALSE
  OBVIOUS
<1>1. PICK x \in Nat \ T : \A y \in Nat \ T : x <= y
  BY LeastNumber
<1>2. x # 0 /\ x - 1 \in Nat /\ x - 1 < x
  BY <1>1
<1>3. x - 1 \in T
  BY <1>1, <1>2
<1> QED BY <1>1, <1>2, <1>3

LEMMA UpTo ==
    ASSUME NEW N \in Nat, NEW T, 0 \in T, \A n \in 1 .. N : n - 1 \in T => n \in T
    PROVE  0 .. N \subseteq T
<1> DEFINE U == {n \in Nat : n <= N => n \in T}
<1>1. 0 \in U
  OBVIOUS
<1>2. ASSUME NEW n \in Nat \cap U
      PROVE  n + 1 \in U
  <2> SUFFICES ASSUME n + 1 <= N PROVE n + 1 \in T
    OBVIOUS
  <2>1. n \in T
    OBVIOUS
  <2>2. n + 1 \in 1 .. N /\ (n + 1) - 1 = n
    OBVIOUS
  <2> QED BY <2>1, <2>2
<1>3. Nat \subseteq U
  <2> HIDE DEF U
  <2> QED BY <1>1, <1>2, EveryNumber
<1> QED BY <1>3

Recursive(f, N, start, step) ==
    f = [n \in 0 .. N |-> IF n = 0 THEN start ELSE step[<<n, f[n - 1]>>]]

LEMMA Recursion ==
    ASSUME NEW N \in Nat, NEW S, NEW start \in S, NEW step,
           \A n \in 1 .. N, x \in S : step[<<n, x>>] \in S
    PROVE  \E f \in [0 .. N -> S] : Recursive(f, N, start, step)
<1> DEFINE Solves(m, f) == \A n \in 0 .. m :
                              f[n] = IF n = 0 THEN start ELSE step[<<n, f[n - 1]>>]
           T == {m \in Nat : \E f \in [0 .. m -> S] : Solves(m, f)}
<1>1. 0 \in T
  <2>1. [n \in 0 .. 0 |-> start] \in [0 .. 0 -> S] /\ Solves(0, [n \in 0 .. 0 |-> start])
    OBVIOUS
  <2> QED BY <2>1
<1>2. ASSUME NEW m \in 1 .. N, m - 1 \in T
      PROVE  m \in T
  <2>1. PICK f \in [0 .. m - 1 -> S] : Solves(m - 1, f)
    BY <1>2
  <2> DEFINE g == [n \in 0 .. m |-> IF n = m THEN step[<<m, f[m - 1]>>] ELSE f[n]]
  <2>2. f[m - 1] \in S /\ step[<<m, f[m - 1]>>] \in S
    BY <2>1
  <2>3. g \in [0 .. m -> S]
    BY <2>1, <2>2
  <2>4. ASSUME NEW n \in 0 .. m
        PROVE  g[n] = IF n = 0 THEN start ELSE step[<<n, g[n - 1]>>]
    <3>1. CASE n = m
      <4>1. n # 0 /\ n - 1 \in 0 .. m /\ n - 1 # m
        BY <3>1
      <4> QED BY <3>1, <4>1
    <3>2. CASE n # m
      <4>1. n \in 0 .. m - 1 /\ (n # 0 => n - 1 \in 0 .. m /\ n - 1 # m)
        BY <3>2
      <4>2. g[n] = f[n] /\ (n # 0 => g[n - 1] = f[n - 1])
        BY <3>2, <4>1
      <4> QED BY <2>1, <4>1, <4>2
    <3> QED BY <3>1, <3>2
  <2>5. Solves(m, g)
    BY <2>4
  <2> HIDE DEF g, Solves
  <2> QED BY <2>3, <2>5
<1>3. N \in T
  <2>1. 0 .. N \subseteq T
    <3> HIDE DEF T
    <3> QED BY <1>1, <1>2, UpTo
  <2> QED BY <2>1
<1>4. PICK f \in [0 .. N -> S] : Solves(N, f)
  BY <1>3
<1>5. Recursive(f, N, start, step)
  BY <1>4 DEF Recursive
<1> QED BY <1>4, <1>5

(***************************************************************************)
(* Paths and trees.                                                        *)
(***************************************************************************)
LEMMA PathIn ==
    ASSUME NEW S, NEW p \in Seq(S)
    PROVE  IsPath(p) /\ ToSet(p) \subseteq S
<1>1. Len(p) \in Nat /\ p = [i \in 1 .. Len(p) |-> p[i]] /\ DOMAIN p = 1 .. Len(p)
  OBVIOUS
<1>2. \A i \in 1 .. Len(p) : p[i] \in ToSet(p)
  BY <1>1 DEF ToSet
<1>3. \A i \in 1 .. Len(p) : p[i] \in S
  BY <1>1
<1> HIDE DEF ToSet
<1>4. p \in Seq(ToSet(p))
  BY <1>1, <1>2
<1>5. ToSet(p) \subseteq S
  BY <1>1, <1>3 DEF ToSet
<1> QED BY <1>4, <1>5 DEF IsPath

LEMMA PathAmong ==
    ASSUME NEW p, IsPath(p), NEW S, ToSet(p) \subseteq S
    PROVE  p \in Seq(S)
<1>1. p \in Seq(ToSet(p))
  BY DEF IsPath
<1> HIDE DEF ToSet
<1> QED BY <1>1

LEMMA PathShape ==
    ASSUME NEW p, IsPath(p), p # <<>>
    PROVE  /\ IsPath(Front(p)) /\ ToSet(Front(p)) \subseteq ToSet(p)
           /\ Len(Front(p)) = Len(p) - 1 /\ Len(p) \in Nat \ {0}
           /\ \A i \in 1 .. Len(p) - 1 : Front(p)[i] = p[i]
           /\ p = Append(Front(p), Last(p))
<1> DEFINE S == ToSet(p)
<1>0. p \in Seq(S)
  BY DEF IsPath
<1> HIDE DEF S
<1>1. Len(p) \in Nat \ {0} /\ \A i \in 1 .. Len(p) : p[i] \in S
  BY <1>0, EmptySeq, ElementOfSeq
<1>2. /\ Front(p) \in Seq(S) /\ Len(Front(p)) = Len(p) - 1
      /\ \A i \in 1 .. Len(p) - 1 : Front(p)[i] = p[i]
  <2> DEFINE n == Len(p) - 1
  <2>1. n \in Nat /\ Front(p) = SubSeq(p, 1, n) /\ \A i \in 1 .. n : p[i] \in S
    BY <1>1 DEF Front
  <2> HIDE DEF n
  <2>2. /\ SubSeq(p, 1, n) \in Seq(S) /\ Len(SubSeq(p, 1, n)) = n
        /\ \A i \in 1 .. n : SubSeq(p, 1, n)[i] = p[i]
    BY <2>1
  <2> QED BY <2>1, <2>2 DEF n
<1>3. Last(p) \in S /\ Last(p) = p[Len(p)]
  BY <1>1 DEF Last
<1>4. p = Append(Front(p), Last(p))
  <2> DEFINE q == Append(Front(p), Last(p))
  <2>1. q \in Seq(S) /\ Len(q) = Len(p) /\ \A i \in 1 .. Len(p) : q[i] = p[i]
    BY <1>1, <1>2, <1>3, AppendProperties
  <2> HIDE DEF q
  <2>2. q = p
    BY <1>0, <2>1, SeqEqual
  <2> QED BY <2>2 DEF q
<1>5. IsPath(Front(p)) /\ ToSet(Front(p)) \subseteq S
  BY <1>2, PathIn
<1> QED BY <1>1, <1>2, <1>4, <1>5 DEF S

LEMMA MemberPath ==
    ASSUME NEW path, IsPath(path), NEW k
    PROVE  /\ IsPath(Append(path, k)) /\ Append(path, k) # <<>>
           /\ Len(Append(path, k)) = Len(path) + 1
           /\ Front(Append(path, k)) = path /\ Last(Append(path, k)) = k
           /\ Append(path, k) # path
<1> DEFINE S == ToSet(path) \cup {k}
           p == Append(path, k)
<1>0. path \in Seq(S) /\ k \in S
  BY PathAmong
<1> HIDE DEF S
<1>1. /\ p \in Seq(S) /\ p # <<>> /\ Len(p) = Len(path) + 1 /\ p[Len(path) + 1] = k
      /\ \A i \in 1 .. Len(path) : p[i] = path[i]
  BY <1>0, AppendProperties
<1> HIDE DEF p
<1>2. Last(p) = k
  BY <1>0, <1>1 DEF Last
<1>3. Front(p) = path
  BY <1>0, <1>1 DEF Front
<1>4. IsPath(p)
  BY <1>1, PathIn
<1>5. p # path
  BY <1>0, <1>1
<1> QED BY <1>1, <1>2, <1>3, <1>4, <1>5 DEF p

(* A path lies under another if it begins with it.                         *)
LEMMA Under ==
    ASSUME NEW path, IsPath(path), path # <<>>, NEW q, IsPath(q), ~IsPrefix(path, q)
    PROVE  q # <<>> => ~IsPrefix(path, Front(q)) /\ Front(q) # path
<1> SUFFICES ASSUME q # <<>> PROVE ~IsPrefix(path, Front(q)) /\ Front(q) # path
  OBVIOUS
<1> DEFINE S == ToSet(path) \cup ToSet(q)
<1>0. path \in Seq(S) /\ q \in Seq(S) /\ Front(q) \in Seq(S)
  BY PathAmong, PathShape
<1> HIDE DEF S
<1>1. /\ Front(q) \in Seq(S) /\ Len(Front(q)) = Len(q) - 1 /\ Len(q) \in Nat /\ Len(path) \in Nat
      /\ \A i \in 1 .. Len(q) - 1 : Front(q)[i] = q[i]
  BY <1>0, PathShape
<1>2. ASSUME IsPrefix(path, Front(q))
      PROVE  FALSE
  <2>1. Len(path) <= Len(q) /\ Len(path) <= Len(Front(q))
    BY <1>1, <1>2 DEF IsPrefix
  <2>2. SubSeq(Front(q), 1, Len(path)) = SubSeq(q, 1, Len(path))
    BY <1>0, <1>1, <2>1
  <2> QED BY <1>2, <2>1, <2>2 DEF IsPrefix
<1>3. IsPrefix(path, path)
  BY <1>0 DEF IsPrefix
<1> QED BY <1>2, <1>3

LEMMA NothingUnder ==
    ASSUME NEW path, IsPath(path), path # <<>>
    PROVE  ~IsPrefix(path, <<>>) /\ ~IsPrefix(path, Front(path)) /\ Front(path) # path
<1>1. Len(path) \in Nat \ {0} /\ Len(Front(path)) = Len(path) - 1
  BY PathShape
<1> QED BY <1>1 DEF IsPrefix

LEMMA TreeShape ==
    ASSUME NEW obj, IsTree(obj), NEW p \in DOMAIN obj
    PROVE  /\ IsPath(p) /\ IsValue(obj[p])
           /\ p # <<>> => IsObject(obj, Front(p)) /\ p = Append(Front(p), Last(p))
<1>1. IsPath(p) /\ IsValue(obj[p])
  BY DEF IsTree
<1> QED BY <1>1, PathShape DEF IsTree

(* A change leaves a tree.                                                 *)
LEMMA ChangedIsTree ==
    ASSUME NEW obj, IsTree(obj), NEW path, NEW v, IsChange(path, v)
    PROVE  IsTree(Changed(obj, path, v))
<1> DEFINE kept == [p \in {q \in DOMAIN obj : ~IsPrefix(path, q)} |-> obj[p]]
<1>1. IsPath(path) /\ path # <<>> /\ (v = Removed \/ IsValue(v))
  BY DEF IsChange
<1>2. CASE ~IsObject(obj, Front(path))
  BY <1>2 DEF Changed
<1>3. CASE IsObject(obj, Front(path))
  <2>1. /\ DOMAIN kept \subseteq DOMAIN obj
        /\ \A p \in DOMAIN obj : p \in DOMAIN kept <=> ~IsPrefix(path, p)
        /\ \A p \in DOMAIN kept : kept[p] = obj[p]
    OBVIOUS
  <2>2. <<>> \in DOMAIN kept /\ IsObject(kept, Front(path))
    BY <1>1, <1>3, <2>1, NothingUnder DEF IsTree, IsObject, Has
  <2>3. ASSUME NEW p \in DOMAIN kept
        PROVE  IsPath(p) /\ IsValue(kept[p])
    BY <2>1, <2>3, TreeShape
  <2>4. ASSUME NEW p \in DOMAIN kept, p # <<>>
        PROVE  IsObject(kept, Front(p)) /\ Front(p) # path
    <3>1. p \in DOMAIN obj /\ IsPath(p) /\ ~IsPrefix(path, p) /\ IsObject(obj, Front(p))
      BY <2>1, <2>4, TreeShape
    <3>2. ~IsPrefix(path, Front(p)) /\ Front(p) # path
      BY <1>1, <2>4, <3>1, Under
    <3> QED BY <2>1, <3>1, <3>2 DEF IsObject, Has
  <2>5. kept = [p \in DOMAIN kept |-> kept[p]]
    OBVIOUS
  <2> HIDE DEF kept
  <2>6. CASE v = Removed
    <3>1. Changed(obj, path, v) = kept
      BY <1>3, <2>6 DEF Changed, kept
    <3> QED BY <2>2, <2>3, <2>4, <2>5, <3>1 DEF IsTree
  <2>7. CASE v # Removed
    <3> DEFINE new == At(path, v) ++ kept
    <3>1. Changed(obj, path, v) = new
      BY <1>3, <2>7 DEF Changed, kept
    <3>2. /\ DOMAIN new = DOMAIN kept \cup {path} /\ new[path] = v
          /\ \A p \in DOMAIN kept : p # path => new[p] = kept[p]
          /\ new = [p \in DOMAIN new |-> new[p]]
      BY DEF ++, At
    <3> HIDE DEF new
    <3>3. ASSUME NEW p \in DOMAIN new
          PROVE  /\ IsPath(p) /\ IsValue(new[p])
                 /\ p # <<>> => IsObject(new, Front(p))
      <4>1. CASE p = path
        <5>1. Front(path) # path
          BY <1>1, NothingUnder
        <5> QED BY <1>1, <2>2, <2>7, <3>2, <4>1, <5>1 DEF IsObject, Has
      <4>2. CASE p # path
        BY <2>3, <2>4, <3>2, <4>2 DEF IsObject, Has
      <4> QED BY <4>1, <4>2
    <3>4. <<>> \in DOMAIN new
      BY <2>2, <3>2, <3>3
    <3> QED BY <3>1, <3>2, <3>3, <3>4 DEF IsTree
  <2> QED BY <2>6, <2>7
<1> QED BY <1>2, <1>3

(* The key of a member of an object is the last element of its path.       *)
LEMMA KeysOf ==
    ASSUME NEW obj, IsTree(obj), NEW path, IsPath(path), NEW k
    PROVE  k \in Keys(obj, path) <=> Has(obj, Append(path, k))
<1> DEFINE p == Append(path, k)
<1>1. p # <<>> /\ Front(p) = path /\ Last(p) = k
  BY MemberPath
<1>2. ASSUME p \in DOMAIN obj
      PROVE  k \in Keys(obj, path)
  <2> HIDE DEF p
  <2>1. p \in {q \in DOMAIN obj \ {<<>>} : Front(q) = path}
    BY <1>1, <1>2
  <2> QED BY <1>1, <2>1 DEF Keys
<1>3. ASSUME k \in Keys(obj, path)
      PROVE  p \in DOMAIN obj
  <2>1. PICK q \in DOMAIN obj \ {<<>>} : Front(q) = path /\ Last(q) = k
    BY <1>3 DEF Keys
  <2>2. q = Append(Front(q), Last(q))
    BY <2>1, TreeShape
  <2> QED BY <2>1, <2>2
<1> QED BY <1>2, <1>3 DEF Has

LEMMA TreeKeys ==
    ASSUME NEW obj, IsTree(obj), NEW path, NEW k \in Keys(obj, path)
    PROVE  Has(obj, Append(path, k)) /\ Has(obj, path) /\ IsPath(path) /\ IsObject(obj, path)
<1>1. PICK p \in DOMAIN obj \ {<<>>} : Front(p) = path /\ Last(p) = k
  BY DEF Keys
<1>2. IsPath(p) /\ p = Append(path, k) /\ IsObject(obj, path)
  BY <1>1, TreeShape
<1> QED BY <1>1, <1>2, PathShape DEF Has, IsObject

(* The path of a member of the object itself, and of one of its objects.   *)
LEMMA ShortPaths ==
    ASSUME NEW a, NEW b, NEW c
    PROVE  /\ IsPath(<<>>) /\ IsPath(<<a>>) /\ IsPath(<<a, b>>) /\ IsPath(<<a, b, c>>)
           /\ Append(<<>>, a) = <<a>> /\ Append(<<a>>, b) = <<a, b>>
           /\ Append(<<a, b>>, c) = <<a, b, c>>
<1> DEFINE S == {a, b, c}
<1>1. <<>> \in Seq(S) /\ <<a>> \in Seq(S) /\ <<a, b>> \in Seq(S) /\ <<a, b, c>> \in Seq(S)
  OBVIOUS
<1>2. Append(<<>>, a) = <<a>>
  OBVIOUS
<1>3. Append(<<a>>, b) = <<a, b>>
  <2> DEFINE p == Append(<<a>>, b)
  <2>1. p \in Seq(S) /\ Len(p) = 2 /\ p[1] = a /\ p[2] = b
    BY <1>1, AppendProperties
  <2> HIDE DEF p
  <2>2. p = <<a, b>>
    BY <2>1
  <2> QED BY <2>2 DEF p
<1>4. Append(<<a, b>>, c) = <<a, b, c>>
  <2> DEFINE p == Append(<<a, b>>, c)
  <2>1. p \in Seq(S) /\ Len(p) = 3 /\ p[1] = a /\ p[2] = b /\ p[3] = c
    BY <1>1, AppendProperties
  <2> HIDE DEF p
  <2>2. p = <<a, b, c>>
    BY <2>1
  <2> QED BY <2>2 DEF p
<1>5. IsPath(<<>>) /\ IsPath(<<a>>) /\ IsPath(<<a, b>>) /\ IsPath(<<a, b, c>>)
  <2> HIDE DEF S
  <2> QED BY <1>1, PathIn
<1> QED BY <1>2, <1>3, <1>4, <1>5

(* The members of the object itself.                                       *)
LEMMA TopKeys ==
    ASSUME NEW obj, IsTree(obj), NEW k
    PROVE  k \in Keys(obj, <<>>) <=> Has(obj, <<k>>)
<1>1. IsPath(<<>>) /\ Append(<<>>, k) = <<k>>
  BY ShortPaths
<1> QED BY <1>1, KeysOf

(* Members, and what an object of them adds to a tree.                     *)
AreMembers(f) ==
    /\ f = [k \in DOMAIN f |-> f[k]]
    /\ \A k \in DOMAIN f : IsValue(f[k])

LEMMA ValuesAre ==
    /\ IsValue(Object) /\ IsValue(Null)
    /\ \A s : IsValue(Text(s))
    /\ \A n \in Int : IsValue(Whole(n)) /\ IsValue(Real(n))
    /\ \A b : IsValue(Flag(b))
    /\ \A items : IsValue(Strings(items))
  BY DEF IsValue, Value, Object, Null, Text, Whole, Real, Flag, Strings

LEMMA ObjectType == Object.type = "object"
  BY DEF Object, Value

LEMMA ObjectAtShape ==
    ASSUME NEW path, IsPath(path), NEW members, AreMembers(members),
           NEW o, o = ObjectAt(path, members)
    PROVE  /\ DOMAIN o = {path} \cup {Append(path, k) : k \in DOMAIN members}
           /\ o = [p \in DOMAIN o |-> o[p]]
           /\ o[path] = Object
<1> DEFINE paths == {Append(path, k) : k \in DOMAIN members}
           rest == [p \in paths |-> members[Last(p)]]
<1>1. o = At(path, Object) ++ rest /\ DOMAIN rest = paths
  BY DEF ObjectAt
<1> HIDE DEF rest, paths
<1>2. DOMAIN o = {path} \cup paths /\ o[path] = Object /\ o = [p \in DOMAIN o |-> o[p]]
  BY <1>1 DEF ++, At
<1> QED BY <1>2 DEF paths

LEMMA ObjectAtMember ==
    ASSUME NEW path, IsPath(path), NEW members, AreMembers(members), NEW o,
           o = ObjectAt(path, members), NEW k \in DOMAIN members
    PROVE  o[Append(path, k)] = members[k]
<1> DEFINE p == Append(path, k)
           rest == [q \in {Append(path, j) : j \in DOMAIN members} |-> members[Last(q)]]
<1>2. p # path /\ Last(p) = k
  BY MemberPath
<1>3. p \in DOMAIN rest /\ rest[p] = members[k]
  BY <1>2
<1>4. o = At(path, Object) ++ rest
  BY DEF ObjectAt
<1> HIDE DEF p, rest
<1>5. o[p] = rest[p]
  BY <1>2, <1>3, <1>4 DEF ++, At
<1> QED BY <1>3, <1>5 DEF p

LEMMA MergeShape ==
    ASSUME NEW f, NEW g, NEW h, h = f ++ g
    PROVE  /\ DOMAIN h = DOMAIN f \cup DOMAIN g /\ h = [k \in DOMAIN h |-> h[k]]
           /\ \A k \in DOMAIN f : h[k] = f[k]
           /\ \A k \in DOMAIN g : k \notin DOMAIN f => h[k] = g[k]
  BY DEF ++

LEMMA MergeIsTree ==
    ASSUME NEW t, IsTree(t), NEW u,
           \A p \in DOMAIN u :
               /\ IsPath(p) /\ p # <<>> /\ IsValue(u[p])
               /\ IsObject(t, Front(p)) \/ (Front(p) \notin DOMAIN t /\ IsObject(u, Front(p)))
    PROVE  IsTree(t ++ u)
<1> DEFINE all == t ++ u
<1>1. /\ DOMAIN all = DOMAIN t \cup DOMAIN u /\ all = [p \in DOMAIN all |-> all[p]]
      /\ \A p \in DOMAIN t : all[p] = t[p]
      /\ \A p \in DOMAIN u : p \notin DOMAIN t => all[p] = u[p]
  BY MergeShape DEF ++
<1> HIDE DEF all
<1>2. ASSUME NEW p \in DOMAIN all
      PROVE  IsPath(p) /\ IsValue(all[p]) /\ (p # <<>> => IsObject(all, Front(p)))
  <2>1. CASE p \in DOMAIN t
    BY <1>1, <2>1, TreeShape DEF IsObject, Has
  <2>2. CASE p \notin DOMAIN t
    BY <1>1, <1>2, <2>2 DEF IsObject, Has
  <2> QED BY <2>1, <2>2
<1>3. <<>> \in DOMAIN all
  BY <1>1 DEF IsTree
<1> QED BY <1>1, <1>2, <1>3 DEF IsTree, all

(* An object with its members is a tree, and so is a tree with an object   *)
(* that it did not have.                                                   *)
LEMMA ObjectIsTree ==
    ASSUME NEW members, AreMembers(members)
    PROVE  IsTree(ObjectAt(<<>>, members))
<1> DEFINE o == ObjectAt(<<>>, members)
<1>0. IsPath(<<>>) /\ o = ObjectAt(<<>>, members)
  BY ShortPaths
<1> HIDE DEF o
<1>1. DOMAIN o = {<<>>} \cup {Append(<<>>, k) : k \in DOMAIN members}
  BY <1>0, ObjectAtShape, Zenon
<1>2. o = [p \in DOMAIN o |-> o[p]]
  BY <1>0 DEF ObjectAt, ++
<1>3. o[<<>>] = Object
  BY <1>0, ObjectAtShape, Zenon
<1>4. ASSUME NEW k \in DOMAIN members
      PROVE  o[Append(<<>>, k)] = members[k]
  BY <1>0, ObjectAtMember, ZenonT(30)
<1>5. IsObject(o, <<>>) /\ IsValue(o[<<>>])
  BY <1>1, <1>3, ValuesAre, ObjectType DEF IsObject, Has
<1>6. ASSUME NEW p \in DOMAIN o
      PROVE  /\ IsPath(p) /\ IsValue(o[p])
             /\ p # <<>> => IsObject(o, Front(p))
  <2>1. ASSUME NEW k \in DOMAIN members, p = Append(<<>>, k)
        PROVE  IsPath(p) /\ Front(p) = <<>> /\ IsValue(o[p])
    <3>1. IsValue(members[k])
      BY DEF AreMembers
    <3>2. IsPath(p) /\ Front(p) = <<>>
      BY <1>0, <2>1, <3>1, MemberPath, Zenon
    <3>3. o[p] = members[k]
      BY <1>4, <2>1, Zenon
    <3> QED BY <3>1, <3>2, <3>3
  <2> QED BY <1>0, <1>1, <1>5, <2>1
<1> QED BY <1>1, <1>2, <1>6, Zenon DEF o, IsTree

LEMMA ObjectJoinsTree ==
    ASSUME NEW t, IsTree(t), NEW path, IsPath(path), path # <<>>,
           IsObject(t, Front(path)), path \notin DOMAIN t, NEW members, AreMembers(members)
    PROVE  IsTree(t ++ ObjectAt(path, members))
<1> DEFINE o == ObjectAt(path, members)
<1>0. o = ObjectAt(path, members)
  OBVIOUS
<1> HIDE DEF o
<1>1. /\ DOMAIN o = {path} \cup {Append(path, k) : k \in DOMAIN members}
      /\ o[path] = Object /\ \A k \in DOMAIN members : o[Append(path, k)] = members[k]
  <2>1. DOMAIN o = {path} \cup {Append(path, k) : k \in DOMAIN members}
    BY <1>0, ObjectAtShape, Zenon
  <2>2. o[path] = Object
    BY <1>0, ObjectAtShape, Zenon
  <2>3. ASSUME NEW k \in DOMAIN members
        PROVE  o[Append(path, k)] = members[k]
    BY <1>0, ObjectAtMember
  <2> QED BY <2>1, <2>2, <2>3
<1>2. IsObject(o, path) /\ IsValue(o[path])
  BY <1>1, ValuesAre, ObjectType DEF IsObject, Has
<1>3. ASSUME NEW p \in DOMAIN o
      PROVE  /\ IsPath(p) /\ p # <<>> /\ IsValue(o[p])
             /\ IsObject(t, Front(p)) \/ (Front(p) \notin DOMAIN t /\ IsObject(o, Front(p)))
  <2>1. CASE p = path
    BY <1>2, <2>1
  <2>2. ASSUME NEW k \in DOMAIN members, p = Append(path, k)
        PROVE  /\ IsPath(p) /\ p # <<>> /\ IsValue(o[p])
               /\ Front(p) \notin DOMAIN t /\ IsObject(o, Front(p))
    BY <1>1, <1>2, <2>2, MemberPath DEF AreMembers
  <2> QED BY <1>1, <2>1, <2>2
<1> QED BY <1>3, MergeIsTree DEF o

(***************************************************************************)
(* The fields that init makes: with a name, a generator, the members of a  *)
(* configuration and the attributes of the generator.                      *)
(***************************************************************************)
Basics(name, generator, config) ==
    ObjectAt(<<>>, [name |-> Text(name), generator |-> Text(generator)])
    ++ ObjectAt(ConfigPath, config)
MadeField(name, generator, config, unique, nth) ==
    Basics(name, generator, config) ++ Attributes(generator, unique, nth)

NullRule == [enabled |-> Flag(FALSE), percentage |-> Whole(0)]
DefaultRule == [enabled |-> Flag(FALSE), percentage |-> Whole(0), value |-> Text("")]

LEMMA RuleMembers == AreMembers(NullRule) /\ AreMembers(DefaultRule)
<1>1. 0 \in Int /\ NullRule = [k \in DOMAIN NullRule |-> NullRule[k]]
  BY DEF NullRule
<1>2. DefaultRule = [k \in DOMAIN DefaultRule |-> DefaultRule[k]]
  BY DEF DefaultRule
<1>3. \A k \in DOMAIN NullRule : NullRule[k] \in {Flag(FALSE), Whole(0)}
  <2>1. DOMAIN NullRule = {"enabled", "percentage"}
    BY DEF NullRule
  <2>2. NullRule["enabled"] = Flag(FALSE) /\ NullRule["percentage"] = Whole(0)
    BY DEF NullRule
  <2> QED BY <2>1, <2>2
<1>4. \A k \in DOMAIN DefaultRule : DefaultRule[k] \in {Flag(FALSE), Whole(0), Text("")}
  <2>1. DOMAIN DefaultRule = {"enabled", "percentage", "value"}
    BY DEF DefaultRule
  <2>2. /\ DefaultRule["enabled"] = Flag(FALSE) /\ DefaultRule["percentage"] = Whole(0)
        /\ DefaultRule["value"] = Text("")
    BY DEF DefaultRule
  <2> QED BY <2>1, <2>2
<1>5. \A v \in {Flag(FALSE), Whole(0), Text("")} : IsValue(v)
  BY ValuesAre, <1>1, Zenon
<1> QED BY <1>1, <1>2, <1>3, <1>4, <1>5, Zenon DEF AreMembers

LEMMA NullRulePaths ==
    LET o == ObjectAt(<<"null_value">>, NullRule)
    IN /\ DOMAIN o = {<<"null_value">>, <<"null_value", "enabled">>, <<"null_value", "percentage">>}
       /\ o[<<"null_value">>] = Object /\ o[<<"null_value", "enabled">>] = Flag(FALSE)
       /\ o[<<"null_value", "percentage">>] = Whole(0)
<1> DEFINE o == ObjectAt(<<"null_value">>, NullRule)
<1>0. IsPath(<<"null_value">>) /\ o = ObjectAt(<<"null_value">>, NullRule)
  BY ShortPaths
<1> HIDE DEF o
<1>1. /\ DOMAIN o = {<<"null_value">>} \cup {Append(<<"null_value">>, k) : k \in DOMAIN NullRule}
      /\ o[<<"null_value">>] = Object
  BY <1>0, RuleMembers, ObjectAtShape, Zenon
<1>2. \A k \in DOMAIN NullRule : o[Append(<<"null_value">>, k)] = NullRule[k]
  BY <1>0, RuleMembers, ObjectAtMember, ZenonT(30)
<1>3. /\ Append(<<"null_value">>, "enabled") = <<"null_value", "enabled">>
      /\ Append(<<"null_value">>, "percentage") = <<"null_value", "percentage">>
  BY ShortPaths
<1>4. DOMAIN NullRule = {"enabled", "percentage"}
  BY DEF NullRule
<1>5. NullRule["enabled"] = Flag(FALSE) /\ NullRule["percentage"] = Whole(0)
  BY DEF NullRule
<1>6. DOMAIN o = {<<"null_value">>, <<"null_value", "enabled">>, <<"null_value", "percentage">>}
  BY <1>1, <1>3, <1>4
<1>7. /\ o[<<"null_value", "enabled">>] = Flag(FALSE)
      /\ o[<<"null_value", "percentage">>] = Whole(0)
  BY <1>2, <1>3, <1>4, <1>5
<1> QED BY <1>1, <1>6, <1>7, Zenon DEF o

LEMMA DefaultRulePaths ==
    LET o == ObjectAt(<<"default_value">>, DefaultRule)
    IN /\ DOMAIN o = {<<"default_value">>, <<"default_value", "enabled">>,
                      <<"default_value", "percentage">>, <<"default_value", "value">>}
       /\ o[<<"default_value">>] = Object /\ o[<<"default_value", "enabled">>] = Flag(FALSE)
       /\ o[<<"default_value", "percentage">>] = Whole(0)
       /\ o[<<"default_value", "value">>] = Text("")
<1> DEFINE o == ObjectAt(<<"default_value">>, DefaultRule)
<1>0. IsPath(<<"default_value">>) /\ o = ObjectAt(<<"default_value">>, DefaultRule)
  BY ShortPaths
<1> HIDE DEF o
<1>1. /\ DOMAIN o = {<<"default_value">>} \cup {Append(<<"default_value">>, k) : k \in DOMAIN DefaultRule}
      /\ o[<<"default_value">>] = Object
  BY <1>0, RuleMembers, ObjectAtShape, Zenon
<1>2. \A k \in DOMAIN DefaultRule : o[Append(<<"default_value">>, k)] = DefaultRule[k]
  BY <1>0, RuleMembers, ObjectAtMember, ZenonT(30)
<1>3. /\ Append(<<"default_value">>, "enabled") = <<"default_value", "enabled">>
      /\ Append(<<"default_value">>, "percentage") = <<"default_value", "percentage">>
      /\ Append(<<"default_value">>, "value") = <<"default_value", "value">>
  BY ShortPaths
<1>4. DOMAIN DefaultRule = {"enabled", "percentage", "value"}
  BY DEF DefaultRule
<1>5. /\ DefaultRule["enabled"] = Flag(FALSE) /\ DefaultRule["percentage"] = Whole(0)
      /\ DefaultRule["value"] = Text("")
  BY DEF DefaultRule
<1>6. DOMAIN o = {<<"default_value">>, <<"default_value", "enabled">>,
                  <<"default_value", "percentage">>, <<"default_value", "value">>}
  BY <1>1, <1>3, <1>4
<1>7. /\ o[<<"default_value", "enabled">>] = Flag(FALSE)
      /\ o[<<"default_value", "percentage">>] = Whole(0)
      /\ o[<<"default_value", "value">>] = Text("")
  BY <1>2, <1>3, <1>4, <1>5
<1> QED BY <1>1, <1>6, <1>7, Zenon DEF o

(* The members that every field gets, and their values.                    *)
NullPaths == {<<"null_value">>, <<"null_value", "enabled">>, <<"null_value", "percentage">>}
DefaultPaths ==
    {<<"default_value">>, <<"default_value", "enabled">>, <<"default_value", "percentage">>,
     <<"default_value", "value">>}
RulePaths == NullPaths \cup DefaultPaths

LEMMA RuleDefaultsShape ==
    /\ DOMAIN RuleDefaults = RulePaths
    /\ RuleDefaults[<<"null_value">>] = Object /\ RuleDefaults[<<"default_value">>] = Object
    /\ RuleDefaults[<<"null_value", "enabled">>] = Flag(FALSE)
    /\ RuleDefaults[<<"default_value", "enabled">>] = Flag(FALSE)
    /\ RuleDefaults[<<"null_value", "percentage">>] = Whole(0)
    /\ RuleDefaults[<<"default_value", "percentage">>] = Whole(0)
    /\ RuleDefaults[<<"default_value", "value">>] = Text("")
<1> DEFINE n == ObjectAt(<<"null_value">>, NullRule)
           d == ObjectAt(<<"default_value">>, DefaultRule)
           r == RuleDefaults
<1>1. r = n ++ d
  BY DEF RuleDefaults, NullRule, DefaultRule
<1>2. /\ DOMAIN n = NullPaths
      /\ n[<<"null_value">>] = Object /\ n[<<"null_value", "enabled">>] = Flag(FALSE)
      /\ n[<<"null_value", "percentage">>] = Whole(0)
  BY NullRulePaths, Zenon DEF NullPaths
<1>3. /\ DOMAIN d = DefaultPaths
      /\ d[<<"default_value">>] = Object /\ d[<<"default_value", "enabled">>] = Flag(FALSE)
      /\ d[<<"default_value", "percentage">>] = Whole(0)
      /\ d[<<"default_value", "value">>] = Text("")
  BY DefaultRulePaths, Zenon DEF DefaultPaths
<1> HIDE DEF n, d, r
<1>4. /\ DOMAIN r = DOMAIN n \cup DOMAIN d
      /\ \A k \in DOMAIN n : r[k] = n[k]
      /\ \A k \in DOMAIN d : k \notin DOMAIN n => r[k] = d[k]
  <2>1. DOMAIN r = DOMAIN n \cup DOMAIN d
    BY <1>1, MergeShape, Zenon
  <2>2. \A k \in DOMAIN n : r[k] = n[k]
    BY <1>1, SMT DEF ++
  <2>3. ASSUME NEW k \in DOMAIN d, k \notin DOMAIN n
        PROVE  r[k] = d[k]
    BY <1>1, <2>3, SMT DEF ++
  <2> QED BY <2>1, <2>2, <2>3
<1>5. DefaultPaths \cap NullPaths = {}
  BY DEF DefaultPaths, NullPaths
<1>6. \A k \in DefaultPaths : r[k] = d[k]
  BY <1>3, <1>2, <1>4, <1>5
<1>7. \A k \in NullPaths : r[k] = n[k]
  BY <1>2, <1>4
<1>8. /\ r[<<"null_value">>] = Object /\ r[<<"null_value", "enabled">>] = Flag(FALSE)
      /\ r[<<"null_value", "percentage">>] = Whole(0)
  BY <1>2, <1>7 DEF NullPaths
<1>9. /\ r[<<"default_value">>] = Object /\ r[<<"default_value", "enabled">>] = Flag(FALSE)
      /\ r[<<"default_value", "percentage">>] = Whole(0)
      /\ r[<<"default_value", "value">>] = Text("")
  BY <1>3, <1>6 DEF DefaultPaths
<1>10. DOMAIN r = RulePaths
  BY <1>2, <1>3, <1>4 DEF RulePaths
<1> QED BY <1>8, <1>9, <1>10, Zenon DEF r

AttributePaths(generator) ==
    (IF Catalog[generator].supports_unique THEN {<<"unique">>} ELSE {})
    \cup (IF Catalog[generator].supports_data_linkage THEN {<<"group">>} ELSE {})

(* What a member of the attributes is; o is a field that has them.         *)
HasRules(o) ==
    /\ o[<<"null_value">>] = Object /\ o[<<"default_value">>] = Object
    /\ o[<<"null_value", "enabled">>] = Flag(FALSE)
    /\ o[<<"default_value", "enabled">>] = Flag(FALSE)
    /\ o[<<"null_value", "percentage">>] = Whole(0)
    /\ o[<<"default_value", "percentage">>] = Whole(0)
    /\ o[<<"default_value", "value">>] = Text("")
HasAttributes(o, generator, unique, nth) ==
    /\ Catalog[generator].supports_unique => o[<<"unique">>] = Flag(unique)
    /\ Catalog[generator].supports_data_linkage =>
          o[<<"group">>] = Text("Group" \o ToString(nth))
    /\ HasRules(o)

LEMMA AttributesShape ==
    ASSUME NEW generator, NEW unique, NEW nth,
           NEW o, o = Attributes(generator, unique, nth)
    PROVE  /\ DOMAIN o = AttributePaths(generator) \cup RulePaths
           /\ HasAttributes(o, generator, unique, nth)
<1> DEFINE U == IF Catalog[generator].supports_unique THEN {<<"unique">>} ELSE {}
           G == IF Catalog[generator].supports_data_linkage THEN {<<"group">>} ELSE {}
           flag == Flag(unique)
           text == Text("Group" \o ToString(nth))
           u == [p \in U |-> flag]
           g == [p \in G |-> text]
           r == RuleDefaults
           ug == u ++ g
<1>1. o = ug ++ r
  BY DEF Attributes
<1>2. DOMAIN u = U /\ DOMAIN g = G /\ DOMAIN r = RulePaths
  BY RuleDefaultsShape
<1>3. (\A p \in U : u[p] = flag) /\ (\A p \in G : g[p] = text)
  OBVIOUS
<1>4. /\ Catalog[generator].supports_unique => <<"unique">> \in U
      /\ Catalog[generator].supports_data_linkage => <<"group">> \in G
      /\ U \subseteq {<<"unique">>} /\ G \subseteq {<<"group">>}
      /\ AttributePaths(generator) = U \cup G
  BY DEF AttributePaths
<1>5. HasRules(r)
  BY RuleDefaultsShape, Zenon DEF HasRules
<1> HIDE DEF U, G, u, g, r, ug
<1>6. DOMAIN ug = U \cup G /\ (\A p \in U : ug[p] = flag) /\ (\A p \in G : ug[p] = text)
  <2>1. U \cap G = {}
    <3>1. <<"unique">> # <<"group">>
      OBVIOUS
    <3> QED BY <1>4, <3>1
  <2>2. ug = u ++ g
    BY DEF ug
  <2>3. DOMAIN ug = U \cup G
    BY <1>2, <2>2, MergeShape, Zenon
  <2>4. ASSUME NEW p \in U
        PROVE  ug[p] = flag
    BY <1>2, <1>3, <2>2, SMT DEF ++
  <2>5. ASSUME NEW p \in G
        PROVE  ug[p] = text
    <3>1. p \notin U
      BY <2>1
    <3> QED BY <1>2, <1>3, <2>2, <3>1, SMT DEF ++
  <2> QED BY <2>3, <2>4, <2>5
<1>7. (U \cup G) \cap RulePaths = {}
  <2>1. <<"unique">> \notin RulePaths /\ <<"group">> \notin RulePaths
    BY DEF RulePaths, NullPaths, DefaultPaths
  <2> QED BY <1>4, <2>1
<1>8. DOMAIN o = (U \cup G) \cup RulePaths
  BY <1>1, <1>2, <1>6, SMT DEF ++
<1>9. ASSUME NEW p \in U \cup G
      PROVE  o[p] = ug[p]
  BY <1>1, <1>6, SMT DEF ++
<1>10. ASSUME NEW p \in RulePaths
       PROVE  o[p] = r[p]
  <2>1. p \in DOMAIN r /\ p \notin DOMAIN ug
    BY <1>2, <1>6, <1>7
  <2> QED BY <1>1, <2>1, SMT DEF ++
<1>11. HasRules(o)
  <2>1. /\ <<"null_value">> \in RulePaths /\ <<"default_value">> \in RulePaths
        /\ <<"null_value", "enabled">> \in RulePaths /\ <<"null_value", "percentage">> \in RulePaths
        /\ <<"default_value", "enabled">> \in RulePaths
        /\ <<"default_value", "percentage">> \in RulePaths
        /\ <<"default_value", "value">> \in RulePaths
    BY DEF RulePaths, NullPaths, DefaultPaths
  <2> QED BY <1>5, <1>10, <2>1, Zenon DEF HasRules
<1>12. HasAttributes(o, generator, unique, nth)
  <2>1. Catalog[generator].supports_unique => o[<<"unique">>] = flag
    BY <1>4, <1>6, <1>9
  <2>2. Catalog[generator].supports_data_linkage => o[<<"group">>] = text
    BY <1>4, <1>6, <1>9
  <2> QED BY <1>11, <2>1, <2>2, Zenon DEF HasAttributes
<1> QED BY <1>4, <1>8, <1>12

(* The members of a field.                                                 *)
BasicPaths == {<<>>, <<"name">>, <<"generator">>, ConfigPath}
ConfigPaths(config) == {<<"config", k>> : k \in DOMAIN config}

HasBasics(o, name, generator, config) ==
    /\ o[<<>>] = Object /\ o[<<"name">>] = Text(name)
    /\ o[<<"generator">>] = Text(generator) /\ o[ConfigPath] = Object
    /\ \A k \in DOMAIN config : o[<<"config", k>>] = config[k]

LEMMA BasicsShape ==
    ASSUME NEW name, NEW generator, NEW config, AreMembers(config), NEW t,
           t = Basics(name, generator, config)
    PROVE  /\ IsTree(t) /\ DOMAIN t = BasicPaths \cup ConfigPaths(config)
           /\ HasBasics(t, name, generator, config)
<1> DEFINE m == [name |-> Text(name), generator |-> Text(generator)]
           a == ObjectAt(<<>>, m)
           b == ObjectAt(ConfigPath, config)
<1>1. DOMAIN m = {"name", "generator"} /\ m["name"] = Text(name) /\ m["generator"] = Text(generator)
  OBVIOUS
<1>2. AreMembers(m)
  <2>1. m = [k \in DOMAIN m |-> m[k]]
    OBVIOUS
  <2>2. IsValue(Text(name)) /\ IsValue(Text(generator))
    BY ValuesAre, Zenon
  <2> HIDE DEF m
  <2>3. \A k \in DOMAIN m : IsValue(m[k])
    BY <1>1, <2>2
  <2> QED BY <2>1, <2>3 DEF AreMembers
<1> HIDE DEF m
<1>3. IsPath(<<>>) /\ IsPath(ConfigPath) /\ ConfigPath # <<>>
  BY ShortPaths DEF ConfigPath
<1>4. Append(<<>>, "name") = <<"name">> /\ Append(<<>>, "generator") = <<"generator">>
  BY ShortPaths
<1>5. \A k : Append(ConfigPath, k) = <<"config", k>>
  BY ShortPaths DEF ConfigPath
<1>6. t = a ++ b
  BY DEF m, Basics
<1>7. a = ObjectAt(<<>>, m) /\ b = ObjectAt(ConfigPath, config)
  OBVIOUS
<1> HIDE DEF a, b
<1>8. DOMAIN a = {<<>>, <<"name">>, <<"generator">>}
  <2>1. DOMAIN a = {<<>>} \cup {Append(<<>>, k) : k \in DOMAIN m}
    BY <1>2, <1>3, <1>7, ObjectAtShape, Zenon
  <2> QED BY <1>1, <1>4, <2>1
<1>9. a[<<>>] = Object
  BY <1>2, <1>3, <1>7, ObjectAtShape, Zenon
<1>10. a[<<"name">>] = Text(name) /\ a[<<"generator">>] = Text(generator)
  <2>1. ASSUME NEW k \in DOMAIN m
        PROVE  a[Append(<<>>, k)] = m[k]
    BY <1>2, <1>3, <1>7, ObjectAtMember, ZenonT(30)
  <2>2. "name" \in DOMAIN m /\ "generator" \in DOMAIN m
    BY <1>1
  <2> QED BY <1>1, <1>4, <2>1, <2>2, Zenon
<1>11. DOMAIN b = {ConfigPath} \cup ConfigPaths(config)
  <2>1. DOMAIN b = {ConfigPath} \cup {Append(ConfigPath, k) : k \in DOMAIN config}
    BY <1>3, <1>7, ObjectAtShape, Zenon
  <2> QED BY <1>5, <2>1 DEF ConfigPaths
<1>12. b[ConfigPath] = Object
  BY <1>3, <1>7, ObjectAtShape, Zenon
<1>13. ASSUME NEW k \in DOMAIN config
       PROVE  b[<<"config", k>>] = config[k]
  <2>1. b[Append(ConfigPath, k)] = config[k]
    BY <1>3, <1>7, ObjectAtMember, ZenonT(30)
  <2> QED BY <1>5, <2>1, Zenon
<1>14. /\ ConfigPath \notin DOMAIN a
       /\ \A k : <<"config", k>> \notin DOMAIN a
  BY <1>8 DEF ConfigPath
<1>15. IsTree(t)
  <2>1. IsTree(a)
    BY <1>2, <1>7, ObjectIsTree, Zenon
  <2>2. Front(ConfigPath) = <<>>
    <3>1. ConfigPath = Append(<<>>, "config")
      BY ShortPaths DEF ConfigPath
    <3> QED BY <1>3, <3>1, MemberPath, Zenon
  <2>3. IsObject(a, Front(ConfigPath))
    BY <1>8, <1>9, <2>2, ObjectType DEF IsObject, Has
  <2>4. IsTree(a ++ ObjectAt(ConfigPath, config))
    BY <1>3, <1>14, <2>1, <2>3, ObjectJoinsTree, Zenon
  <2> QED BY <1>6, <1>7, <2>4, Zenon
<1>16. DOMAIN t = BasicPaths \cup ConfigPaths(config)
  <2>1. DOMAIN t = DOMAIN a \cup DOMAIN b
    BY <1>6, MergeShape, Zenon
  <2> QED BY <1>8, <1>11, <2>1 DEF BasicPaths
<1>17. ASSUME NEW p \in DOMAIN a
       PROVE  t[p] = a[p]
  <2>1. t = [q \in DOMAIN a \cup DOMAIN b |-> IF q \in DOMAIN a THEN a[q] ELSE b[q]]
    BY <1>6, Zenon DEF ++
  <2>2. t[p] = IF p \in DOMAIN a THEN a[p] ELSE b[p]
    BY <2>1, Zenon
  <2> QED BY <2>2, Zenon
<1>18. ASSUME NEW p \in DOMAIN b, p \notin DOMAIN a
       PROVE  t[p] = b[p]
  BY <1>6, <1>18, SMT DEF ++
<1>19. /\ t[<<>>] = Object /\ t[<<"name">>] = Text(name)
       /\ t[<<"generator">>] = Text(generator)
  BY <1>8, <1>9, <1>10, <1>17
<1>20. t[ConfigPath] = Object
  BY <1>11, <1>12, <1>14, <1>18
<1>21. ASSUME NEW k \in DOMAIN config
       PROVE  t[<<"config", k>>] = config[k]
  <2>1. <<"config", k>> \in DOMAIN b
    BY <1>11 DEF ConfigPaths
  <2> QED BY <1>13, <1>14, <1>18, <2>1
<1>22. HasBasics(t, name, generator, config)
  BY <1>19, <1>20, <1>21, Zenon DEF HasBasics
<1> QED BY <1>15, <1>16, <1>22, Zenon

LEMMA FrontOfThree ==
    ASSUME NEW a, NEW b, NEW c
    PROVE  Front(<<a, b, c>>) = <<a, b>>
<1>1. IsPath(<<a, b>>) /\ Append(<<a, b>>, c) = <<a, b, c>>
  BY ShortPaths
<1>2. Front(Append(<<a, b>>, c)) = <<a, b>>
  BY <1>1, MemberPath
<1> QED BY <1>1, <1>2, Zenon

LEMMA FrontOfTwo ==
    ASSUME NEW a, NEW b
    PROVE  Front(<<a, b>>) = <<a>>
<1>1. IsPath(<<a>>) /\ Append(<<a>>, b) = <<a, b>>
  BY ShortPaths
<1>2. Front(Append(<<a>>, b)) = <<a>>
  BY <1>1, MemberPath
<1> QED BY <1>1, <1>2, Zenon

LEMMA ShortFronts ==
    ASSUME NEW a, NEW b, NEW c
    PROVE  /\ Front(<<a>>) = <<>> /\ Front(<<a, b>>) = <<a>> /\ Front(<<a, b, c>>) = <<a, b>>
           /\ Last(<<a>>) = a /\ Last(<<a, b>>) = b /\ Last(<<a, b, c>>) = c
<1>1. IsPath(<<>>) /\ IsPath(<<a>>) /\ IsPath(<<a, b>>)
  BY ShortPaths
<1>2. /\ Append(<<>>, a) = <<a>> /\ Append(<<a>>, b) = <<a, b>>
      /\ Append(<<a, b>>, c) = <<a, b, c>>
  BY ShortPaths
<1>3. Front(<<a>>) = <<>> /\ Last(<<a>>) = a
  <2>1. Front(Append(<<>>, a)) = <<>> /\ Last(Append(<<>>, a)) = a
    BY <1>1, MemberPath
  <2> QED BY <1>2, <2>1, Zenon
<1>4. Front(<<a, b>>) = <<a>> /\ Last(<<a, b>>) = b
  <2>1. Front(Append(<<a>>, b)) = <<a>> /\ Last(Append(<<a>>, b)) = b
    BY <1>1, MemberPath
  <2> QED BY <1>2, <2>1, Zenon
<1>5. Front(<<a, b, c>>) = <<a, b>> /\ Last(<<a, b, c>>) = c
  <2>1. Front(Append(<<a, b>>, c)) = <<a, b>> /\ Last(Append(<<a, b>>, c)) = c
    BY <1>1, MemberPath
  <2> QED BY <1>2, <2>1, Zenon
<1> QED BY <1>3, <1>4, <1>5

FieldPaths(generator, config) ==
    BasicPaths \cup ConfigPaths(config) \cup AttributePaths(generator) \cup RulePaths

HasPaths(field, generator, config) == DOMAIN field = FieldPaths(generator, config)

LEMMA MadeFieldShape ==
    ASSUME NEW name, NEW generator, NEW config, AreMembers(config), NEW unique, NEW nth,
           NEW field, field = MadeField(name, generator, config, unique, nth)
    PROVE  /\ IsTree(field)
           /\ HasPaths(field, generator, config)
           /\ HasBasics(field, name, generator, config)
           /\ HasAttributes(field, generator, unique, nth)
<1> DEFINE t == Basics(name, generator, config)
           o == Attributes(generator, unique, nth)
<1>1. field = t ++ o
  BY DEF MadeField
<1>0. /\ t = Basics(name, generator, config)
      /\ o = Attributes(generator, unique, nth)
  OBVIOUS
<1> HIDE DEF t, o
<1>21. HasBasics(t, name, generator, config)
  BY <1>0, BasicsShape, Zenon
<1>2. /\ IsTree(t) /\ DOMAIN t = BasicPaths \cup ConfigPaths(config)
      /\ t[<<>>] = Object /\ t[<<"name">>] = Text(name)
      /\ t[<<"generator">>] = Text(generator) /\ t[ConfigPath] = Object
  <2>1. IsTree(t) /\ DOMAIN t = BasicPaths \cup ConfigPaths(config)
    BY <1>0, BasicsShape, Zenon
  <2> QED BY <1>21, <2>1, Zenon DEF HasBasics
<1>3. ASSUME NEW k \in DOMAIN config PROVE t[<<"config", k>>] = config[k]
  BY <1>21, Zenon DEF HasBasics
<1>4. DOMAIN o = AttributePaths(generator) \cup RulePaths
  BY <1>0, AttributesShape, Zenon
<1>5. HasAttributes(o, generator, unique, nth)
  BY <1>0, AttributesShape, Zenon
<1> DEFINE A == AttributePaths(generator)
<1>6. /\ A \subseteq {<<"unique">>, <<"group">>}
      /\ <<"unique">> \in A => Catalog[generator].supports_unique
      /\ <<"group">> \in A => Catalog[generator].supports_data_linkage
      /\ Catalog[generator].supports_unique => <<"unique">> \in A
      /\ Catalog[generator].supports_data_linkage => <<"group">> \in A
  BY DEF AttributePaths
<1> HIDE DEF A
<1>7. DOMAIN o = A \cup RulePaths
  BY <1>4 DEF A
<1>8. ASSUME NEW p \in DOMAIN o
      PROVE  p \notin DOMAIN t
  BY <1>2, <1>6, <1>7
     DEF RulePaths, NullPaths, DefaultPaths, BasicPaths, ConfigPaths, ConfigPath
<1>9. DOMAIN field = DOMAIN t \cup DOMAIN o
  BY <1>1, MergeShape, Zenon
<1>10. ASSUME NEW p \in DOMAIN t PROVE field[p] = t[p]
  <2>1. field = [q \in DOMAIN t \cup DOMAIN o |-> IF q \in DOMAIN t THEN t[q] ELSE o[q]]
    BY <1>1, Zenon DEF ++
  <2> QED BY <2>1, Zenon
<1>11. ASSUME NEW p \in DOMAIN o PROVE field[p] = o[p]
  <2>1. field = [q \in DOMAIN t \cup DOMAIN o |-> IF q \in DOMAIN t THEN t[q] ELSE o[q]]
    BY <1>1, Zenon DEF ++
  <2> QED BY <1>8, <2>1, Zenon
<1>12. /\ field[<<>>] = Object /\ field[<<"name">>] = Text(name)
       /\ field[<<"generator">>] = Text(generator) /\ field[ConfigPath] = Object
  BY <1>2, <1>10 DEF BasicPaths
<1>13. ASSUME NEW k \in DOMAIN config PROVE field[<<"config", k>>] = config[k]
  BY <1>2, <1>3, <1>10 DEF ConfigPaths
<1>14. HasAttributes(field, generator, unique, nth)
  <2>1. /\ <<"null_value">> \in RulePaths /\ <<"default_value">> \in RulePaths
        /\ <<"null_value", "enabled">> \in RulePaths /\ <<"null_value", "percentage">> \in RulePaths
        /\ <<"default_value", "enabled">> \in RulePaths
        /\ <<"default_value", "percentage">> \in RulePaths
        /\ <<"default_value", "value">> \in RulePaths
    BY DEF RulePaths, NullPaths, DefaultPaths
  <2>2. ASSUME NEW p \in RulePaths PROVE field[p] = o[p]
    BY <1>7, <1>11
  <2>3. HasRules(field)
    BY <1>5, <2>1, <2>2, Zenon DEF HasRules, HasAttributes
  <2>4. /\ <<"unique">> \in A => field[<<"unique">>] = o[<<"unique">>]
        /\ <<"group">> \in A => field[<<"group">>] = o[<<"group">>]
    BY <1>7, <1>11
  <2> QED BY <1>5, <1>6, <2>3, <2>4, Zenon DEF HasAttributes
<1>15. IsTree(field)
  <2>1. ASSUME NEW p \in A
        PROVE  IsPath(p) /\ p # <<>> /\ IsValue(o[p]) /\ IsObject(t, Front(p))
    <3>1. p \in {<<"unique">>, <<"group">>} /\ IsPath(p) /\ p # <<>>
      <4>1. p \in {<<"unique">>, <<"group">>}
        BY <1>6
      <4>2. IsPath(<<"unique">>) /\ IsPath(<<"group">>)
        BY ShortPaths
      <4>3. p # <<>>
        BY <4>1
      <4> QED BY <4>1, <4>2, <4>3
    <3>2. Front(p) = <<>>
      BY <3>1, ShortFronts
    <3>3. IsObject(t, <<>>)
      BY <1>2, ObjectType DEF IsObject, Has, BasicPaths
    <3>4. /\ p = <<"unique">> => o[p] = Flag(unique)
          /\ p = <<"group">> => o[p] = Text("Group" \o ToString(nth))
      BY <1>5, <1>6, Zenon DEF HasAttributes
    <3>5. IsValue(o[p])
      BY <3>1, <3>4, ValuesAre, Zenon
    <3> QED BY <3>1, <3>2, <3>3, <3>5, Zenon
  <2>2. HasRules(o)
    BY <1>5, Zenon DEF HasAttributes
  <2>3. ASSUME NEW p \in {<<"null_value">>, <<"default_value">>}
        PROVE  /\ IsPath(p) /\ p # <<>> /\ IsValue(o[p]) /\ IsObject(t, Front(p))
               /\ IsObject(o, p) /\ p \notin DOMAIN t
    <3>1. IsPath(p) /\ p # <<>>
      <4>1. IsPath(<<"null_value">>) /\ IsPath(<<"default_value">>)
        BY ShortPaths
      <4>2. p # <<>>
        OBVIOUS
      <4> QED BY <4>1, <4>2
    <3>2. Front(p) = <<>>
      BY ShortFronts
    <3>3. IsObject(t, <<>>)
      BY <1>2, ObjectType DEF IsObject, Has, BasicPaths
    <3>4. o[p] = Object
      BY <2>2, Zenon DEF HasRules
    <3>5. p \in RulePaths
      BY DEF RulePaths, NullPaths, DefaultPaths
    <3>6. IsValue(o[p]) /\ IsObject(o, p)
      BY <1>7, <3>4, <3>5, ObjectType, ValuesAre DEF IsObject, Has
    <3>7. p \notin DOMAIN t
      BY <1>7, <1>8, <3>5
    <3> QED BY <3>1, <3>2, <3>3, <3>6, <3>7, Zenon
  <2>4. ASSUME NEW p \in RulePaths, p \notin {<<"null_value">>, <<"default_value">>}
        PROVE  /\ IsPath(p) /\ p # <<>> /\ IsValue(o[p])
               /\ Front(p) \in {<<"null_value">>, <<"default_value">>}
    <3>1. p \in {<<"null_value", "enabled">>, <<"null_value", "percentage">>,
                 <<"default_value", "enabled">>, <<"default_value", "percentage">>,
                 <<"default_value", "value">>}
      BY <2>4 DEF RulePaths, NullPaths, DefaultPaths
    <3>2. IsPath(p) /\ p # <<>>
      <4>1. \A a, b : IsPath(<<a, b>>)
        BY ShortPaths
      <4>2. p # <<>>
        BY <3>1
      <4> QED BY <3>1, <4>1, <4>2, Zenon
    <3>3. Front(p) \in {<<"null_value">>, <<"default_value">>}
      BY <3>1, FrontOfTwo, Zenon
    <3>4. o[p] \in {Flag(FALSE), Whole(0), Text("")}
      BY <2>2, <3>1, Zenon DEF HasRules
    <3>5. 0 \in Int
      OBVIOUS
    <3>6. IsValue(o[p])
      BY <3>4, <3>5, ValuesAre, Zenon
    <3> QED BY <3>2, <3>3, <3>6
  <2>5. ASSUME NEW p \in DOMAIN o
        PROVE  /\ IsPath(p) /\ p # <<>> /\ IsValue(o[p])
               /\ IsObject(t, Front(p)) \/ (Front(p) \notin DOMAIN t /\ IsObject(o, Front(p)))
    <3>1. CASE p \in A
      BY <2>1, <3>1
    <3>2. CASE p \in {<<"null_value">>, <<"default_value">>}
      BY <2>3, <3>2
    <3>3. CASE p \in RulePaths /\ p \notin {<<"null_value">>, <<"default_value">>}
      BY <2>3, <2>4, <3>3
    <3> QED BY <1>7, <3>1, <3>2, <3>3
  <2> QED BY <1>1, <1>2, <2>5, MergeIsTree, Zenon
<1>16. DOMAIN field = FieldPaths(generator, config)
  BY <1>2, <1>4, <1>9 DEF FieldPaths
<1>17. HasBasics(field, name, generator, config)
  BY <1>12, <1>13, Zenon DEF HasBasics
<1> QED BY <1>14, <1>15, <1>16, <1>17 DEF HasPaths

(***************************************************************************)
(* The catalog: every value of a template is one that the schema admits    *)
(* and the parser of its parameter takes, and those of the options that    *)
(* contexts merge are the same wherever they occur.                        *)
(***************************************************************************)
StandardOptions ==
    [regions |-> UnitedStates, languages |-> English, operating_systems |-> Strings(<<"Windows">>),
     extensions |-> Extensions, card_types |-> EveryCard, start_month |-> Text("01/00"),
     end_month |-> Text("12/50"), genders |-> Strings(<<"M", "F">>),
     domains |-> Strings(<<"gmail.com", "outlook.com">>)]

ParamFits(g, p, v) == IsValue(v) /\ Matches(ParamKind(p), v) /\ Parses(g, p, v)
Standard(p, v) == p \in OptionNames => v = StandardOptions[p]

LEMMA ParamNames ==
    /\ DOMAIN NameSets = {"days_of_week", "languages", "regions", "genders", "card_types",
                          "barcode_types", "operating_systems"}
    /\ DOMAIN SupportedValues = DOMAIN NameSets \cup {"ip_address_type", "country_codes_standard"}
  BY DEF NameSets, SupportedValues

(* No parameter is of two sorts.                                           *)
LEMMA OneSort ==
    ASSUME NEW g, NEW p
    PROVE  /\ p \in DOMAIN NameSets =>
                 /\ p \notin StringLists /\ p \notin Flags /\ p # "country_codes_standard"
                 /\ <<g, p>> \notin IntParams /\ <<g, p>> \notin WideParams
           /\ p \in StringLists =>
                 /\ p \notin Flags /\ p # "country_codes_standard"
                 /\ <<g, p>> \notin IntParams /\ <<g, p>> \notin WideParams
           /\ p \in Flags =>
                 /\ p # "country_codes_standard"
                 /\ <<g, p>> \notin IntParams /\ <<g, p>> \notin WideParams
           /\ <<g, p>> \in IntParams =>
                 p # "country_codes_standard" /\ <<g, p>> \notin WideParams
           /\ <<g, p>> \in WideParams => p # "country_codes_standard"
<1>1. p \in DOMAIN NameSets =>
         /\ p \notin StringLists /\ p \notin Flags /\ p # "country_codes_standard"
         /\ <<g, p>> \notin IntParams /\ <<g, p>> \notin WideParams
  BY ParamNames DEF StringLists, Flags, IntParams, WideParams
<1>2. p \in StringLists =>
         /\ p \notin Flags /\ p # "country_codes_standard"
         /\ <<g, p>> \notin IntParams /\ <<g, p>> \notin WideParams
  BY DEF StringLists, Flags, IntParams, WideParams
<1>3. p \in Flags =>
         /\ p # "country_codes_standard"
         /\ <<g, p>> \notin IntParams /\ <<g, p>> \notin WideParams
  BY DEF Flags, IntParams, WideParams
<1>4. <<g, p>> \in IntParams =>
         p # "country_codes_standard" /\ <<g, p>> \notin WideParams
  BY DEF IntParams, WideParams
<1>5. <<g, p>> \in WideParams => p # "country_codes_standard"
  BY DEF WideParams
<1> QED BY <1>1, <1>2, <1>3, <1>4, <1>5

LEMMA TypeOfLists ==
    ASSUME NEW p \in DOMAIN NameSets \cup StringLists
    PROVE  ParamType(p) = "array<string>"
  BY ParamNames DEF ParamType, StringLists

LEMMA NamesFit ==
    ASSUME NEW g, NEW p \in DOMAIN NameSets, NEW items, items # <<>>,
           DOMAIN items = 1 .. Len(items), ToSet(items) \subseteq SupportedValues[p],
           SupportedValues[p] \subseteq DOMAIN NameSets[p]
    PROVE  ParamFits(g, p, Strings(items))
<1> DEFINE v == Strings(items)
<1>1. v.type = "array" /\ v.items = items /\ IsValue(v)
  BY ValuesAre DEF Strings, Value
<1>2. ParamKind(p) = ListOf(SupportedValues[p])
  BY TypeOfLists, ParamNames DEF ParamKind
<1> HIDE DEF v
<1>3. \A i \in DOMAIN items : items[i] \in SupportedValues[p]
  BY DEF ToSet
<1>4. Matches(ListOf(SupportedValues[p]), v)
  BY <1>1, <1>3 DEF Matches, ListOf, Kind
<1>5. IsList(v) /\ Items(v) = items
  BY <1>1 DEF IsList, Items
<1>6. Parses(g, p, v)
  <2>1. ToSet(Items(v)) \subseteq DOMAIN NameSets[p]
    BY <1>5
  <2> QED BY <1>5, <2>1, OneSort, Zenon DEF Parses
<1>7. ParamFits(g, p, v)
  BY <1>1, <1>2, <1>4, <1>6, Zenon DEF ParamFits
<1> QED BY <1>7 DEF v

LEMMA StringsFit ==
    ASSUME NEW g, NEW p \in StringLists, NEW items, items # <<>>,
           DOMAIN items = 1 .. Len(items), "" \notin ToSet(items)
    PROVE  ParamFits(g, p, Strings(items))
<1> DEFINE v == Strings(items)
<1>1. v.type = "array" /\ v.items = items /\ IsValue(v)
  BY ValuesAre DEF Strings, Value
<1>0. p \notin DOMAIN NameSets /\ p \notin DOMAIN SupportedValues
  BY ParamNames DEF StringLists
<1>2. ParamKind(p) = ListOf({})
  BY <1>0, TypeOfLists DEF ParamKind
<1> HIDE DEF v
<1>4. Matches(ListOf({}), v)
  BY <1>1 DEF Matches, ListOf, Kind
<1>5. IsList(v) /\ Items(v) = items
  BY <1>1 DEF IsList, Items
<1>6. Parses(g, p, v)
  BY <1>0, <1>5, OneSort, Zenon DEF Parses
<1>7. ParamFits(g, p, v)
  BY <1>1, <1>2, <1>4, <1>6, Zenon DEF ParamFits
<1> QED BY <1>7 DEF v

LEMMA FlagsFit ==
    ASSUME NEW g, NEW p \in Flags, NEW b
    PROVE  ParamFits(g, p, Flag(b))
<1>1. Flag(b).type = "boolean" /\ IsValue(Flag(b))
  BY ValuesAre DEF Flag, Value
<1>0. p \notin DOMAIN NameSets /\ p \notin StringLists
  BY ParamNames DEF StringLists, Flags
<1>2. ParamKind(p) = Boolean
  <2>1. ParamType(p) = "boolean"
    BY DEF ParamType, Flags
  <2> QED BY <2>1 DEF ParamKind
<1>4. Matches(Boolean, Flag(b))
  BY <1>1 DEF Matches, Boolean, Kind
<1>6. Parses(g, p, Flag(b))
  BY <1>0, <1>1, OneSort, Zenon DEF Parses
<1> QED BY <1>1, <1>2, <1>4, <1>6, Zenon DEF ParamFits

NumberParams ==
    {"start", "end", "step", "decimal_places", "true_percentage", "number_of_chars_start",
     "number_of_chars_end"}

LEMMA NumbersFit ==
    ASSUME NEW g, NEW p \in NumberParams, <<g, p>> \in IntParams \cup WideParams,
           NEW v, IsNumber(v), IsValue(v)
    PROVE  ParamFits(g, p, v)
<1>0. p \notin DOMAIN NameSets /\ p \notin StringLists /\ p \notin Flags
  BY ParamNames DEF StringLists, Flags, NumberParams
<1>2. ParamKind(p) = Kind("number", {}, 0)
  <2>1. ParamType(p) = "number"
    BY DEF ParamType, NumberParams
  <2> QED BY <2>1 DEF ParamKind
<1>4. Matches(Kind("number", {}, 0), v)
  BY DEF Matches, Kind
<1>5. <<g, p>> \in IntParams \/ <<g, p>> \in WideParams
  OBVIOUS
<1>6. Parses(g, p, v)
  <2>1. CASE <<g, p>> \in IntParams
    BY <1>0, <2>1, OneSort, Zenon DEF Parses, ReadsAsInt
  <2>2. CASE <<g, p>> \in WideParams /\ <<g, p>> \notin IntParams
    BY <1>0, <2>2, OneSort, Zenon DEF Parses
  <2> QED BY <1>5, <2>1, <2>2
<1> QED BY <1>2, <1>4, <1>6, Zenon DEF ParamFits

TextParams == {"pattern", "start_date", "end_date", "start_time", "end_time", "start_month", "end_month"}

LEMMA TextsFit ==
    ASSUME NEW g, NEW p \in TextParams, NEW s
    PROVE  ParamFits(g, p, Text(s))
<1>0. /\ p \notin DOMAIN NameSets /\ p \notin StringLists /\ p \notin Flags
      /\ p \notin DOMAIN SupportedValues /\ p # "country_codes_standard"
  BY ParamNames DEF StringLists, Flags, TextParams
<1>1. Text(s).type = "string" /\ IsValue(Text(s))
  BY ValuesAre DEF Text, Value
<1>2. ParamKind(p) = OneOf({})
  <2>1. ParamType(p) = "string"
    BY DEF ParamType, TextParams
  <2> QED BY <1>0, <2>1 DEF ParamKind
<1>4. Matches(OneOf({}), Text(s))
  BY <1>1 DEF Matches, OneOf, Kind
<1>5. <<g, p>> \notin IntParams /\ <<g, p>> \notin WideParams
  BY DEF IntParams, WideParams, TextParams
<1>6. Parses(g, p, Text(s))
  BY <1>0, <1>1, <1>5, Zenon DEF Parses
<1> QED BY <1>1, <1>2, <1>4, <1>6, Zenon DEF ParamFits

(* The two parameters that are one of a few names.                         *)
LEMMA ChoicesFit ==
    ASSUME NEW g
    PROVE  /\ ParamFits(g, "ip_address_type", Text("IPv4"))
           /\ ParamFits(g, "country_codes_standard", Text("None"))
<1>1. \A s : Text(s).type = "string" /\ Text(s).text = s /\ IsValue(Text(s))
  BY ValuesAre DEF Text, Value
<1>2. ASSUME NEW p \in {"ip_address_type", "country_codes_standard"}, NEW s \in SupportedValues[p]
      PROVE  Matches(ParamKind(p), Text(s))
  <2>1. ParamType(p) = "string"
    BY DEF ParamType
  <2>2. ParamKind(p) = OneOf(SupportedValues[p])
    BY <2>1, ParamNames DEF ParamKind
  <2>3. Matches(OneOf(SupportedValues[p]), Text(s))
    BY <1>1, <1>2 DEF Matches, OneOf, Kind
  <2> QED BY <2>2, <2>3
<1>3. "IPv4" \in SupportedValues["ip_address_type"] /\ "None" \in SupportedValues["country_codes_standard"]
  BY DEF SupportedValues
<1>4. ASSUME NEW p \in {"ip_address_type", "country_codes_standard"}
      PROVE  /\ p \notin DOMAIN NameSets /\ p \notin StringLists /\ p \notin Flags
             /\ <<g, p>> \notin IntParams /\ <<g, p>> \notin WideParams
  BY ParamNames DEF StringLists, Flags, IntParams, WideParams
<1>5. Parses(g, "ip_address_type", Text("IPv4"))
  <2>1. "ip_address_type" # "country_codes_standard"
    OBVIOUS
  <2> QED BY <1>1, <1>4, <2>1, Zenon DEF Parses
<1>6. Parses(g, "country_codes_standard", Text("None"))
  <2>1. "None" \in CountryCodesStandards
    BY DEF CountryCodesStandards
  <2> QED BY <1>1, <1>4, <2>1, Zenon DEF Parses
<1> QED BY <1>1, <1>2, <1>3, <1>5, <1>6, Zenon DEF ParamFits

(* A list written out.                                                     *)
IsListOf(items, set) ==
    /\ items # <<>> /\ DOMAIN items = 1 .. Len(items) /\ ToSet(items) = set

LEMMA ListsOf ==
    ASSUME NEW a, NEW b, NEW c, NEW d, NEW e, NEW f, NEW g, NEW h
    PROVE  /\ IsListOf(<<a>>, {a}) /\ IsListOf(<<a, b>>, {a, b})
           /\ IsListOf(<<a, b, c>>, {a, b, c})
           /\ IsListOf(<<a, b, c, d, e>>, {a, b, c, d, e})
           /\ IsListOf(<<a, b, c, d, e, f, g>>, {a, b, c, d, e, f, g})
           /\ IsListOf(<<a, b, c, d, e, f, g, h>>, {a, b, c, d, e, f, g, h})
<1>1. IsListOf(<<a>>, {a})
  BY DEF IsListOf, ToSet
<1>2. IsListOf(<<a, b>>, {a, b})
  BY DEF IsListOf, ToSet
<1>3. IsListOf(<<a, b, c>>, {a, b, c})
  BY DEF IsListOf, ToSet
<1>5. IsListOf(<<a, b, c, d, e>>, {a, b, c, d, e})
  BY DEF IsListOf, ToSet
<1>7. IsListOf(<<a, b, c, d, e, f, g>>, {a, b, c, d, e, f, g})
  BY DEF IsListOf, ToSet
<1>8. IsListOf(<<a, b, c, d, e, f, g, h>>, {a, b, c, d, e, f, g, h})
  BY DEF IsListOf, ToSet
<1> QED BY <1>1, <1>2, <1>3, <1>5, <1>7, <1>8

LEMMA NameLists ==
    ASSUME NEW g, NEW p \in DOMAIN NameSets, NEW items, NEW set, IsListOf(items, set),
           set \subseteq SupportedValues[p]
    PROVE  ParamFits(g, p, Strings(items))
<1>1. SupportedValues[p] \subseteq DOMAIN NameSets[p]
  <2>1. SupportedValues["days_of_week"] \subseteq DOMAIN NameSets["days_of_week"]
    BY DEF SupportedValues, NameSets, DaysOfWeek, Names
  <2>2. SupportedValues["languages"] \subseteq DOMAIN NameSets["languages"]
    <3>1. NameSets["languages"] = Languages
      BY DEF NameSets
    <3>2. {"English", "Simplified Chinese", "Traditional Chinese", "Japanese"}
             \subseteq DOMAIN Languages
      BY DEF Languages, Names, ++
    <3> QED BY <3>1, <3>2 DEF SupportedValues
  <2>3. SupportedValues["regions"] \subseteq DOMAIN NameSets["regions"]
    <3>1. NameSets["regions"] = Regions
      BY DEF NameSets
    <3>2. {"United States", "United Kingdom", "China", "Japan"} \subseteq DOMAIN Regions
      BY DEF Regions, Names, ++
    <3> QED BY <3>1, <3>2 DEF SupportedValues
  <2>4. SupportedValues["genders"] \subseteq DOMAIN NameSets["genders"]
    <3>1. NameSets["genders"] = Genders
      BY DEF NameSets
    <3>2. {"M", "F"} \subseteq DOMAIN Genders
      BY DEF Genders, Names, ++
    <3> QED BY <3>1, <3>2 DEF SupportedValues
  <2>5. SupportedValues["card_types"] \subseteq DOMAIN NameSets["card_types"]
    <3>1. NameSets["card_types"] = CardTypes
      BY DEF NameSets
    <3>2. {"AmericanExpress", "JCB", "MasterCard", "UnionPay", "Visa"} \subseteq DOMAIN CardTypes
      BY DEF CardTypes, Names, ++, At
    <3> QED BY <3>1, <3>2 DEF SupportedValues
  <2>6. SupportedValues["barcode_types"] \subseteq DOMAIN NameSets["barcode_types"]
    BY DEF SupportedValues, NameSets, BarcodeTypes, Names
  <2>7. SupportedValues["operating_systems"] \subseteq DOMAIN NameSets["operating_systems"]
    BY DEF SupportedValues, NameSets, OperatingSystems, Names
  <2> QED BY <2>1, <2>2, <2>3, <2>4, <2>5, <2>6, <2>7, ParamNames
<1>2. items # <<>> /\ DOMAIN items = 1 .. Len(items) /\ ToSet(items) \subseteq SupportedValues[p]
  BY DEF IsListOf
<1> QED BY <1>1, <1>2, NamesFit

LEMMA ListValues ==
    ASSUME NEW g
    PROVE  /\ ParamFits(g, "languages", English) /\ ParamFits(g, "regions", UnitedStates)
           /\ ParamFits(g, "operating_systems", Strings(<<"Windows">>))
           /\ ParamFits(g, "card_types", EveryCard)
           /\ ParamFits(g, "genders", Strings(<<"M", "F">>))
           /\ ParamFits(g, "days_of_week", EveryDay)
           /\ ParamFits(g, "barcode_types", Strings(<<"EAN13">>))
<1>1. ParamFits(g, "languages", English)
  <2>1. IsListOf(<<"English">>, {"English"})
    BY ListsOf, Zenon
  <2>2. {"English"} \subseteq SupportedValues["languages"] /\ "languages" \in DOMAIN NameSets
    BY ParamNames DEF SupportedValues
  <2> QED BY <2>1, <2>2, NameLists, Zenon DEF English
<1>2. ParamFits(g, "regions", UnitedStates)
  <2>1. IsListOf(<<"United States">>, {"United States"})
    BY ListsOf, Zenon
  <2>2. {"United States"} \subseteq SupportedValues["regions"] /\ "regions" \in DOMAIN NameSets
    BY ParamNames DEF SupportedValues
  <2> QED BY <2>1, <2>2, NameLists, Zenon DEF UnitedStates
<1>3. ParamFits(g, "operating_systems", Strings(<<"Windows">>))
  <2>1. IsListOf(<<"Windows">>, {"Windows"})
    BY ListsOf, Zenon
  <2>2. /\ {"Windows"} \subseteq SupportedValues["operating_systems"]
        /\ "operating_systems" \in DOMAIN NameSets
    BY ParamNames DEF SupportedValues
  <2> QED BY <2>1, <2>2, NameLists, Zenon
<1>4. ParamFits(g, "card_types", EveryCard)
  <2> DEFINE cards == {"AmericanExpress", "JCB", "MasterCard", "UnionPay", "Visa"}
  <2>1. IsListOf(<<"AmericanExpress", "JCB", "MasterCard", "UnionPay", "Visa">>, cards)
    BY ListsOf, Zenon
  <2>2. cards \subseteq SupportedValues["card_types"] /\ "card_types" \in DOMAIN NameSets
    BY ParamNames DEF SupportedValues
  <2> HIDE DEF cards
  <2> QED BY <2>1, <2>2, NameLists, Zenon DEF EveryCard
<1>5. ParamFits(g, "genders", Strings(<<"M", "F">>))
  <2>1. IsListOf(<<"M", "F">>, {"M", "F"})
    BY ListsOf, Zenon
  <2>2. {"M", "F"} \subseteq SupportedValues["genders"] /\ "genders" \in DOMAIN NameSets
    BY ParamNames DEF SupportedValues
  <2> QED BY <2>1, <2>2, NameLists, Zenon
<1>6. ParamFits(g, "days_of_week", EveryDay)
  <2> DEFINE days == {"Sunday", "Monday", "Tuesday", "Wednesday", "Thursday", "Friday", "Saturday"}
  <2>1. IsListOf(<<"Sunday", "Monday", "Tuesday", "Wednesday", "Thursday", "Friday", "Saturday">>,
                 days)
    BY ListsOf, Zenon
  <2>2. days \subseteq SupportedValues["days_of_week"] /\ "days_of_week" \in DOMAIN NameSets
    BY ParamNames DEF SupportedValues
  <2> HIDE DEF days
  <2> QED BY <2>1, <2>2, NameLists, Zenon DEF EveryDay
<1>7. ParamFits(g, "barcode_types", Strings(<<"EAN13">>))
  <2>1. IsListOf(<<"EAN13">>, {"EAN13"})
    BY ListsOf, Zenon
  <2>2. {"EAN13"} \subseteq SupportedValues["barcode_types"] /\ "barcode_types" \in DOMAIN NameSets
    BY ParamNames DEF SupportedValues
  <2> QED BY <2>1, <2>2, NameLists, Zenon
<1> QED BY <1>1, <1>2, <1>3, <1>4, <1>5, <1>6, <1>7

LEMMA StringValues ==
    ASSUME NEW g, NEW p \in StringLists, NEW items, NEW set, IsListOf(items, set), "" \notin set
    PROVE  ParamFits(g, p, Strings(items))
  BY StringsFit DEF IsListOf

Fit(g, p, v) == ParamFits(g, p, v) /\ Standard(p, v)
TemplateFits(g, config) ==
    config = [p \in DOMAIN config |-> config[p]] /\ \A p \in DOMAIN config : Fit(g, p, config[p])

LEMMA FitsAreMembers ==
    ASSUME NEW g, NEW config, TemplateFits(g, config)
    PROVE  AreMembers(config)
  BY DEF TemplateFits, AreMembers, Fit, ParamFits

LEMMA TemplatesMerge ==
    ASSUME NEW g, NEW a, NEW b, TemplateFits(g, a), TemplateFits(g, b)
    PROVE  TemplateFits(g, a ++ b)
<1> DEFINE c == a ++ b
<1>1. /\ DOMAIN c = DOMAIN a \cup DOMAIN b /\ c = [k \in DOMAIN c |-> c[k]]
      /\ \A k \in DOMAIN a : c[k] = a[k]
      /\ \A k \in DOMAIN b : k \notin DOMAIN a => c[k] = b[k]
  BY DEF ++
<1> HIDE DEF c
<1>2. ASSUME NEW k \in DOMAIN c PROVE Fit(g, k, c[k])
  <2>1. CASE k \in DOMAIN a
    BY <1>1, <2>1 DEF TemplateFits
  <2>2. CASE k \in DOMAIN b /\ k \notin DOMAIN a
    BY <1>1, <2>2 DEF TemplateFits
  <2> QED BY <1>1, <2>1, <2>2
<1>3. TemplateFits(g, c)
  BY <1>1, <1>2, Zenon DEF TemplateFits
<1> QED BY <1>3 DEF c

OptionList ==
    {"regions", "languages", "operating_systems", "extensions", "card_types", "start_month",
     "end_month", "genders", "domains"}

LEMMA NotMerged ==
    ASSUME NEW p, NEW v, p \notin OptionList
    PROVE  Standard(p, v)
  BY DEF Standard, OptionList, OptionNames, LocationOptions, BusinessOptions, ComputerOptions,
         PaymentOptions, PersonOptions

LEMMA MergedValues ==
    ASSUME NEW g
    PROVE  /\ Fit(g, "languages", English) /\ Fit(g, "regions", UnitedStates)
           /\ Fit(g, "operating_systems", Strings(<<"Windows">>))
           /\ Fit(g, "extensions", Extensions)
           /\ Fit(g, "card_types", EveryCard) /\ Fit(g, "genders", Strings(<<"M", "F">>))
           /\ Fit(g, "start_month", Text("01/00")) /\ Fit(g, "end_month", Text("12/50"))
           /\ Fit(g, "domains", Strings(<<"gmail.com", "outlook.com">>))
<1>1. /\ StandardOptions["regions"] = UnitedStates /\ StandardOptions["languages"] = English
      /\ StandardOptions["operating_systems"] = Strings(<<"Windows">>)
      /\ StandardOptions["extensions"] = Extensions /\ StandardOptions["card_types"] = EveryCard
      /\ StandardOptions["start_month"] = Text("01/00")
      /\ StandardOptions["end_month"] = Text("12/50")
      /\ StandardOptions["genders"] = Strings(<<"M", "F">>)
      /\ StandardOptions["domains"] = Strings(<<"gmail.com", "outlook.com">>)
  BY DEF StandardOptions
<1>2. ParamFits(g, "extensions", Extensions)
  <2>1. IsListOf(<<"txt", "csv">>, {"txt", "csv"})
    BY ListsOf, Zenon
  <2>2. "extensions" \in StringLists /\ "" \notin {"txt", "csv"}
    BY DEF StringLists
  <2> QED BY <2>1, <2>2, StringValues, Zenon DEF Extensions
<1>3. ParamFits(g, "domains", Strings(<<"gmail.com", "outlook.com">>))
  <2>1. IsListOf(<<"gmail.com", "outlook.com">>, {"gmail.com", "outlook.com"})
    BY ListsOf, Zenon
  <2>2. "domains" \in StringLists /\ "" \notin {"gmail.com", "outlook.com"}
    BY DEF StringLists
  <2> QED BY <2>1, <2>2, StringValues, Zenon
<1>4. ParamFits(g, "start_month", Text("01/00")) /\ ParamFits(g, "end_month", Text("12/50"))
  <2>1. "start_month" \in TextParams /\ "end_month" \in TextParams
    BY DEF TextParams
  <2> QED BY <2>1, TextsFit, Zenon
<1> QED BY <1>1, <1>2, <1>3, <1>4, ListValues, Zenon DEF Fit, Standard

LEMMA OtherValues ==
    ASSUME NEW g
    PROVE  /\ \A p \in Flags : \A b : Fit(g, p, Flag(b))
           /\ \A p \in {"pattern", "start_date", "end_date", "start_time", "end_time"} :
                 \A s : Fit(g, p, Text(s))
           /\ Fit(g, "ip_address_type", Text("IPv4"))
           /\ Fit(g, "country_codes_standard", Text("None"))
           /\ Fit(g, "days_of_week", EveryDay) /\ Fit(g, "barcode_types", Strings(<<"EAN13">>))
<1>1. ASSUME NEW p \in Flags, NEW b PROVE Fit(g, p, Flag(b))
  <2>1. p \notin OptionList
    BY DEF Flags, OptionList
  <2> QED BY <2>1, NotMerged, FlagsFit, Zenon DEF Fit
<1>2. ASSUME NEW p \in {"pattern", "start_date", "end_date", "start_time", "end_time"}, NEW s
      PROVE  Fit(g, p, Text(s))
  <2>1. p \notin OptionList /\ p \in TextParams
    BY DEF OptionList, TextParams
  <2> QED BY <2>1, NotMerged, TextsFit, Zenon DEF Fit
<1>3. /\ "ip_address_type" \notin OptionList /\ "country_codes_standard" \notin OptionList
      /\ "days_of_week" \notin OptionList /\ "barcode_types" \notin OptionList
  BY DEF OptionList
<1>4. /\ Fit(g, "ip_address_type", Text("IPv4")) /\ Fit(g, "country_codes_standard", Text("None"))
      /\ Fit(g, "days_of_week", EveryDay) /\ Fit(g, "barcode_types", Strings(<<"EAN13">>))
  BY <1>3, NotMerged, ChoicesFit, ListValues, Zenon DEF Fit
<1> QED BY <1>1, <1>2, <1>4

LEMMA OtherNumbers ==
    ASSUME NEW g, NEW p \in NumberParams, <<g, p>> \in IntParams \cup WideParams, NEW n \in Int
    PROVE  Fit(g, p, Whole(n)) /\ Fit(g, p, Real(n))
<1>1. p \notin OptionList
  BY DEF NumberParams, OptionList
<1>2. IsNumber(Whole(n)) /\ IsNumber(Real(n))
  BY DEF IsNumber, Whole, Real, Value
<1>3. IsValue(Whole(n)) /\ IsValue(Real(n))
  BY ValuesAre
<1> QED BY <1>1, <1>2, <1>3, NotMerged, NumbersFit, Zenon DEF Fit

LEMMA OtherStrings ==
    ASSUME NEW g, NEW p \in StringLists \ {"extensions", "domains"}, NEW items, NEW set,
           IsListOf(items, set), "" \notin set
    PROVE  Fit(g, p, Strings(items))
<1>1. p \notin OptionList
  BY DEF StringLists, OptionList
<1> QED BY <1>1, NotMerged, StringValues, Zenon DEF Fit

LEMMA CommonTemplates ==
    ASSUME NEW g
    PROVE  /\ TemplateFits(g, EnglishOnly) /\ TemplateFits(g, Translated)
           /\ TemplateFits(g, InRegions) /\ TemplateFits(g, NoParams)
           /\ TemplateFits(g, [genders |-> Strings(<<"M", "F">>)])
           /\ TemplateFits(g, Sites) /\ TemplateFits(g, Dates) /\ TemplateFits(g, Times)
<1>1. TemplateFits(g, EnglishOnly)
  <2>1. Fit(g, "languages", English)
    BY MergedValues, Zenon
  <2> QED BY <2>1 DEF TemplateFits, EnglishOnly
<1>2. TemplateFits(g, Translated)
  <2>1. Fit(g, "languages", English)
    BY MergedValues, Zenon
  <2>2. Fit(g, "use_translation", Flag(FALSE))
    <3>1. "use_translation" \in Flags
      BY DEF Flags
    <3> QED BY <3>1, OtherValues, Zenon
  <2> DEFINE no == Flag(FALSE)
  <2>3. Translated = [languages |-> English, use_translation |-> no]
    BY DEF Translated
  <2>4. Fit(g, "use_translation", no)
    BY <2>2
  <2> HIDE DEF no
  <2> QED BY <2>1, <2>3, <2>4 DEF TemplateFits
<1>3. TemplateFits(g, InRegions)
  <2>1. Fit(g, "regions", UnitedStates)
    BY MergedValues, Zenon
  <2>2. Fit(g, "use_translation", Flag(FALSE))
    <3>1. "use_translation" \in Flags
      BY DEF Flags
    <3> QED BY <3>1, OtherValues, Zenon
  <2> DEFINE no == Flag(FALSE)
  <2>3. InRegions = [regions |-> UnitedStates, use_translation |-> no]
    BY DEF InRegions
  <2>4. Fit(g, "use_translation", no)
    BY <2>2
  <2> HIDE DEF no
  <2> QED BY <2>1, <2>3, <2>4 DEF TemplateFits
<1>4. TemplateFits(g, NoParams)
  BY DEF TemplateFits, NoParams
<1>5. TemplateFits(g, [genders |-> Strings(<<"M", "F">>)])
  <2>1. Fit(g, "genders", Strings(<<"M", "F">>))
    BY MergedValues, Zenon
  <2> DEFINE list == Strings(<<"M", "F">>)
  <2> HIDE DEF list
  <2>2. Fit(g, "genders", list)
    BY <2>1 DEF list
  <2>3. TemplateFits(g, [genders |-> list])
    BY <2>2 DEF TemplateFits
  <2> QED BY <2>3 DEF list
<1>6. TemplateFits(g, Sites)
  <2> DEFINE subdomains == Strings(<<"www">>)
             tlds == Strings(<<"com", "net", "org">>)
  <2>1. Fit(g, "subdomains", subdomains)
    <3>1. IsListOf(<<"www">>, {"www"})
      BY ListsOf, Zenon
    <3>2. "subdomains" \in StringLists \ {"extensions", "domains"} /\ "" \notin {"www"}
      BY DEF StringLists
    <3> QED BY <3>1, <3>2, OtherStrings, Zenon
  <2>2. Fit(g, "tlds", tlds)
    <3>1. IsListOf(<<"com", "net", "org">>, {"com", "net", "org"})
      BY ListsOf, Zenon
    <3>2. "tlds" \in StringLists \ {"extensions", "domains"} /\ "" \notin {"com", "net", "org"}
      BY DEF StringLists
    <3> QED BY <3>1, <3>2, OtherStrings, Zenon
  <2>3. Sites = [subdomains |-> subdomains, tlds |-> tlds]
    BY DEF Sites
  <2> HIDE DEF subdomains, tlds
  <2> QED BY <2>1, <2>2, <2>3 DEF TemplateFits
<1>7. TemplateFits(g, Dates)
  <2>1. \A s : Fit(g, "start_date", Text(s)) /\ Fit(g, "end_date", Text(s))
    BY OtherValues, Zenon
  <2>2. Fit(g, "days_of_week", EveryDay)
    BY OtherValues, Zenon
  <2> QED BY <2>1, <2>2 DEF TemplateFits, Dates
<1>8. TemplateFits(g, Times)
  <2>1. \A s : Fit(g, "start_time", Text(s)) /\ Fit(g, "end_time", Text(s))
    BY OtherValues, Zenon
  <2> QED BY <2>1 DEF TemplateFits, Times
<1> QED BY <1>1, <1>2, <1>3, <1>4, <1>5, <1>6, <1>7, <1>8

(* The templates of some entries of the catalog.                           *)
EntriesFit(entries) ==
    \A g \in DOMAIN entries : TemplateFits(g, entries[g].config_template)

LEMMA EntriesMerge ==
    ASSUME NEW a, NEW b, EntriesFit(a), EntriesFit(b)
    PROVE  EntriesFit(a ++ b)
<1> DEFINE c == a ++ b
<1>1. /\ DOMAIN c = DOMAIN a \cup DOMAIN b
      /\ \A k \in DOMAIN a : c[k] = a[k]
      /\ \A k \in DOMAIN b : k \notin DOMAIN a => c[k] = b[k]
  BY DEF ++
<1> HIDE DEF c
<1>2. EntriesFit(c)
  BY <1>1 DEF EntriesFit
<1> QED BY <1>2 DEF c

LEMMA EntryFits ==
    ASSUME NEW g, NEW template, TemplateFits(g, template), NEW unique, NEW linkage
    PROVE  TemplateFits(g, Entry(template, unique, linkage).config_template)
<1>1. Entry(template, unique, linkage).config_template = template
  BY DEF Entry
<1> QED BY <1>1, Zenon

LEMMA BusinessFits == EntriesFit(BusinessEntries)
<1>1. /\ DOMAIN BusinessEntries = {"company_name", "department", "industry"}
      /\ BusinessEntries["company_name"] = Entry(Translated, FALSE, TRUE)
      /\ BusinessEntries["department"] = Entry(EnglishOnly, FALSE, FALSE)
      /\ BusinessEntries["industry"] = Entry(EnglishOnly, FALSE, TRUE)
  BY DEF BusinessEntries
<1>2. ASSUME NEW g \in DOMAIN BusinessEntries
      PROVE  TemplateFits(g, BusinessEntries[g].config_template)
  BY <1>1, CommonTemplates, EntryFits
<1> QED BY <1>2 DEF EntriesFit

LEMMA ComputerFits == EntriesFit(ComputerEntries)
<1> DEFINE ip == Text("IPv4")
           windows == Strings(<<"Windows">>)
           address == [ip_address_type |-> ip]
           path == [operating_systems |-> windows, extensions |-> Extensions]
           directory == [operating_systems |-> windows]
           name == [extensions |-> Extensions]
<1>1. /\ DOMAIN ComputerEntries = {"ip_address", "mac_address", "file_path", "file_directory",
                                   "file_name", "file_extension", "url", "hostname"}
      /\ ComputerEntries["ip_address"] = Entry(address, TRUE, FALSE)
      /\ ComputerEntries["mac_address"] = Entry(NoParams, TRUE, FALSE)
      /\ ComputerEntries["file_path"] = Entry(path, FALSE, TRUE)
      /\ ComputerEntries["file_directory"] = Entry(directory, FALSE, TRUE)
      /\ ComputerEntries["file_name"] = Entry(name, FALSE, TRUE)
      /\ ComputerEntries["file_extension"] = Entry(name, FALSE, TRUE)
      /\ ComputerEntries["url"] = Entry(Sites, TRUE, FALSE)
      /\ ComputerEntries["hostname"] = Entry(Sites, TRUE, FALSE)
  BY DEF ComputerEntries
<1>2. ASSUME NEW g
      PROVE  /\ TemplateFits(g, address) /\ TemplateFits(g, path)
             /\ TemplateFits(g, directory) /\ TemplateFits(g, name)
  <2>1. Fit(g, "ip_address_type", ip)
    BY OtherValues, Zenon
  <2>2. Fit(g, "operating_systems", windows) /\ Fit(g, "extensions", Extensions)
    BY MergedValues, Zenon
  <2> HIDE DEF ip, windows
  <2>3. TemplateFits(g, address)
    BY <2>1 DEF TemplateFits
  <2>4. TemplateFits(g, path)
    BY <2>2 DEF TemplateFits
  <2>5. TemplateFits(g, directory)
    BY <2>2 DEF TemplateFits
  <2>6. TemplateFits(g, name)
    BY <2>2 DEF TemplateFits
  <2> QED BY <2>3, <2>4, <2>5, <2>6
<1> HIDE DEF address, path, directory, name
<1>3. ASSUME NEW g \in DOMAIN ComputerEntries
      PROVE  TemplateFits(g, ComputerEntries[g].config_template)
  BY <1>1, <1>2, CommonTemplates, EntryFits
<1> QED BY <1>3 DEF EntriesFit

LEMMA DatetimeFits == EntriesFit(DatetimeEntries)
<1>1. /\ DOMAIN DatetimeEntries = {"date", "time", "datetime"}
      /\ DatetimeEntries["date"] = Entry(Dates, FALSE, FALSE)
      /\ DatetimeEntries["time"] = Entry(Times, FALSE, FALSE)
      /\ DatetimeEntries["datetime"] = Entry(Dates ++ Times, FALSE, FALSE)
  BY DEF DatetimeEntries
<1>2. \A g : TemplateFits(g, Dates ++ Times)
  BY CommonTemplates, TemplatesMerge
<1>3. ASSUME NEW g \in DOMAIN DatetimeEntries
      PROVE  TemplateFits(g, DatetimeEntries[g].config_template)
  BY <1>1, <1>2, CommonTemplates, EntryFits
<1> QED BY <1>3 DEF EntriesFit

LEMMA LocationFits == EntriesFit(LocationEntries)
<1> DEFINE none == Text("None")
           place == [regions |-> UnitedStates]
           area == [country_codes_standard |-> none, languages |-> English]
<1>1. /\ DOMAIN LocationEntries = {"address_line1", "address_line2", "postcode", "full_address",
                                   "city", "region"}
      /\ LocationEntries["address_line1"] = Entry(InRegions, FALSE, TRUE)
      /\ LocationEntries["address_line2"] = Entry(InRegions, FALSE, TRUE)
      /\ LocationEntries["postcode"] = Entry(place, FALSE, TRUE)
      /\ LocationEntries["full_address"] = Entry(InRegions, FALSE, TRUE)
      /\ LocationEntries["city"] = Entry(InRegions, FALSE, TRUE)
      /\ LocationEntries["region"] = Entry(area, FALSE, TRUE)
  BY DEF LocationEntries
<1>2. ASSUME NEW g
      PROVE  TemplateFits(g, place) /\ TemplateFits(g, area)
  <2>1. Fit(g, "country_codes_standard", none)
    BY OtherValues, Zenon
  <2>2. Fit(g, "regions", UnitedStates) /\ Fit(g, "languages", English)
    BY MergedValues, Zenon
  <2> HIDE DEF none
  <2>3. TemplateFits(g, place)
    BY <2>2 DEF TemplateFits
  <2>4. TemplateFits(g, area)
    BY <2>1, <2>2 DEF TemplateFits
  <2> QED BY <2>3, <2>4
<1> HIDE DEF place, area
<1>3. ASSUME NEW g \in DOMAIN LocationEntries
      PROVE  TemplateFits(g, LocationEntries[g].config_template)
  BY <1>1, <1>2, CommonTemplates, EntryFits
<1> QED BY <1>3 DEF EntriesFit

LEMMA NumberFits == EntriesFit(NumberEntries)
<1> DEFINE range == [start |-> Whole(0), end |-> Whole(100)]
           reals == [start |-> Real(0), end |-> Real(100), decimal_places |-> Whole(2)]
<1>1. /\ DOMAIN NumberEntries = {"integer", "decimal"}
      /\ NumberEntries["integer"] = Entry(range, FALSE, FALSE)
      /\ NumberEntries["decimal"] = Entry(reals, FALSE, FALSE)
  BY DEF NumberEntries
<1>2. TemplateFits("integer", range)
  <2>1. \A n \in Int : Fit("integer", "start", Whole(n)) /\ Fit("integer", "end", Whole(n))
    BY OtherNumbers DEF NumberParams, IntParams
  <2> QED BY <2>1 DEF TemplateFits
<1>3. TemplateFits("decimal", reals)
  <2>1. \A n \in Int : Fit("decimal", "start", Real(n)) /\ Fit("decimal", "end", Real(n))
    BY OtherNumbers DEF NumberParams, WideParams
  <2>2. \A n \in Int : Fit("decimal", "decimal_places", Whole(n))
    BY OtherNumbers DEF NumberParams, IntParams
  <2> QED BY <2>1, <2>2 DEF TemplateFits
<1> HIDE DEF range, reals
<1>4. ASSUME NEW g \in DOMAIN NumberEntries
      PROVE  TemplateFits(g, NumberEntries[g].config_template)
  BY <1>1, <1>2, <1>3, EntryFits
<1> QED BY <1>4 DEF EntriesFit

LEMMA PaymentFits == EntriesFit(PaymentEntries)
<1> DEFINE methods == Strings(<<"Credit Card", "PayPal", "Apple Pay">>)
           paying == [payment_methods |-> methods]
           type == [languages |-> English, card_types |-> EveryCard]
           number == [card_types |-> EveryCard]
           first == Text("01/00")
           last == Text("12/50")
           date == [start_month |-> first, end_month |-> last]
<1>1. /\ DOMAIN PaymentEntries = {"payment_method", "card_type", "card_number", "card_date"}
      /\ PaymentEntries["payment_method"] = Entry(paying, FALSE, TRUE)
      /\ PaymentEntries["card_type"] = Entry(type, FALSE, TRUE)
      /\ PaymentEntries["card_number"] = Entry(number, TRUE, TRUE)
      /\ PaymentEntries["card_date"] = Entry(date, FALSE, TRUE)
  BY DEF PaymentEntries
<1>2. ASSUME NEW g
      PROVE  /\ TemplateFits(g, paying) /\ TemplateFits(g, type)
             /\ TemplateFits(g, number) /\ TemplateFits(g, date)
  <2>1. Fit(g, "payment_methods", methods)
    <3>1. IsListOf(<<"Credit Card", "PayPal", "Apple Pay">>, {"Credit Card", "PayPal", "Apple Pay"})
      BY ListsOf, Zenon
    <3>2. /\ "payment_methods" \in StringLists \ {"extensions", "domains"}
          /\ "" \notin {"Credit Card", "PayPal", "Apple Pay"}
      BY DEF StringLists
    <3> QED BY <3>1, <3>2, OtherStrings, Zenon
  <2>2. Fit(g, "languages", English) /\ Fit(g, "card_types", EveryCard)
    BY MergedValues, Zenon
  <2>3. Fit(g, "start_month", first) /\ Fit(g, "end_month", last)
    BY MergedValues, Zenon
  <2> HIDE DEF methods, first, last
  <2>4. TemplateFits(g, paying)
    BY <2>1 DEF TemplateFits
  <2>5. TemplateFits(g, type)
    BY <2>2 DEF TemplateFits
  <2>6. TemplateFits(g, number)
    BY <2>2 DEF TemplateFits
  <2>7. TemplateFits(g, date)
    BY <2>3 DEF TemplateFits
  <2> QED BY <2>4, <2>5, <2>6, <2>7
<1> HIDE DEF paying, type, number, date
<1>3. ASSUME NEW g \in DOMAIN PaymentEntries
      PROVE  TemplateFits(g, PaymentEntries[g].config_template)
  BY <1>1, <1>2, EntryFits
<1> QED BY <1>3 DEF EntriesFit

LEMMA PersonFits == EntriesFit(PersonEntries)
<1> DEFINE genders == [genders |-> Strings(<<"M", "F">>)]
           no == Flag(FALSE)
           yes == Flag(TRUE)
           phone == [regions |-> UnitedStates, is_international |-> no, include_delimiters |-> yes]
           domains == Strings(<<"gmail.com", "outlook.com">>)
           email == [languages |-> English, domains |-> domains]
<1>1. /\ DOMAIN PersonEntries =
             {"first_name", "last_name", "full_name", "gender", "title", "marital_status",
              "phone_number", "email", "job_title", "social_network_id"}
      /\ PersonEntries["first_name"] = Entry(Translated ++ genders, FALSE, TRUE)
      /\ PersonEntries["last_name"] = Entry(Translated, FALSE, TRUE)
      /\ PersonEntries["full_name"] = Entry(Translated ++ genders, FALSE, TRUE)
      /\ PersonEntries["gender"] = Entry(EnglishOnly, FALSE, TRUE)
      /\ PersonEntries["title"] = Entry(EnglishOnly ++ genders, FALSE, TRUE)
      /\ PersonEntries["marital_status"] = Entry(EnglishOnly, FALSE, TRUE)
      /\ PersonEntries["phone_number"] = Entry(phone, TRUE, TRUE)
      /\ PersonEntries["email"] = Entry(email, TRUE, TRUE)
      /\ PersonEntries["job_title"] = Entry(EnglishOnly, FALSE, TRUE)
      /\ PersonEntries["social_network_id"] = Entry(Translated, TRUE, TRUE)
  BY DEF PersonEntries
<1>2. ASSUME NEW g
      PROVE  /\ TemplateFits(g, Translated ++ genders) /\ TemplateFits(g, EnglishOnly ++ genders)
             /\ TemplateFits(g, phone) /\ TemplateFits(g, email)
  <2>1. /\ TemplateFits(g, Translated) /\ TemplateFits(g, EnglishOnly) /\ TemplateFits(g, genders)
    BY CommonTemplates, Zenon
  <2>2. Fit(g, "regions", UnitedStates) /\ Fit(g, "languages", English) /\ Fit(g, "domains", domains)
    BY MergedValues, Zenon
  <2>3. Fit(g, "is_international", no) /\ Fit(g, "include_delimiters", yes)
    <3>1. "is_international" \in Flags /\ "include_delimiters" \in Flags
      BY DEF Flags
    <3> QED BY <3>1, OtherValues, Zenon
  <2> HIDE DEF genders, no, yes, domains
  <2>4. TemplateFits(g, phone)
    BY <2>2, <2>3 DEF TemplateFits
  <2>5. TemplateFits(g, email)
    BY <2>2 DEF TemplateFits
  <2> QED BY <2>1, <2>4, <2>5, TemplatesMerge, Zenon
<1> HIDE DEF genders, phone, email
<1>3. ASSUME NEW g \in DOMAIN PersonEntries
      PROVE  TemplateFits(g, PersonEntries[g].config_template)
  BY <1>1, <1>2, CommonTemplates, EntryFits
<1> QED BY <1>3 DEF EntriesFit

LEMMA ProductFits == EntriesFit(ProductEntries)
<1> DEFINE keywords == Strings(<<"Cherry", "Orange", "Pluots", "Grape", "Kiwi",
                                "Mango", "Raspberry", "Strawberry">>)
           product == [languages |-> English, keywords |-> keywords]
           codes == Strings(<<"EAN13">>)
           barcode == [barcode_types |-> codes]
<1>1. /\ DOMAIN ProductEntries =
             {"product_name", "product_category", "color", "size", "barcode"}
      /\ ProductEntries["product_name"] = Entry(product, FALSE, FALSE)
      /\ ProductEntries["product_category"] = Entry(EnglishOnly, FALSE, FALSE)
      /\ ProductEntries["color"] = Entry(EnglishOnly, FALSE, FALSE)
      /\ ProductEntries["size"] = Entry(NoParams, FALSE, FALSE)
      /\ ProductEntries["barcode"] = Entry(barcode, TRUE, FALSE)
  BY DEF ProductEntries
<1>2. ASSUME NEW g
      PROVE  TemplateFits(g, product) /\ TemplateFits(g, barcode)
  <2>1. Fit(g, "keywords", keywords)
    <3> DEFINE words == {"Cherry", "Orange", "Pluots", "Grape", "Kiwi", "Mango", "Raspberry",
                         "Strawberry"}
    <3>1. IsListOf(<<"Cherry", "Orange", "Pluots", "Grape", "Kiwi", "Mango", "Raspberry",
                     "Strawberry">>, words)
      BY ListsOf, Zenon
    <3>2. "keywords" \in StringLists \ {"extensions", "domains"} /\ "" \notin words
      BY DEF StringLists
    <3> HIDE DEF words
    <3> QED BY <3>1, <3>2, OtherStrings, Zenon
  <2>2. Fit(g, "languages", English)
    BY MergedValues, Zenon
  <2>3. Fit(g, "barcode_types", codes)
    BY OtherValues, Zenon
  <2> HIDE DEF keywords, codes
  <2>4. TemplateFits(g, product)
    BY <2>1, <2>2 DEF TemplateFits
  <2>5. TemplateFits(g, barcode)
    BY <2>3 DEF TemplateFits
  <2> QED BY <2>4, <2>5
<1> HIDE DEF product, barcode
<1>3. ASSUME NEW g \in DOMAIN ProductEntries
      PROVE  TemplateFits(g, ProductEntries[g].config_template)
  BY <1>1, <1>2, CommonTemplates, EntryFits
<1> QED BY <1>3 DEF EntriesFit

LEMMA StringFits == EntriesFit(StringEntries)
<1> DEFINE enums == Strings(<<"First", "Second", "Third">>)
           item == [enums |-> enums]
           chars == [number_of_chars_start |-> Whole(100), number_of_chars_end |-> Whole(10000)]
           yes == Flag(TRUE)
           uuid == [include_hyphens |-> yes]
<1>1. /\ DOMAIN StringEntries = {"enum_item", "text", "uuid"}
      /\ StringEntries["enum_item"] = Entry(item, FALSE, FALSE)
      /\ StringEntries["text"] = Entry(chars, FALSE, FALSE)
      /\ StringEntries["uuid"] = Entry(uuid, FALSE, FALSE)
  BY DEF StringEntries
<1>2. TemplateFits("enum_item", item)
  <2>1. Fit("enum_item", "enums", enums)
    <3>1. IsListOf(<<"First", "Second", "Third">>, {"First", "Second", "Third"})
      BY ListsOf, Zenon
    <3>2. "enums" \in StringLists \ {"extensions", "domains"} /\ "" \notin {"First", "Second", "Third"}
      BY DEF StringLists
    <3> QED BY <3>1, <3>2, OtherStrings, Zenon
  <2> HIDE DEF enums
  <2> QED BY <2>1 DEF TemplateFits
<1>3. TemplateFits("text", chars)
  <2>1. \A n \in Int : /\ Fit("text", "number_of_chars_start", Whole(n))
                       /\ Fit("text", "number_of_chars_end", Whole(n))
    BY OtherNumbers DEF NumberParams, IntParams
  <2> QED BY <2>1 DEF TemplateFits
<1>4. TemplateFits("uuid", uuid)
  <2>1. Fit("uuid", "include_hyphens", yes)
    <3>1. "include_hyphens" \in Flags
      BY DEF Flags
    <3> QED BY <3>1, OtherValues, Zenon
  <2> HIDE DEF yes
  <2> QED BY <2>1 DEF TemplateFits
<1> HIDE DEF item, chars, uuid
<1>5. ASSUME NEW g \in DOMAIN StringEntries
      PROVE  TemplateFits(g, StringEntries[g].config_template)
  BY <1>1, <1>2, <1>3, <1>4, EntryFits
<1> QED BY <1>5 DEF EntriesFit

LEMMA UtilityFits == EntriesFit(UtilityEntries)
<1> DEFINE share == [true_percentage |-> Whole(50)]
           yes == Flag(TRUE)
           counting == [start |-> Whole(1), end |-> Whole(100), step |-> Whole(1), circle |-> yes]
           order == Text("ORD-[A-Z]{3}-\\d{4}")
           regex == [pattern |-> order]
<1>1. /\ DOMAIN UtilityEntries = {"boolean", "sequence", "regular_expression"}
      /\ UtilityEntries["boolean"] = Entry(share, FALSE, FALSE)
      /\ UtilityEntries["sequence"] = Entry(counting, FALSE, FALSE)
      /\ UtilityEntries["regular_expression"] = Entry(regex, FALSE, FALSE)
  BY DEF UtilityEntries
<1>2. TemplateFits("boolean", share)
  <2>1. \A n \in Int : Fit("boolean", "true_percentage", Whole(n))
    BY OtherNumbers DEF NumberParams, WideParams
  <2> QED BY <2>1 DEF TemplateFits
<1>3. TemplateFits("sequence", counting)
  <2>1. \A n \in Int : /\ Fit("sequence", "start", Whole(n)) /\ Fit("sequence", "end", Whole(n))
                       /\ Fit("sequence", "step", Whole(n))
    BY OtherNumbers DEF NumberParams, WideParams
  <2>2. Fit("sequence", "circle", yes)
    <3>1. "circle" \in Flags
      BY DEF Flags
    <3> QED BY <3>1, OtherValues, Zenon
  <2> HIDE DEF yes
  <2> QED BY <2>1, <2>2 DEF TemplateFits
<1>4. TemplateFits("regular_expression", regex)
  <2>1. Fit("regular_expression", "pattern", order)
    BY OtherValues, Zenon
  <2> HIDE DEF order
  <2> QED BY <2>1 DEF TemplateFits
<1> HIDE DEF share, counting, regex
<1>5. ASSUME NEW g \in DOMAIN UtilityEntries
      PROVE  TemplateFits(g, UtilityEntries[g].config_template)
  BY <1>1, <1>2, <1>3, <1>4, EntryFits
<1> QED BY <1>5 DEF EntriesFit

LEMMA CatalogFits == EntriesFit(Catalog)
<1>1. EntriesFit(BusinessEntries ++ ComputerEntries)
  BY BusinessFits, ComputerFits, EntriesMerge, Zenon
<1>2. EntriesFit(BusinessEntries ++ ComputerEntries ++ DatetimeEntries)
  BY <1>1, DatetimeFits, EntriesMerge, Zenon
<1>3. EntriesFit(BusinessEntries ++ ComputerEntries ++ DatetimeEntries ++ LocationEntries)
  BY <1>2, LocationFits, EntriesMerge, Zenon
<1>4. EntriesFit(BusinessEntries ++ ComputerEntries ++ DatetimeEntries ++ LocationEntries
                 ++ NumberEntries)
  BY <1>3, NumberFits, EntriesMerge, Zenon
<1>5. EntriesFit(BusinessEntries ++ ComputerEntries ++ DatetimeEntries ++ LocationEntries
                 ++ NumberEntries ++ PaymentEntries)
  BY <1>4, PaymentFits, EntriesMerge, Zenon
<1>6. EntriesFit(BusinessEntries ++ ComputerEntries ++ DatetimeEntries ++ LocationEntries
                 ++ NumberEntries ++ PaymentEntries ++ PersonEntries)
  BY <1>5, PersonFits, EntriesMerge, Zenon
<1>7. EntriesFit(BusinessEntries ++ ComputerEntries ++ DatetimeEntries ++ LocationEntries
                 ++ NumberEntries ++ PaymentEntries ++ PersonEntries ++ ProductEntries)
  BY <1>6, ProductFits, EntriesMerge, Zenon
<1>8. EntriesFit(BusinessEntries ++ ComputerEntries ++ DatetimeEntries ++ LocationEntries
                 ++ NumberEntries ++ PaymentEntries ++ PersonEntries ++ ProductEntries
                 ++ StringEntries)
  BY <1>7, StringFits, EntriesMerge, Zenon
<1> QED BY <1>8, UtilityFits, EntriesMerge, Zenon DEF Catalog

LEMMA Domains ==
    /\ DOMAIN BusinessEntries = {"company_name", "department", "industry"}
    /\ DOMAIN ComputerEntries = {"ip_address", "mac_address", "file_path", "file_directory",
                                 "file_name", "file_extension", "url", "hostname"}
    /\ DOMAIN DatetimeEntries = {"date", "time", "datetime"}
    /\ DOMAIN LocationEntries = {"address_line1", "address_line2", "postcode", "full_address",
                                 "city", "region"}
    /\ DOMAIN NumberEntries = {"integer", "decimal"}
    /\ DOMAIN PaymentEntries = {"payment_method", "card_type", "card_number", "card_date"}
    /\ DOMAIN PersonEntries =
             {"first_name", "last_name", "full_name", "gender", "title", "marital_status",
              "phone_number", "email", "job_title", "social_network_id"}
    /\ DOMAIN ProductEntries =
             {"product_name", "product_category", "color", "size", "barcode"}
    /\ DOMAIN StringEntries = {"enum_item", "text", "uuid"}
    /\ DOMAIN UtilityEntries = {"boolean", "sequence", "regular_expression"}
  BY DEF BusinessEntries, ComputerEntries, DatetimeEntries, LocationEntries, NumberEntries,
         PaymentEntries, PersonEntries, ProductEntries, StringEntries, UtilityEntries

(* A catalog has all of some entries.                                      *)
HasAll(c, entries) == DOMAIN entries \subseteq DOMAIN c /\ \A g \in DOMAIN entries : c[g] = entries[g]

LEMMA MergeHasAll ==
    ASSUME NEW a, NEW b, NEW c, c = a ++ b
    PROVE  /\ HasAll(c, a) /\ DOMAIN c = DOMAIN a \cup DOMAIN b
           /\ DOMAIN a \cap DOMAIN b = {} => HasAll(c, b)
<1>1. /\ DOMAIN c = DOMAIN a \cup DOMAIN b
      /\ \A k \in DOMAIN a : c[k] = a[k]
      /\ \A k \in DOMAIN b : k \notin DOMAIN a => c[k] = b[k]
  BY DEF ++
<1> QED BY <1>1 DEF HasAll

LEMMA HasAllOf ==
    ASSUME NEW a, NEW b, NEW c, HasAll(a, b), HasAll(c, a)
    PROVE  HasAll(c, b)
  BY DEF HasAll

LEMMA WholeCatalog ==
    /\ Generators = DOMAIN BusinessEntries \cup DOMAIN ComputerEntries
                    \cup DOMAIN DatetimeEntries \cup DOMAIN LocationEntries
                    \cup DOMAIN NumberEntries \cup DOMAIN PaymentEntries
                    \cup DOMAIN PersonEntries \cup DOMAIN ProductEntries
                    \cup DOMAIN StringEntries \cup DOMAIN UtilityEntries
    /\ HasAll(Catalog, BusinessEntries)
    /\ HasAll(Catalog, ComputerEntries)
    /\ HasAll(Catalog, DatetimeEntries)
    /\ HasAll(Catalog, LocationEntries)
    /\ HasAll(Catalog, NumberEntries)
    /\ HasAll(Catalog, PaymentEntries)
    /\ HasAll(Catalog, PersonEntries)
    /\ HasAll(Catalog, ProductEntries)
    /\ HasAll(Catalog, StringEntries)
    /\ HasAll(Catalog, UtilityEntries)
<1> DEFINE c1 == BusinessEntries
           c2 == c1 ++ ComputerEntries
           c3 == c2 ++ DatetimeEntries
           c4 == c3 ++ LocationEntries
           c5 == c4 ++ NumberEntries
           c6 == c5 ++ PaymentEntries
           c7 == c6 ++ PersonEntries
           c8 == c7 ++ ProductEntries
           c9 == c8 ++ StringEntries
           c10 == c9 ++ UtilityEntries
<1>1. Catalog = c10
  BY DEF Catalog
<1>2. /\ c1 = BusinessEntries
      /\ c2 = c1 ++ ComputerEntries
      /\ c3 = c2 ++ DatetimeEntries
      /\ c4 = c3 ++ LocationEntries
      /\ c5 = c4 ++ NumberEntries
      /\ c6 = c5 ++ PaymentEntries
      /\ c7 = c6 ++ PersonEntries
      /\ c8 = c7 ++ ProductEntries
      /\ c9 = c8 ++ StringEntries
      /\ c10 = c9 ++ UtilityEntries
  OBVIOUS
<1> HIDE DEF c1, c2, c3, c4, c5, c6, c7, c8, c9, c10
<1>100. DOMAIN c1 = DOMAIN BusinessEntries /\ HasAll(c1, BusinessEntries)
  BY <1>2 DEF HasAll
<1>200. DOMAIN c1 \cap DOMAIN ComputerEntries = {}
  BY <1>100, Domains
<1>201. DOMAIN c2 = DOMAIN c1 \cup DOMAIN ComputerEntries
  BY <1>2, MergeHasAll, Zenon
<1>202. DOMAIN c2 = DOMAIN BusinessEntries \cup DOMAIN ComputerEntries
  BY <1>100, <1>201
<1>203. HasAll(c2, c1) /\ HasAll(c2, ComputerEntries)
  BY <1>2, <1>200, MergeHasAll, Zenon
<1>300. DOMAIN c2 \cap DOMAIN DatetimeEntries = {}
  BY <1>202, Domains
<1>301. DOMAIN c3 = DOMAIN c2 \cup DOMAIN DatetimeEntries
  BY <1>2, MergeHasAll, Zenon
<1>302. DOMAIN c3 = DOMAIN BusinessEntries \cup DOMAIN ComputerEntries
                    \cup DOMAIN DatetimeEntries
  BY <1>202, <1>301
<1>303. HasAll(c3, c2) /\ HasAll(c3, DatetimeEntries)
  BY <1>2, <1>300, MergeHasAll, Zenon
<1>400. DOMAIN c3 \cap DOMAIN LocationEntries = {}
  BY <1>302, Domains
<1>400a. c4 = c3 ++ LocationEntries
  BY <1>2
<1>401. DOMAIN c4 = DOMAIN c3 \cup DOMAIN LocationEntries
  BY <1>400a, MergeHasAll, Zenon
<1>402. DOMAIN c4 = DOMAIN BusinessEntries \cup DOMAIN ComputerEntries
                    \cup DOMAIN DatetimeEntries \cup DOMAIN LocationEntries
  BY <1>302, <1>401
<1>403. HasAll(c4, c3) /\ HasAll(c4, LocationEntries)
  BY <1>2, <1>400, MergeHasAll, Zenon
<1>500. DOMAIN c4 \cap DOMAIN NumberEntries = {}
  BY <1>402, Domains
<1>500a. c5 = c4 ++ NumberEntries
  BY <1>2
<1>501. DOMAIN c5 = DOMAIN c4 \cup DOMAIN NumberEntries
  BY <1>500a, MergeHasAll, Zenon
<1>502. DOMAIN c5 = DOMAIN BusinessEntries \cup DOMAIN ComputerEntries
                    \cup DOMAIN DatetimeEntries \cup DOMAIN LocationEntries
                    \cup DOMAIN NumberEntries
  BY <1>402, <1>501
<1>503. HasAll(c5, c4) /\ HasAll(c5, NumberEntries)
  BY <1>2, <1>500, MergeHasAll, Zenon
<1>600. DOMAIN c5 \cap DOMAIN PaymentEntries = {}
  BY <1>502, Domains
<1>600a. c6 = c5 ++ PaymentEntries
  BY <1>2
<1>601. DOMAIN c6 = DOMAIN c5 \cup DOMAIN PaymentEntries
  BY <1>600a, MergeHasAll, Zenon
<1>602. DOMAIN c6 = DOMAIN BusinessEntries \cup DOMAIN ComputerEntries
                    \cup DOMAIN DatetimeEntries \cup DOMAIN LocationEntries
                    \cup DOMAIN NumberEntries \cup DOMAIN PaymentEntries
  BY <1>502, <1>601
<1>603. HasAll(c6, c5) /\ HasAll(c6, PaymentEntries)
  BY <1>2, <1>600, MergeHasAll, Zenon
<1>700. DOMAIN c6 \cap DOMAIN PersonEntries = {}
  BY <1>602, Domains
<1>700a. c7 = c6 ++ PersonEntries
  BY <1>2
<1>701. DOMAIN c7 = DOMAIN c6 \cup DOMAIN PersonEntries
  BY <1>700a, MergeHasAll, Zenon
<1>702. DOMAIN c7 = DOMAIN BusinessEntries \cup DOMAIN ComputerEntries
                    \cup DOMAIN DatetimeEntries \cup DOMAIN LocationEntries
                    \cup DOMAIN NumberEntries \cup DOMAIN PaymentEntries
                    \cup DOMAIN PersonEntries
  BY <1>602, <1>701
<1>703. HasAll(c7, c6) /\ HasAll(c7, PersonEntries)
  BY <1>2, <1>700, MergeHasAll, Zenon
<1>800. DOMAIN c7 \cap DOMAIN ProductEntries = {}
  BY <1>702, Domains
<1>800a. c8 = c7 ++ ProductEntries
  BY <1>2
<1>801. DOMAIN c8 = DOMAIN c7 \cup DOMAIN ProductEntries
  BY <1>800a, MergeHasAll, Zenon
<1>802. DOMAIN c8 = DOMAIN BusinessEntries \cup DOMAIN ComputerEntries
                    \cup DOMAIN DatetimeEntries \cup DOMAIN LocationEntries
                    \cup DOMAIN NumberEntries \cup DOMAIN PaymentEntries
                    \cup DOMAIN PersonEntries \cup DOMAIN ProductEntries
  BY <1>702, <1>801
<1>803. HasAll(c8, c7) /\ HasAll(c8, ProductEntries)
  BY <1>2, <1>800, MergeHasAll, Zenon
<1>900. DOMAIN c8 \cap DOMAIN StringEntries = {}
  BY <1>802, Domains
<1>900a. c9 = c8 ++ StringEntries
  BY <1>2
<1>901. DOMAIN c9 = DOMAIN c8 \cup DOMAIN StringEntries
  BY <1>900a, MergeHasAll, Zenon
<1>902. DOMAIN c9 = DOMAIN BusinessEntries \cup DOMAIN ComputerEntries
                    \cup DOMAIN DatetimeEntries \cup DOMAIN LocationEntries
                    \cup DOMAIN NumberEntries \cup DOMAIN PaymentEntries
                    \cup DOMAIN PersonEntries \cup DOMAIN ProductEntries
                    \cup DOMAIN StringEntries
  BY <1>802, <1>901
<1>903. HasAll(c9, c8) /\ HasAll(c9, StringEntries)
  BY <1>2, <1>900, MergeHasAll, Zenon
<1>1000. DOMAIN c9 \cap DOMAIN UtilityEntries = {}
  BY <1>902, Domains
<1>1000a. c10 = c9 ++ UtilityEntries
  BY <1>2
<1>1001. DOMAIN c10 = DOMAIN c9 \cup DOMAIN UtilityEntries
  BY <1>1000a, MergeHasAll, Zenon
<1>1002. DOMAIN c10 = DOMAIN BusinessEntries \cup DOMAIN ComputerEntries
                    \cup DOMAIN DatetimeEntries \cup DOMAIN LocationEntries
                    \cup DOMAIN NumberEntries \cup DOMAIN PaymentEntries
                    \cup DOMAIN PersonEntries \cup DOMAIN ProductEntries
                    \cup DOMAIN StringEntries \cup DOMAIN UtilityEntries
  BY <1>902, <1>1001
<1>1003. HasAll(c10, c9) /\ HasAll(c10, UtilityEntries)
  BY <1>2, <1>1000, MergeHasAll, Zenon
<1>211. HasAll(c2, BusinessEntries)
  BY <1>203, <1>100, HasAllOf, Zenon
<1>311. HasAll(c3, BusinessEntries)
  BY <1>303, <1>211, HasAllOf, Zenon
<1>411. HasAll(c4, BusinessEntries)
  BY <1>403, <1>311, HasAllOf, Zenon
<1>511. HasAll(c5, BusinessEntries)
  BY <1>503, <1>411, HasAllOf, Zenon
<1>611. HasAll(c6, BusinessEntries)
  BY <1>603, <1>511, HasAllOf, Zenon
<1>711. HasAll(c7, BusinessEntries)
  BY <1>703, <1>611, HasAllOf, Zenon
<1>811. HasAll(c8, BusinessEntries)
  BY <1>803, <1>711, HasAllOf, Zenon
<1>911. HasAll(c9, BusinessEntries)
  BY <1>903, <1>811, HasAllOf, Zenon
<1>1011. HasAll(c10, BusinessEntries)
  BY <1>1003, <1>911, HasAllOf, Zenon
<1>312. HasAll(c3, ComputerEntries)
  BY <1>303, <1>203, HasAllOf, Zenon
<1>412. HasAll(c4, ComputerEntries)
  BY <1>403, <1>312, HasAllOf, Zenon
<1>512. HasAll(c5, ComputerEntries)
  BY <1>503, <1>412, HasAllOf, Zenon
<1>612. HasAll(c6, ComputerEntries)
  BY <1>603, <1>512, HasAllOf, Zenon
<1>712. HasAll(c7, ComputerEntries)
  BY <1>703, <1>612, HasAllOf, Zenon
<1>812. HasAll(c8, ComputerEntries)
  BY <1>803, <1>712, HasAllOf, Zenon
<1>912. HasAll(c9, ComputerEntries)
  BY <1>903, <1>812, HasAllOf, Zenon
<1>1012. HasAll(c10, ComputerEntries)
  BY <1>1003, <1>912, HasAllOf, Zenon
<1>413. HasAll(c4, DatetimeEntries)
  BY <1>403, <1>303, HasAllOf, Zenon
<1>513. HasAll(c5, DatetimeEntries)
  BY <1>503, <1>413, HasAllOf, Zenon
<1>613. HasAll(c6, DatetimeEntries)
  BY <1>603, <1>513, HasAllOf, Zenon
<1>713. HasAll(c7, DatetimeEntries)
  BY <1>703, <1>613, HasAllOf, Zenon
<1>813. HasAll(c8, DatetimeEntries)
  BY <1>803, <1>713, HasAllOf, Zenon
<1>913. HasAll(c9, DatetimeEntries)
  BY <1>903, <1>813, HasAllOf, Zenon
<1>1013. HasAll(c10, DatetimeEntries)
  BY <1>1003, <1>913, HasAllOf, Zenon
<1>514. HasAll(c5, LocationEntries)
  BY <1>503, <1>403, HasAllOf, Zenon
<1>614. HasAll(c6, LocationEntries)
  BY <1>603, <1>514, HasAllOf, Zenon
<1>714. HasAll(c7, LocationEntries)
  BY <1>703, <1>614, HasAllOf, Zenon
<1>814. HasAll(c8, LocationEntries)
  BY <1>803, <1>714, HasAllOf, Zenon
<1>914. HasAll(c9, LocationEntries)
  BY <1>903, <1>814, HasAllOf, Zenon
<1>1014. HasAll(c10, LocationEntries)
  BY <1>1003, <1>914, HasAllOf, Zenon
<1>615. HasAll(c6, NumberEntries)
  BY <1>603, <1>503, HasAllOf, Zenon
<1>715. HasAll(c7, NumberEntries)
  BY <1>703, <1>615, HasAllOf, Zenon
<1>815. HasAll(c8, NumberEntries)
  BY <1>803, <1>715, HasAllOf, Zenon
<1>915. HasAll(c9, NumberEntries)
  BY <1>903, <1>815, HasAllOf, Zenon
<1>1015. HasAll(c10, NumberEntries)
  BY <1>1003, <1>915, HasAllOf, Zenon
<1>716. HasAll(c7, PaymentEntries)
  BY <1>703, <1>603, HasAllOf, Zenon
<1>816. HasAll(c8, PaymentEntries)
  BY <1>803, <1>716, HasAllOf, Zenon
<1>916. HasAll(c9, PaymentEntries)
  BY <1>903, <1>816, HasAllOf, Zenon
<1>1016. HasAll(c10, PaymentEntries)
  BY <1>1003, <1>916, HasAllOf, Zenon
<1>817. HasAll(c8, PersonEntries)
  BY <1>803, <1>703, HasAllOf, Zenon
<1>917. HasAll(c9, PersonEntries)
  BY <1>903, <1>817, HasAllOf, Zenon
<1>1017. HasAll(c10, PersonEntries)
  BY <1>1003, <1>917, HasAllOf, Zenon
<1>918. HasAll(c9, ProductEntries)
  BY <1>903, <1>803, HasAllOf, Zenon
<1>1018. HasAll(c10, ProductEntries)
  BY <1>1003, <1>918, HasAllOf, Zenon
<1>1019. HasAll(c10, StringEntries)
  BY <1>1003, <1>903, HasAllOf, Zenon
<1>3. DOMAIN Catalog = DOMAIN BusinessEntries \cup DOMAIN ComputerEntries
                    \cup DOMAIN DatetimeEntries \cup DOMAIN LocationEntries
                    \cup DOMAIN NumberEntries \cup DOMAIN PaymentEntries
                    \cup DOMAIN PersonEntries \cup DOMAIN ProductEntries
                    \cup DOMAIN StringEntries \cup DOMAIN UtilityEntries
  BY <1>1, <1>1002
<1>4. /\ HasAll(Catalog, BusinessEntries)
      /\ HasAll(Catalog, ComputerEntries)
      /\ HasAll(Catalog, DatetimeEntries)
      /\ HasAll(Catalog, LocationEntries)
      /\ HasAll(Catalog, NumberEntries)
      /\ HasAll(Catalog, PaymentEntries)
      /\ HasAll(Catalog, PersonEntries)
      /\ HasAll(Catalog, ProductEntries)
      /\ HasAll(Catalog, StringEntries)
      /\ HasAll(Catalog, UtilityEntries)
  BY <1>1, <1>1011, <1>1012, <1>1013, <1>1014, <1>1015, <1>1016, <1>1017, <1>1018, <1>1019, <1>1003, Zenon
<1> QED BY <1>3, <1>4 DEF Generators

(***************************************************************************)
(* What init infers for a column.                                          *)
(***************************************************************************)
LEMMA LargestIsNatural ==
    ASSUME NEW digits \in Nat
    PROVE  Largest(digits) \in Nat
<1> DEFINE Solution(f) == f = [n \in 0 .. digits |-> IF n = 0 THEN 1 ELSE 10 * f[n - 1]]
           power == CHOOSE f : Solution(f)
           step == [x \in (1 .. digits) \X (Nat \ {0}) |-> 10 * x[2]]
<1>1. \E f : Solution(f)
  <2>1. \A n \in 1 .. digits, x \in Nat \ {0} : step[<<n, x>>] = 10 * x /\ 10 * x \in Nat \ {0}
    OBVIOUS
  <2>2. 1 \in Nat \ {0}
    OBVIOUS
  <2> HIDE DEF step
  <2>3. \E f \in [0 .. digits -> Nat \ {0}] :
            f = [n \in 0 .. digits |-> IF n = 0 THEN 1 ELSE step[<<n, f[n - 1]>>]]
    <3>1. \A n \in 1 .. digits, x \in Nat \ {0} : step[<<n, x>>] \in Nat \ {0}
      BY <2>1
    <3> DEFINE S == Nat \ {0}
    <3>2. 1 \in S /\ \A n \in 1 .. digits, x \in S : step[<<n, x>>] \in S
      BY <2>2, <3>1
    <3> HIDE DEF S
    <3>3. \E f \in [0 .. digits -> S] : Recursive(f, digits, 1, step)
      BY <3>2, Recursion, Zenon
    <3> QED BY <3>3 DEF S, Recursive
  <2>4. PICK f \in [0 .. digits -> Nat \ {0}] :
            f = [n \in 0 .. digits |-> IF n = 0 THEN 1 ELSE step[<<n, f[n - 1]>>]]
    BY <2>3
  <2>5. ASSUME NEW n \in 0 .. digits
        PROVE  (IF n = 0 THEN 1 ELSE step[<<n, f[n - 1]>>]) = IF n = 0 THEN 1 ELSE 10 * f[n - 1]
    <3>1. n # 0 => n \in 1 .. digits /\ f[n - 1] \in Nat \ {0}
      OBVIOUS
    <3> QED BY <2>1, <3>1
  <2>6. Solution(f)
    BY <2>4, <2>5
  <2> QED BY <2>6
<1>2. Solution(power)
  BY <1>1
<1>3. /\ power[0] = 1 /\ \A n \in 1 .. digits : power[n] = 10 * power[n - 1]
  <2> HIDE DEF power
  <2> QED BY <1>2
<1>4. Largest(digits) = power[digits] - 1
  BY DEF Largest
<1> HIDE DEF power
<1> DEFINE T == {n \in 0 .. digits : power[n] \in Nat \ {0}}
<1>5. 0 \in T
  BY <1>3
<1>6. ASSUME NEW n \in 1 .. digits, n - 1 \in T
      PROVE  n \in T
  BY <1>3, <1>6
<1>7. 0 .. digits \subseteq T
  <2> HIDE DEF T
  <2> QED BY <1>5, <1>6, UpTo
<1> QED BY <1>4, <1>7

(* The catalog has the generators of the types.                            *)
LEMMA InferredAreKnown ==
    ASSUME NEW column, IsColumn(column)
    PROVE  InferredGenerators(column) \subseteq Generators
<1>1. TypeGenerator(column) \in
         {"integer", "decimal", "date", "time", "datetime", "enum_item", "boolean", "text"}
  BY DEF TypeGenerator
<1>2. {"integer", "decimal", "date", "time", "datetime", "enum_item", "boolean", "text"}
         \subseteq Generators
  BY WholeCatalog, Domains
<1>3. NamedGenerators(column) \subseteq Generators
  BY DEF NamedGenerators, BestScores, IsColumn, NoMatch
<1> QED BY <1>1, <1>2, <1>3 DEF InferredGenerators

(* A template of one or of two members.                                    *)
LEMMA NoTemplate ==
    ASSUME NEW g
    PROVE  TemplateFits(g, <<>>)
<1>1. DOMAIN <<>> = {} /\ <<>> = [p \in DOMAIN <<>> |-> <<>>[p]]
  OBVIOUS
<1> QED BY <1>1 DEF TemplateFits

LEMMA LimitFits ==
    ASSUME NEW g \in {"integer", "sequence"}, NEW digits \in Nat, NEW p \in Nat
    PROVE  Fit(g, "end", Whole(Largest(Min({digits, p}))))
<1> DEFINE least == Min({digits, p})
<1>1. least \in Nat
  <2>1. \E x \in {digits, p} : \A y \in {digits, p} : x <= y
    OBVIOUS
  <2> QED BY <2>1 DEF Min
<1> HIDE DEF least
<1>2. Largest(least) \in Int
  BY <1>1, LargestIsNatural
<1>3. "end" \in NumberParams /\ <<g, "end">> \in IntParams \cup WideParams
  BY DEF NumberParams, IntParams, WideParams
<1> QED BY <1>2, <1>3, OtherNumbers DEF least

LEMMA LeastOfTwo ==
    ASSUME NEW a \in Int, NEW b \in Int
    PROVE  /\ Min({a, b}) = (IF a <= b THEN a ELSE b)
           /\ Max({a, b}) = (IF a <= b THEN b ELSE a)
<1>1. \E x \in {a, b} : \A y \in {a, b} : x <= y
  OBVIOUS
<1>2. \E x \in {a, b} : \A y \in {a, b} : x >= y
  OBVIOUS
<1> QED BY <1>1, <1>2 DEF Min, Max

(* The items of an enumeration that a column has, or of one it has not.    *)
LEMMA EnumItemsShape ==
    ASSUME NEW column, IsColumn(column)
    PROVE  /\ EnumItems(column) # <<>> /\ "" \notin ToSet(EnumItems(column))
           /\ DOMAIN EnumItems(column) = 1 .. Len(EnumItems(column))
<1>1. CASE column.enum_values # <<>>
  BY <1>1 DEF EnumItems, IsColumn
<1>2. CASE column.enum_values = <<>>
  <2>1. EnumItems(column) \in {<<"1", "0">>, <<"true", "false">>}
    BY <1>2 DEF EnumItems
  <2>2. IsListOf(<<"1", "0">>, {"1", "0"}) /\ IsListOf(<<"true", "false">>, {"true", "false"})
    BY ListsOf
  <2>3. "" \notin {"1", "0"} /\ "" \notin {"true", "false"}
    OBVIOUS
  <2> HIDE DEF ToSet
  <2>4. CASE EnumItems(column) = <<"1", "0">>
    BY <2>2, <2>3, <2>4, Zenon DEF IsListOf
  <2>5. CASE EnumItems(column) = <<"true", "false">>
    BY <2>2, <2>3, <2>5, Zenon DEF IsListOf
  <2> QED BY <2>1, <2>4, <2>5
<1> QED BY <1>1, <1>2

LEMMA ColumnNumbers ==
    ASSUME NEW column, IsColumn(column)
    PROVE  /\ column.numeric_precision \in Nat \cup {NoNumber}
           /\ column.character_length \in Nat \cup {NoNumber}
           /\ column.numeric_scale \in Int /\ NoNumber \in Int /\ NoNumber \notin Nat
<1>1. {column.character_length, column.numeric_precision} \subseteq Nat \cup {NoNumber}
  BY Zenon DEF IsColumn
<1>2. column.numeric_scale \in Int
  BY Zenon DEF IsColumn
<1> QED BY <1>1, <1>2 DEF NoNumber

LEMMA NumbersAdjusted ==
    ASSUME NEW column, IsColumn(column), NEW g \in {"integer", "sequence", "decimal"}
    PROVE  TemplateFits(g, Adjustments(column, g))
<1> DEFINE p == column.numeric_precision
           end(digits) == [end |-> Whole(Largest(Min({digits, p})))]
           start == [start |-> Whole(0)]
           realStart == [start |-> Real(0)]
<1>0. p \in Nat \cup {NoNumber} /\ column.numeric_scale \in Int /\ NoNumber \notin Nat
  BY ColumnNumbers
<1>1. ASSUME NEW digits \in Nat, p # NoNumber, g # "decimal"
      PROVE  TemplateFits(g, end(digits))
  <2> DEFINE v == Whole(Largest(Min({digits, p})))
  <2>1. Fit(g, "end", v)
    BY <1>0, <1>1, LimitFits
  <2>2. end(digits) = [end |-> v]
    OBVIOUS
  <2> HIDE DEF v, end
  <2> QED BY <2>1, <2>2 DEF TemplateFits
<1>2. IntDigits \in Nat /\ LongDigits \in Nat
  BY DigitsAssumption
<1>3. TemplateFits(g, <<>>)
  BY NoTemplate
<1>4. CASE g = "integer"
  <2> DEFINE a == IF column.unsigned_number THEN start ELSE <<>>
             b == IF p # NoNumber THEN end(IntDigits) ELSE <<>>
  <2>1. Adjustments(column, g) = a ++ b
    BY <1>4 DEF Adjustments
  <2>2. TemplateFits(g, start)
    <3>0. "start" \in NumberParams /\ <<g, "start">> \in IntParams \cup WideParams /\ 0 \in Int
      BY <1>4 DEF NumberParams, IntParams
    <3>1. Fit(g, "start", Whole(0))
      BY <3>0, OtherNumbers
    <3> QED BY <3>1 DEF TemplateFits
  <2> HIDE DEF start, end
  <2>3. TemplateFits(g, a) /\ TemplateFits(g, b)
    BY <1>1, <1>2, <1>3, <1>4, <2>2
  <2> HIDE DEF a, b
  <2> QED BY <2>1, <2>3, TemplatesMerge
<1>5. CASE g = "sequence"
  <2> DEFINE a == IF p # NoNumber THEN end(LongDigits) ELSE <<>>
             no == Flag(FALSE)
             b == [circle |-> no]
  <2>1. Adjustments(column, g) = a ++ b
    BY <1>5 DEF Adjustments
  <2>2. Fit(g, "circle", no)
    BY OtherValues DEF Flags
  <2> HIDE DEF end, no
  <2>3. TemplateFits(g, a)
    BY <1>1, <1>2, <1>3, <1>5
  <2>4. TemplateFits(g, b)
    BY <2>2 DEF TemplateFits
  <2> HIDE DEF a, b
  <2> QED BY <2>1, <2>3, <2>4, TemplatesMerge
<1>6. CASE g = "decimal"
  <2> DEFINE n == IF column.numeric_scale = NoNumber THEN 2 ELSE Max({0, column.numeric_scale})
             a == [decimal_places |-> Whole(n)]
             b == IF column.unsigned_number THEN realStart ELSE <<>>
  <2>1. Adjustments(column, g) = a ++ b
    BY <1>6 DEF Adjustments
  <2>2. n \in Int
    <3> DEFINE scale == column.numeric_scale
    <3>1. scale \in Int
      BY <1>0
    <3> HIDE DEF scale
    <3> DEFINE most == Max({0, scale})
    <3>2. most = IF 0 <= scale THEN scale ELSE 0
      BY <3>1, LeastOfTwo
    <3> HIDE DEF most
    <3>3. most \in Int
      BY <3>1, <3>2
    <3> QED BY <3>3 DEF scale, most
  <2> HIDE DEF n
  <2>3. TemplateFits(g, a)
    <3>1. Fit(g, "decimal_places", Whole(n))
      BY <1>6, <2>2, OtherNumbers DEF NumberParams, IntParams
    <3> QED BY <3>1 DEF TemplateFits
  <2>4. TemplateFits(g, realStart)
    <3>0. "start" \in NumberParams /\ <<g, "start">> \in IntParams \cup WideParams /\ 0 \in Int
      BY <1>6 DEF NumberParams, WideParams
    <3>1. Fit(g, "start", Real(0))
      BY <3>0, OtherNumbers
    <3> QED BY <3>1 DEF TemplateFits
  <2> HIDE DEF realStart
  <2>5. TemplateFits(g, b)
    BY <1>3, <2>4
  <2> HIDE DEF a, b
  <2> QED BY <2>1, <2>3, <2>5, TemplatesMerge
<1> QED BY <1>4, <1>5, <1>6

LEMMA AdjustmentsFit ==
    ASSUME NEW column, IsColumn(column), NEW g
    PROVE  TemplateFits(g, Adjustments(column, g))
<1>1. CASE g \in {"integer", "sequence", "decimal"}
  BY <1>1, NumbersAdjusted
<1>2. CASE g = "text" /\ column.character_length # NoNumber
  <2> DEFINE length == Max({1, column.character_length})
             least == Min({16, length})
             v == Whole(least)
             w == Whole(length)
  <2>1. Adjustments(column, g) = [number_of_chars_start |-> v, number_of_chars_end |-> w]
    BY <1>2 DEF Adjustments
  <2>2. length \in Int
    <3> DEFINE n == column.character_length
    <3>1. n \in Int
      BY <1>2, ColumnNumbers
    <3> HIDE DEF n
    <3> DEFINE most == Max({1, n})
    <3>2. most = IF 1 <= n THEN n ELSE 1
      BY <3>1, LeastOfTwo
    <3> HIDE DEF most
    <3>3. most \in Int
      BY <3>1, <3>2
    <3> QED BY <3>3 DEF n, most
  <2>3. least \in Int
    <3> HIDE DEF length
    <3> QED BY <2>2, LeastOfTwo
  <2> HIDE DEF length, least
  <2>4. Fit(g, "number_of_chars_start", v) /\ Fit(g, "number_of_chars_end", w)
    BY <1>2, <2>2, <2>3, OtherNumbers DEF NumberParams, IntParams
  <2> HIDE DEF v, w
  <2> QED BY <2>1, <2>4 DEF TemplateFits
<1>3. CASE g = "enum_item"
  <2> DEFINE v == Strings(EnumItems(column))
  <2>1. Adjustments(column, g) = [enums |-> v]
    BY <1>3 DEF Adjustments
  <2>2. ParamFits(g, "enums", v)
    <3> DEFINE items == EnumItems(column)
    <3>1. items # <<>> /\ "" \notin ToSet(items) /\ DOMAIN items = 1 .. Len(items)
      BY EnumItemsShape
    <3> HIDE DEF items
    <3>2. "enums" \in StringLists
      BY DEF StringLists
    <3>3. ParamFits(g, "enums", Strings(items))
      BY <3>1, <3>2, StringsFit
    <3> QED BY <3>3 DEF items
  <2>3. Standard("enums", v)
    BY NotMerged DEF OptionList
  <2> HIDE DEF v
  <2> QED BY <2>1, <2>2, <2>3 DEF TemplateFits, Fit
<1>4. CASE /\ g \notin {"integer", "sequence", "decimal", "enum_item"}
           /\ ~(g = "text" /\ column.character_length # NoNumber)
  <2>1. Adjustments(column, g) = <<>>
    BY <1>4 DEF Adjustments
  <2> QED BY <2>1, NoTemplate
<1> QED BY <1>1, <1>2, <1>3, <1>4

(* The entries of the generators that init adjusts or puts in a template.  *)
LEMMA SomeEntries ==
    /\ ConfigParams("integer") = {"start", "end"}
    /\ ConfigParams("decimal") = {"start", "end", "decimal_places"}
    /\ ConfigParams("sequence") = {"start", "end", "step", "circle"}
    /\ ConfigParams("text") = {"number_of_chars_start", "number_of_chars_end"}
    /\ ConfigParams("enum_item") = {"enums"}
    /\ ConfigParams("email") = {"languages", "domains"}
    /\ Catalog["company_name"].config_template = Translated
    /\ Catalog["industry"].config_template = EnglishOnly
    /\ Catalog["url"].config_template = Sites /\ Catalog["hostname"].config_template = Sites
    /\ Catalog["boolean"].config_template = [true_percentage |-> Whole(50)]
    /\ Catalog["sequence"].config_template["step"] = Whole(1)
    /\ ConfigParams("regular_expression") = {"pattern"}
<1>1. /\ Catalog["integer"] = NumberEntries["integer"]
      /\ Catalog["decimal"] = NumberEntries["decimal"]
  BY WholeCatalog, Domains DEF HasAll
<1>2. /\ Catalog["text"] = StringEntries["text"]
      /\ Catalog["enum_item"] = StringEntries["enum_item"]
  BY WholeCatalog, Domains DEF HasAll
<1>3. /\ Catalog["sequence"] = UtilityEntries["sequence"]
      /\ Catalog["boolean"] = UtilityEntries["boolean"]
      /\ Catalog["regular_expression"] = UtilityEntries["regular_expression"]
  BY WholeCatalog, Domains DEF HasAll
<1>4. Catalog["email"] = PersonEntries["email"]
  BY WholeCatalog, Domains DEF HasAll
<1>5. /\ Catalog["company_name"] = BusinessEntries["company_name"]
      /\ Catalog["industry"] = BusinessEntries["industry"]
  BY WholeCatalog, Domains DEF HasAll
<1>6. /\ Catalog["url"] = ComputerEntries["url"]
      /\ Catalog["hostname"] = ComputerEntries["hostname"]
  BY WholeCatalog, Domains DEF HasAll
<1>7. /\ ConfigParams("integer") = {"start", "end"}
      /\ ConfigParams("decimal") = {"start", "end", "decimal_places"}
  BY <1>1 DEF NumberEntries, Entry, ConfigParams
<1>8. /\ ConfigParams("text") = {"number_of_chars_start", "number_of_chars_end"}
      /\ ConfigParams("enum_item") = {"enums"}
  BY <1>2 DEF StringEntries, Entry, ConfigParams
<1>9. /\ ConfigParams("sequence") = {"start", "end", "step", "circle"}
      /\ Catalog["sequence"].config_template["step"] = Whole(1)
      /\ ConfigParams("regular_expression") = {"pattern"}
      /\ Catalog["boolean"].config_template = [true_percentage |-> Whole(50)]
  <2> DEFINE yes == Flag(TRUE)
             template == [start |-> Whole(1), end |-> Whole(100), step |-> Whole(1), circle |-> yes]
  <2>1. UtilityEntries["sequence"] = Entry(template, FALSE, FALSE)
    BY DEF UtilityEntries
  <2> HIDE DEF yes
  <2>2. UtilityEntries["regular_expression"].config_template
           = [pattern |-> Text("ORD-[A-Z]{3}-\\d{4}")]
        /\ UtilityEntries["boolean"].config_template = [true_percentage |-> Whole(50)]
    BY DEF UtilityEntries, Entry
  <2>3. UtilityEntries["sequence"].config_template = template
    BY <2>1 DEF Entry
  <2>4. DOMAIN template = {"start", "end", "step", "circle"} /\ template["step"] = Whole(1)
    OBVIOUS
  <2>5. DOMAIN [pattern |-> Text("ORD-[A-Z]{3}-\\d{4}")] = {"pattern"}
    OBVIOUS
  <2> HIDE DEF template
  <2>6. /\ ConfigParams("sequence") = {"start", "end", "step", "circle"}
        /\ Catalog["sequence"].config_template["step"] = Whole(1)
    BY <1>3, <2>3, <2>4, Zenon DEF ConfigParams
  <2>7. ConfigParams("regular_expression") = {"pattern"}
    BY <1>3, <2>2, <2>5, Zenon DEF ConfigParams
  <2>8. Catalog["boolean"].config_template = [true_percentage |-> Whole(50)]
    BY <1>3, <2>2, Zenon
  <2> QED BY <2>6, <2>7, <2>8
<1>10. ConfigParams("email") = {"languages", "domains"}
  BY <1>4 DEF PersonEntries, Entry, ConfigParams
<1>11. /\ Catalog["company_name"].config_template = Translated
       /\ Catalog["industry"].config_template = EnglishOnly
  BY <1>5 DEF BusinessEntries, Entry
<1>12. Catalog["url"].config_template = Sites /\ Catalog["hostname"].config_template = Sites
  BY <1>6 DEF ComputerEntries, Entry
<1> QED BY <1>7, <1>8, <1>9, <1>10, <1>11, <1>12

(* A configuration that the schema and the constructors have nothing       *)
(* against.                                                                *)
InRange(g, config) ==
    /\ g = "boolean" => config["true_percentage"].num \in 0 .. 100
    /\ g = "sequence" => config["step"].num # 0
    /\ g = "regular_expression" => config["pattern"].text \notin MalformedPatterns
AllFit(g, config) == \A p \in DOMAIN config : ParamFits(g, p, config[p])
Usable(g, config) ==
    /\ AreMembers(config) /\ DOMAIN config = ConfigParams(g)
    /\ AllFit(g, config) /\ InRange(g, config)

LEMMA AdjustedKeys ==
    ASSUME NEW column, NEW g
    PROVE  DOMAIN Adjustments(column, g) \subseteq ConfigParams(g)
<1>1. CASE g = "integer"
  <2>1. DOMAIN Adjustments(column, g) \subseteq {"start", "end"}
    BY <1>1 DEF Adjustments, ++
  <2> QED BY <1>1, <2>1, SomeEntries
<1>2. CASE g = "sequence"
  <2> DEFINE no == Flag(FALSE)
             limit == Whole(Largest(Min({LongDigits, column.numeric_precision})))
             a == IF column.numeric_precision # NoNumber THEN [end |-> limit] ELSE <<>>
             b == [circle |-> no]
  <2>1. Adjustments(column, g) = a ++ b
    BY <1>2 DEF Adjustments
  <2> HIDE DEF no, limit
  <2>2. DOMAIN a \subseteq {"end"} /\ DOMAIN b = {"circle"}
    OBVIOUS
  <2> HIDE DEF a, b
  <2>3. DOMAIN Adjustments(column, g) \subseteq {"end", "circle"}
    BY <2>1, <2>2 DEF ++
  <2> QED BY <1>2, <2>3, SomeEntries
<1>3. CASE g = "decimal"
  <2>1. DOMAIN Adjustments(column, g) \subseteq {"decimal_places", "start"}
    BY <1>3 DEF Adjustments, ++
  <2> QED BY <1>3, <2>1, SomeEntries
<1>4. CASE g = "text" /\ column.character_length # NoNumber
  <2>1. DOMAIN Adjustments(column, g) \subseteq {"number_of_chars_start", "number_of_chars_end"}
    BY <1>4 DEF Adjustments
  <2> QED BY <1>4, <2>1, SomeEntries
<1>5. CASE g = "enum_item"
  <2>1. DOMAIN Adjustments(column, g) \subseteq {"enums"}
    BY <1>5 DEF Adjustments
  <2> QED BY <1>5, <2>1, SomeEntries
<1>6. CASE /\ g \notin {"integer", "sequence", "decimal", "enum_item"}
           /\ ~(g = "text" /\ column.character_length # NoNumber)
  <2>1. Adjustments(column, g) = <<>>
    BY <1>6 DEF Adjustments
  <2> QED BY <2>1
<1> QED BY <1>1, <1>2, <1>3, <1>4, <1>5, <1>6

LEMMA TemplateIsUsable ==
    ASSUME NEW g \in Generators
    PROVE  TemplateFits(g, Catalog[g].config_template) /\ InRange(g, Catalog[g].config_template)
<1>1. TemplateFits(g, Catalog[g].config_template)
  BY CatalogFits DEF EntriesFit, Generators
<1>2. g = "boolean" => Catalog[g].config_template["true_percentage"].num \in 0 .. 100
  <2>1. Catalog["boolean"].config_template["true_percentage"] = Whole(50)
    BY SomeEntries
  <2>2. Whole(50).num = 50
    BY DEF Whole, Value
  <2> QED BY <2>1, <2>2
<1>3. g = "sequence" => Catalog[g].config_template["step"].num # 0
  <2>1. Whole(1).num = 1
    BY DEF Whole, Value
  <2> QED BY <2>1, SomeEntries
<1>4. g = "regular_expression" =>
         Catalog[g].config_template["pattern"].text \notin MalformedPatterns
  BY PatternAssumption
<1> QED BY <1>1, <1>2, <1>3, <1>4 DEF InRange

Configured(column, g) == Adjustments(column, g) ++ Catalog[g].config_template

LEMMA ConfiguredIsUsable ==
    ASSUME NEW column, IsColumn(column), NEW g \in Generators
    PROVE  TemplateFits(g, Configured(column, g)) /\ Usable(g, Configured(column, g))
<1> DEFINE a == Adjustments(column, g)
           t == Catalog[g].config_template
           config == a ++ t
<1>1. TemplateFits(g, a) /\ TemplateFits(g, t) /\ InRange(g, t)
  BY AdjustmentsFit, TemplateIsUsable
<1>2. DOMAIN a \subseteq DOMAIN t
  BY AdjustedKeys DEF ConfigParams
<1>3. g = "boolean" => a = <<>>
  BY DEF Adjustments
<1>4. g = "regular_expression" => a = <<>>
  BY DEF Adjustments
<1>5. g = "sequence" => "step" \notin DOMAIN a
  <2> DEFINE no == Flag(FALSE)
             limit == Whole(Largest(Min({LongDigits, column.numeric_precision})))
             x == IF column.numeric_precision # NoNumber THEN [end |-> limit] ELSE <<>>
             y == [circle |-> no]
  <2>1. g = "sequence" => a = x ++ y
    BY DEF Adjustments
  <2> HIDE DEF no, limit, a
  <2>2. DOMAIN x \subseteq {"end"} /\ DOMAIN y = {"circle"}
    OBVIOUS
  <2> HIDE DEF x, y
  <2> QED BY <2>1, <2>2 DEF ++
<1>6. Configured(column, g) = config
  BY DEF Configured
<1>7. DOMAIN t = ConfigParams(g)
  BY DEF ConfigParams
<1>8. g = "boolean" => "true_percentage" \in DOMAIN t
  BY SomeEntries
<1>9. g = "sequence" => "step" \in DOMAIN t
  BY SomeEntries DEF ConfigParams
<1>10. g = "regular_expression" => "pattern" \in DOMAIN t
  BY SomeEntries DEF ConfigParams
<1>11. config = a ++ t
  OBVIOUS
<1> HIDE DEF a, t, config
<1>12. TemplateFits(g, config)
  BY <1>1, <1>11, TemplatesMerge
<1>13. /\ DOMAIN config = DOMAIN t
       /\ \A k \in DOMAIN t : k \notin DOMAIN a => config[k] = t[k]
  BY <1>2, <1>11 DEF ++
<1>14. a = <<>> => DOMAIN a = {}
  OBVIOUS
<1>15. InRange(g, config)
  BY <1>1, <1>3, <1>4, <1>5, <1>8, <1>9, <1>10, <1>13, <1>14 DEF InRange
<1>16. AreMembers(config) /\ AllFit(g, config)
  BY <1>12, FitsAreMembers DEF TemplateFits, Fit, AllFit
<1> QED BY <1>6, <1>7, <1>12, <1>13, <1>15, <1>16 DEF Usable

(***************************************************************************)
(* A field that init makes is one that the schema admits and of which a    *)
(* generator can be constructed.                                           *)
(***************************************************************************)
MadeKeys(g) ==
    {"name", "generator", "config", "null_value", "default_value"}
    \cup (IF Catalog[g].supports_unique THEN {"unique"} ELSE {})
    \cup (IF Catalog[g].supports_data_linkage THEN {"group"} ELSE {})

LEMMA OneOrTwo ==
    ASSUME NEW a, NEW b, NEW c, NEW d
    PROVE  /\ <<a>> # <<>> /\ <<a>> # <<c, d>> /\ <<a, b>> # <<>>
           /\ <<a>> = <<b>> <=> a = b
           /\ <<a, b>> = <<c, d>> <=> a = c /\ b = d
<1>1. Len(<<a>>) = 1 /\ Len(<<c, d>>) = 2 /\ Len(<<>>) = 0
  OBVIOUS
<1>2. <<a>> # <<>> /\ <<a>> # <<c, d>> /\ <<a, b>> # <<>>
  BY <1>1
<1> QED BY <1>2

HasKeys(field, g, config) ==
    Keys(field, <<>>) = MadeKeys(g) /\ Keys(field, ConfigPath) = DOMAIN config

LEMMA KeysMade ==
    ASSUME NEW name, NEW g, NEW config, AreMembers(config), NEW unique, NEW nth,
           NEW field, field = MadeField(name, g, config, unique, nth)
    PROVE  HasKeys(field, g, config)
<1>1. IsTree(field) /\ DOMAIN field = FieldPaths(g, config)
  <2>1. IsTree(field)
    BY MadeFieldShape, Zenon
  <2>2. HasPaths(field, g, config)
    BY MadeFieldShape, Zenon
  <2> QED BY <2>1, <2>2 DEF HasPaths
<1>2. ASSUME NEW k
      PROVE  k \in Keys(field, <<>>) <=> k \in MadeKeys(g)
  <2>1. k \in Keys(field, <<>>) <=> <<k>> \in FieldPaths(g, config)
    BY <1>1, TopKeys DEF Has
  <2>2. <<k>> \in BasicPaths <=> k \in {"name", "generator", "config"}
    BY OneOrTwo DEF BasicPaths, ConfigPath
  <2>3. <<k>> \notin ConfigPaths(config)
    BY OneOrTwo DEF ConfigPaths
  <2>4. <<k>> \in RulePaths <=> k \in {"null_value", "default_value"}
    BY OneOrTwo DEF RulePaths, NullPaths, DefaultPaths
  <2>5. <<k>> \in AttributePaths(g) <=>
           \/ k = "unique" /\ Catalog[g].supports_unique
           \/ k = "group" /\ Catalog[g].supports_data_linkage
    BY OneOrTwo DEF AttributePaths
  <2>6. k \in MadeKeys(g) <=>
           \/ k \in {"name", "generator", "config", "null_value", "default_value"}
           \/ k = "unique" /\ Catalog[g].supports_unique
           \/ k = "group" /\ Catalog[g].supports_data_linkage
    BY DEF MadeKeys
  <2> QED BY <2>1, <2>2, <2>3, <2>4, <2>5, <2>6 DEF FieldPaths
<1>3. ASSUME NEW k
      PROVE  k \in Keys(field, ConfigPath) <=> k \in DOMAIN config
  <2>1. IsPath(ConfigPath) /\ Append(ConfigPath, k) = <<"config", k>>
    BY ShortPaths DEF ConfigPath
  <2>2. k \in Keys(field, ConfigPath) <=> <<"config", k>> \in FieldPaths(g, config)
    BY <1>1, <2>1, KeysOf DEF Has
  <2>3. <<"config", k>> \notin BasicPaths
    BY OneOrTwo DEF BasicPaths, ConfigPath
  <2>4. <<"config", k>> \in ConfigPaths(config) <=> k \in DOMAIN config
    BY OneOrTwo DEF ConfigPaths
  <2>5. <<"config", k>> \notin RulePaths
    BY OneOrTwo DEF RulePaths, NullPaths, DefaultPaths
  <2>6. <<"config", k>> \notin AttributePaths(g)
    BY OneOrTwo DEF AttributePaths
  <2> QED BY <2>2, <2>3, <2>4, <2>5, <2>6 DEF FieldPaths
<1> QED BY <1>2, <1>3 DEF HasKeys

(* Values that match the kinds of the schema.                              *)
LEMMA TextsMatch ==
    ASSUME NEW s
    PROVE  /\ Matches(AnyText, Text(s)) /\ (s # "" => Matches(NonEmpty, Text(s)))
           /\ \A names : s \in names => Matches(OneOf(names), Text(s))
<1>1. Text(s).type = "string" /\ Text(s).text = s
  BY DEF Text, Value
<1>2. Matches(AnyText, Text(s))
  BY <1>1 DEF Matches, AnyText, Kind
<1>3. s # "" => Matches(NonEmpty, Text(s))
  BY <1>1 DEF Matches, NonEmpty, Kind
<1>4. ASSUME NEW names, s \in names
      PROVE  Matches(OneOf(names), Text(s))
  BY <1>1, <1>4 DEF Matches, OneOf, Kind
<1> QED BY <1>2, <1>3, <1>4

LEMMA OthersMatch ==
    /\ Matches(Nested, Object) /\ \A b : Matches(Boolean, Flag(b))
    /\ \A m, n \in Int : n >= m => Matches(AtLeast(m), Whole(n))
<1>1. Object.type = "object" /\ \A b : Flag(b).type = "boolean"
  BY DEF Object, Flag, Value
<1>2. \A n : Whole(n).type = "integer" /\ Whole(n).num = n
  BY DEF Whole, Value
<1> QED BY <1>1, <1>2 DEF Matches, Nested, Boolean, AtLeast, Kind, IsNumber

LEMMA MadeIsAdmitted ==
    ASSUME NEW name, NEW g \in Generators, NEW config, Usable(g, config), NEW unique, NEW nth,
           NEW field, field = MadeField(name, g, config, unique, nth)
    PROVE  FieldAdmitted(field)
<1>1. AreMembers(config)
  BY DEF Usable
<1>2. /\ IsTree(field) /\ HasBasics(field, name, g, config)
      /\ HasAttributes(field, g, unique, nth)
      /\ DOMAIN field = FieldPaths(g, config)
  <2>1. IsTree(field)
    BY <1>1, MadeFieldShape, Zenon
  <2>2. HasBasics(field, name, g, config)
    BY <1>1, MadeFieldShape, Zenon
  <2>3. HasAttributes(field, g, unique, nth)
    BY <1>1, MadeFieldShape, Zenon
  <2>4. HasPaths(field, g, config)
    BY <1>1, MadeFieldShape, Zenon
  <2> QED BY <2>1, <2>2, <2>3, <2>4 DEF HasPaths
<1>3. Keys(field, <<>>) = MadeKeys(g) /\ Keys(field, ConfigPath) = DOMAIN config
  <2>1. HasKeys(field, g, config)
    BY <1>1, KeysMade, Zenon
  <2> QED BY <2>1 DEF HasKeys
<1>4. IsObject(field, <<>>) /\ IsObject(field, ConfigPath)
  BY <1>2, ObjectType DEF HasBasics, IsObject, Has, FieldPaths, BasicPaths
<1>5. HasShape(field, <<>>, FieldShape)
  <2> DEFINE properties == [name |-> AnyText, generator |-> OneOf(Generators), config |-> Nested,
                            unique |-> Boolean, group |-> AnyText, supports_unique |-> Boolean,
                            supports_group |-> Boolean, null_value |-> Nested,
                            default_value |-> Nested]
  <2>1. /\ FieldShape.properties = properties
        /\ FieldShape.required = {"name", "generator", "config"}
    BY DEF FieldShape, Shape
  <2>2. /\ MadeKeys(g) \subseteq DOMAIN FieldShape.properties
        /\ FieldShape.required \subseteq MadeKeys(g)
    BY <2>1 DEF MadeKeys
  <2>3. ASSUME NEW k \in MadeKeys(g)
        PROVE  Matches(FieldShape.properties[k], field[Append(<<>>, k)])
    <3>1. Append(<<>>, k) = <<k>>
      OBVIOUS
    <3>2. k \in {"name", "generator", "config", "null_value", "default_value"}
          \/ (k = "unique" /\ Catalog[g].supports_unique)
          \/ (k = "group" /\ Catalog[g].supports_data_linkage)
      BY DEF MadeKeys
    <3>9. /\ FieldShape.properties["name"] = AnyText
          /\ FieldShape.properties["generator"] = OneOf(Generators)
          /\ FieldShape.properties["config"] = Nested
          /\ FieldShape.properties["null_value"] = Nested
          /\ FieldShape.properties["default_value"] = Nested
          /\ FieldShape.properties["unique"] = Boolean
          /\ FieldShape.properties["group"] = AnyText
      BY <2>1
    <3> HIDE DEF properties
    <3>3. CASE k = "name"
      BY <1>2, <3>1, <3>3, <3>9, TextsMatch, Zenon DEF HasBasics
    <3>4. CASE k = "generator"
      BY <1>2, <3>1, <3>4, <3>9, TextsMatch, Zenon DEF HasBasics
    <3>5. CASE k = "config"
      BY <1>2, <3>1, <3>5, <3>9, OthersMatch, Zenon DEF HasBasics, ConfigPath
    <3>6. CASE k \in {"null_value", "default_value"}
      BY <1>2, <3>1, <3>6, <3>9, OthersMatch DEF HasAttributes, HasRules
    <3>7. CASE k = "unique" /\ Catalog[g].supports_unique
      BY <1>2, <3>1, <3>7, <3>9, OthersMatch, Zenon DEF HasAttributes
    <3>8. CASE k = "group" /\ Catalog[g].supports_data_linkage
      BY <1>2, <3>1, <3>8, <3>9, TextsMatch, Zenon DEF HasAttributes
    <3> QED BY <3>2, <3>3, <3>4, <3>5, <3>6, <3>7, <3>8
  <2> QED BY <1>3, <1>4, <2>2, <2>3 DEF HasShape
<1>6. HasShape(field, ConfigPath, ConfigShape(g))
  <2>1. /\ ConfigShape(g).properties = [p \in ConfigParams(g) |-> ParamKind(p)]
        /\ ConfigShape(g).required \subseteq ConfigParams(g)
    BY DEF ConfigShape, Shape
  <2>2. Keys(field, ConfigPath) = ConfigParams(g)
    BY <1>3 DEF Usable
  <2>3. ASSUME NEW p \in ConfigParams(g)
        PROVE  Matches(ConfigShape(g).properties[p], field[Append(ConfigPath, p)])
    <3>1. Append(ConfigPath, p) = <<"config", p>>
      BY ShortPaths DEF ConfigPath
    <3>2. p \in DOMAIN config /\ field[<<"config", p>>] = config[p]
      BY <1>2 DEF HasBasics, Usable
    <3>3. Matches(ParamKind(p), config[p])
      BY <3>2 DEF Usable, AllFit, ParamFits
    <3> QED BY <2>1, <3>1, <3>2, <3>3
  <2> QED BY <1>4, <2>1, <2>2, <2>3 DEF HasShape
<1>7. Keys(field, <<>>) \cap Restrictions(g) = {}
  BY <1>3 DEF MadeKeys, Restrictions
<1>8. field[<<"generator">>].text = g
  BY <1>2 DEF HasBasics, Text, Value
<1> QED BY <1>5, <1>6, <1>7, <1>8 DEF FieldAdmitted, GeneratorConstraint

LEMMA MadeConstructs ==
    ASSUME NEW name, NEW g \in Generators, NEW config, Usable(g, config), NEW unique, NEW nth,
           NEW field, field = MadeField(name, g, config, unique, nth)
    PROVE  FieldConstructs(field, g)
<1>1. AreMembers(config)
  BY DEF Usable
<1>2. /\ IsTree(field) /\ HasBasics(field, name, g, config)
      /\ HasAttributes(field, g, unique, nth)
      /\ DOMAIN field = FieldPaths(g, config)
  <2>1. IsTree(field)
    BY <1>1, MadeFieldShape, Zenon
  <2>2. HasBasics(field, name, g, config)
    BY <1>1, MadeFieldShape, Zenon
  <2>3. HasAttributes(field, g, unique, nth)
    BY <1>1, MadeFieldShape, Zenon
  <2>4. HasPaths(field, g, config)
    BY <1>1, MadeFieldShape, Zenon
  <2> QED BY <2>1, <2>2, <2>3, <2>4 DEF HasPaths
<1>3. Keys(field, ConfigPath) = ConfigParams(g)
  <2>1. HasKeys(field, g, config)
    BY <1>1, KeysMade, Zenon
  <2> QED BY <2>1 DEF Usable, HasKeys
<1>4. HasRules(field)
  BY <1>2 DEF HasAttributes
<1>5. \A path \in RulePaths : Has(field, path)
  BY <1>2 DEF Has, FieldPaths
<1>6. OverridesParse(field)
  <2>1. Object.type = "object" /\ Flag(FALSE).type = "boolean" /\ Flag(FALSE) # Flag(TRUE)
        /\ Whole(0).num = 0 /\ Whole(0).type = "integer" /\ Text("").type = "string"
    BY DEF Object, Flag, Whole, Text, Value
  <2>2. AsInt(Whole(0)) = 0 /\ ReadsAsInt(Whole(0))
    <3>1. Narrowed(0) = 0
      BY IntMaxAssumption DEF Narrowed
    <3>2. Whole(0) # Flag(TRUE) /\ Whole(0) # Flag(FALSE)
      BY DEF Whole, Flag, Value
    <3> QED BY <2>1, <3>1, <3>2 DEF AsInt, ReadsAsInt, IsNumber
  <2>3. \A rule \in Rules :
           /\ <<rule>> \in RulePaths /\ <<rule, "enabled">> \in RulePaths
           /\ <<rule, "percentage">> \in RulePaths
    BY DEF Rules, RulePaths, NullPaths, DefaultPaths
  <2>4. \A rule \in Rules :
           /\ field[<<rule>>] = Object /\ field[<<rule, "enabled">>] = Flag(FALSE)
           /\ field[<<rule, "percentage">>] = Whole(0)
    BY <1>4 DEF HasRules, Rules
  <2>5. ASSUME NEW rule \in Rules
        PROVE  RuleParses(field, rule) /\ ~Enabled(field, rule)
    <3>1. Percentage(field, rule) = 0
      BY <1>5, <2>2, <2>3, <2>4 DEF Percentage
    <3>2. /\ IsObject(field, <<rule>>) /\ field[<<rule, "enabled">>].type = "boolean"
          /\ ReadsAsInt(field[<<rule, "percentage">>])
      BY <1>5, <2>1, <2>2, <2>3, <2>4 DEF IsObject
    <3>3. RuleParses(field, rule)
      BY <3>1, <3>2 DEF RuleParses
    <3>4. field[<<rule, "enabled">>] # Flag(TRUE)
      BY <2>1, <2>4
    <3> QED BY <3>3, <3>4 DEF Enabled
  <2>6. IsText(field, <<"default_value", "value">>)
    BY <1>4, <1>5, <2>1 DEF IsText, HasRules, RulePaths, DefaultPaths
  <2>7. "null_value" \in Rules
    BY DEF Rules
  <2> QED BY <2>5, <2>6, <2>7 DEF OverridesParse
<1>7. Indispensable(g) \subseteq ConfigParams(g)
  <2>1. CASE g \in {"url", "hostname"}
    BY <2>1, SomeEntries DEF Indispensable, ConfigParams, Sites
  <2>2. CASE g = "regular_expression"
    BY <2>2, SomeEntries DEF Indispensable
  <2>3. CASE g \notin {"url", "hostname", "regular_expression"}
    BY <2>3 DEF Indispensable
  <2> QED BY <2>1, <2>2, <2>3
<1>8. ASSUME NEW p \in ConfigParams(g)
      PROVE  Given(field, p) /\ Param(field, p) = config[p] /\ Parses(g, p, Param(field, p))
  <2>1. p \in DOMAIN config /\ field[<<"config", p>>] = config[p]
    BY <1>2 DEF HasBasics, Usable
  <2>2. <<"config", p>> \in DOMAIN field
    BY <1>2, <2>1 DEF FieldPaths, ConfigPaths
  <2>3. Parses(g, p, config[p])
    BY <2>1 DEF Usable, AllFit, ParamFits
  <2> QED BY <2>1, <2>2, <2>3 DEF Given, Param, Has
<1>9. RangesHold(field, g)
  <2>1. /\ g = "boolean" => "true_percentage" \in ConfigParams(g)
        /\ g = "sequence" => "step" \in ConfigParams(g)
        /\ g = "regular_expression" => "pattern" \in ConfigParams(g)
    BY SomeEntries DEF ConfigParams
  <2> QED BY <1>8, <2>1 DEF RangesHold, Usable, InRange
<1> QED BY <1>3, <1>6, <1>7, <1>8, <1>9 DEF FieldConstructs

(* One generator is chosen for each column.                                *)
LEMMA ChoicesShape ==
    ASSUME NEW table, IsTable(table), NEW generators \in GeneratorChoices(table)
    PROVE  \A i \in DOMAIN table.columns : generators[i] \in InferredGenerators(table.columns[i])
<1> DEFINE N == Len(table.columns)
           Options(n) == InferredGenerators(table.columns[n])
           More(n, X) == {Append(s, g) : s \in X, g \in Options(n)}
           Solution(f) == f = [n \in 0 .. N |-> IF n = 0 THEN {<<>>} ELSE More(n, f[n - 1])]
           choices == CHOOSE f : Solution(f)
           S == SUBSET Seq(Generators)
           step == [x \in (1 .. N) \X S |-> More(x[1], x[2])]
<1>0. /\ N \in Nat /\ DOMAIN table.columns = 1 .. N
      /\ \A n \in 1 .. N : Options(n) \subseteq Generators
  <2>1. N \in Nat /\ DOMAIN table.columns = 1 .. N
    BY DEF IsTable
  <2>2. \A n \in 1 .. N : IsColumn(table.columns[n])
    BY <2>1, Zenon DEF IsTable
  <2> QED BY <2>1, <2>2, InferredAreKnown
<1>1. GeneratorChoices(table) = choices[N]
  BY DEF GeneratorChoices
<1> HIDE DEF N, Options
<1>2. ASSUME NEW n \in 1 .. N, NEW X \in S
      PROVE  More(n, X) \in S
  <2>1. ASSUME NEW s \in X, NEW g \in Options(n)
        PROVE  Append(s, g) \in Seq(Generators)
    <3>1. s \in Seq(Generators) /\ g \in Generators
      BY <1>0
    <3> QED BY <3>1, AppendProperties
  <2> QED BY <2>1
<1>3. \A n \in 1 .. N, X \in S : step[<<n, X>>] = More(n, X)
  OBVIOUS
<1>4. {<<>>} \in S
  OBVIOUS
<1> HIDE DEF More, S, step
<1>5. \E f : Solution(f)
  <2>1. \A n \in 1 .. N, X \in S : step[<<n, X>>] \in S
    BY <1>2, <1>3
  <2>2. PICK f \in [0 .. N -> S] : Recursive(f, N, {<<>>}, step)
    BY <1>0, <1>4, <2>1, Recursion, Zenon
  <2>3. ASSUME NEW n \in 0 .. N, n # 0
        PROVE  step[<<n, f[n - 1]>>] = More(n, f[n - 1])
    <3>1. n \in 1 .. N /\ f[n - 1] \in S
      BY <1>0, <2>2, <2>3
    <3> QED BY <1>3, <3>1
  <2>4. f = [n \in 0 .. N |-> IF n = 0 THEN {<<>>} ELSE step[<<n, f[n - 1]>>]]
    BY <2>2 DEF Recursive
  <2>5. Solution(f)
    BY <2>3, <2>4
  <2> QED BY <2>5
<1>6. Solution(choices)
  BY <1>5
<1> HIDE DEF choices
<1>7. /\ choices[0] = {<<>>}
      /\ \A n \in 1 .. N : choices[n] = More(n, choices[n - 1])
  <2>1. \A n \in 0 .. N : choices[n] = IF n = 0 THEN {<<>>} ELSE More(n, choices[n - 1])
    BY <1>6, Zenon
  <2>2. 0 \in 0 .. N /\ \A n \in 1 .. N : n \in 0 .. N /\ n # 0
    BY <1>0
  <2> QED BY <2>1, <2>2
<1> HIDE DEF Solution
<1> DEFINE Right(s, n) == /\ s \in Seq(Generators) /\ Len(s) = n
                          /\ \A i \in 1 .. n : s[i] \in Options(i)
           T == {n \in 0 .. N : \A s \in choices[n] : Right(s, n)}
<1>8. 0 \in T
  <2>1. <<>> \in Seq(Generators) /\ Len(<<>>) = 0 /\ 0 \in 0 .. N /\ 1 .. 0 = {}
    BY <1>0
  <2>2. Right(<<>>, 0)
    BY <2>1
  <2> QED BY <1>7, <2>1, <2>2
<1>9. ASSUME NEW n \in 1 .. N, n - 1 \in T
      PROVE  n \in T
  <2>1. ASSUME NEW s \in choices[n]
        PROVE  Right(s, n)
    <3>1. PICK r \in choices[n - 1], g \in Options(n) : s = Append(r, g)
      BY <1>7 DEF More
    <3>2. Right(r, n - 1)
      BY <1>9
    <3>3. g \in Generators
      BY <1>0
    <3>4. /\ s \in Seq(Generators) /\ Len(s) = n /\ s[n] = g
          /\ \A i \in 1 .. n - 1 : s[i] = r[i]
      BY <1>0, <3>1, <3>2, <3>3, AppendProperties
    <3>5. \A i \in 1 .. n : i = n \/ i \in 1 .. n - 1
      BY <1>0
    <3> QED BY <3>2, <3>4, <3>5
  <2> QED BY <1>0, <2>1
<1>10. 0 .. N \subseteq T
  <2> HIDE DEF T
  <2> QED BY <1>0, <1>8, <1>9, UpTo
<1>11. Right(generators, N)
  BY <1>0, <1>1, <1>10
<1> QED BY <1>0, <1>11 DEF Options

LEMMA InferredIsMade ==
    ASSUME NEW column, NEW g, NEW unique, NEW nth
    PROVE  InferredField(column, g, unique, nth)
              = MadeField(column.name, g, Configured(column, g), unique, nth)
  BY DEF InferredField, MadeField, Basics, Configured

LEMMA TemplateIsMade ==
    ASSUME NEW name, NEW g, NEW config
    PROVE  TemplateField(name, g, config) = MadeField(name, g, config, FALSE, 1)
  BY DEF TemplateField, MadeField, Basics

(* A field is made for a generator with a configuration it can use.        *)
MadeFor(field, g) ==
    \E name, config, unique, nth :
        Usable(g, config) /\ field = MadeField(name, g, config, unique, nth)

LEMMA MadeForIsRight ==
    ASSUME NEW g \in Generators, NEW field, MadeFor(field, g)
    PROVE  /\ IsTree(field) /\ FieldAdmitted(field) /\ FieldConstructs(field, g)
           /\ Keys(field, <<>>) \cap {"supports_unique", "supports_group"} = {}
           /\ field[<<"generator">>].text = g
<1>1. PICK name, config, unique, nth :
          Usable(g, config) /\ field = MadeField(name, g, config, unique, nth)
  BY DEF MadeFor
<1>2. AreMembers(config)
  BY <1>1 DEF Usable
<1>3. IsTree(field)
  BY <1>1, <1>2, MadeFieldShape, Zenon
<1>4. FieldAdmitted(field)
  BY <1>1, MadeIsAdmitted, Zenon
<1>5. FieldConstructs(field, g)
  BY <1>1, MadeConstructs, Zenon
<1>6. HasKeys(field, g, config)
  BY <1>1, <1>2, KeysMade, Zenon
<1>7. HasBasics(field, name, g, config)
  BY <1>1, <1>2, MadeFieldShape, Zenon
<1> QED BY <1>3, <1>4, <1>5, <1>6, <1>7 DEF HasKeys, MadeKeys, HasBasics, Text, Value

LEMMA InferredFieldsAre ==
    ASSUME NEW table, IsTable(table), NEW generators \in GeneratorChoices(table),
           NEW i \in DOMAIN table.columns
    PROVE  generators[i] \in Generators
           /\ MadeFor(InferredFields(table, generators)[i], generators[i])
<1> DEFINE column == table.columns[i]
           g == generators[i]
           unique == column.auto_increment \/ {column.name} \in table.keys
           nth == NthWith(generators, i)
<1>1. IsColumn(column)
  BY Zenon DEF IsTable
<1>2. g \in Generators
  BY <1>1, ChoicesShape, InferredAreKnown
<1>3. Usable(g, Configured(column, g))
  BY <1>1, <1>2, ConfiguredIsUsable
<1>4. InferredFields(table, generators)[i] = InferredField(column, g, unique, nth)
  BY DEF InferredFields
<1>5. InferredFields(table, generators)[i]
         = MadeField(column.name, g, Configured(column, g), unique, nth)
  BY <1>4, InferredIsMade
<1> QED BY <1>2, <1>3, <1>5, Zenon DEF MadeFor

(***************************************************************************)
(* The fields of a template.                                               *)
(***************************************************************************)
TemplateGenerators == <<"sequence", "company_name", "industry", "email">>
SequenceConfig ==
    [start |-> Whole(1), end |-> Whole(1000), step |-> Whole(1), circle |-> Flag(TRUE)]
EmailConfig == [languages |-> English, domains |-> Strings(<<"example.com">>)]

LEMMA TemplateFieldsShape ==
    /\ DOMAIN TemplateFields = 1 .. 4 /\ Len(TemplateFields) = 4
    /\ TemplateFields = [i \in 1 .. 4 |-> TemplateFields[i]]
    /\ TemplateFields[1] = MadeField("id", "sequence", SequenceConfig, FALSE, 1)
    /\ TemplateFields[2] = MadeField("company_name", "company_name", Translated, FALSE, 1)
    /\ TemplateFields[3] = MadeField("industry", "industry", EnglishOnly, FALSE, 1)
    /\ TemplateFields[4] = MadeField("email", "email", EmailConfig, FALSE, 1)
<1> DEFINE a == TemplateField("id", "sequence", SequenceConfig)
           b == TemplateField("company_name", "company_name", Translated)
           c == TemplateField("industry", "industry", EnglishOnly)
           d == TemplateField("email", "email", EmailConfig)
<1>1. TemplateFields = <<a, b, c, d>>
  BY DEF TemplateFields, SequenceConfig, EmailConfig
<1>2. /\ a = MadeField("id", "sequence", SequenceConfig, FALSE, 1)
      /\ b = MadeField("company_name", "company_name", Translated, FALSE, 1)
      /\ c = MadeField("industry", "industry", EnglishOnly, FALSE, 1)
      /\ d = MadeField("email", "email", EmailConfig, FALSE, 1)
  BY TemplateIsMade, Zenon
<1> HIDE DEF a, b, c, d
<1>3. /\ DOMAIN TemplateFields = 1 .. 4 /\ Len(TemplateFields) = 4
      /\ TemplateFields[1] = a /\ TemplateFields[2] = b
      /\ TemplateFields[3] = c /\ TemplateFields[4] = d
  BY <1>1
<1>4. TemplateFields = [i \in 1 .. 4 |-> TemplateFields[i]]
  BY <1>1
<1> QED BY <1>2, <1>3, <1>4

LEMMA TemplatesAreUsable ==
    /\ {"sequence", "company_name", "industry", "email"} \subseteq Generators
    /\ Usable("sequence", SequenceConfig) /\ Usable("company_name", Translated)
    /\ Usable("industry", EnglishOnly) /\ Usable("email", EmailConfig)
<1>1. {"sequence", "company_name", "industry", "email"} \subseteq Generators
  BY WholeCatalog, Domains
<1>2. Usable("sequence", SequenceConfig)
  <2> DEFINE yes == Flag(TRUE)
             one == Whole(1)
             last == Whole(1000)
  <2>1. SequenceConfig = [start |-> one, end |-> last, step |-> one, circle |-> yes]
    BY DEF SequenceConfig
  <2>2. /\ Fit("sequence", "start", one) /\ Fit("sequence", "end", last)
        /\ Fit("sequence", "step", one)
    <3>1. /\ {"start", "end", "step"} \subseteq NumberParams
          /\ \A p \in {"start", "end", "step"} : <<"sequence", p>> \in IntParams \cup WideParams
      BY DEF NumberParams, WideParams
    <3>2. 1 \in Int /\ 1000 \in Int
      OBVIOUS
    <3>3. \A p \in {"start", "end", "step"} : \A n \in Int : Fit("sequence", p, Whole(n))
      BY <3>1, OtherNumbers
    <3> QED BY <3>2, <3>3
  <2>3. Fit("sequence", "circle", yes)
    BY OtherValues DEF Flags
  <2>4. one.num # 0
    BY DEF Whole, Value
  <2> HIDE DEF yes, one, last
  <2>5. TemplateFits("sequence", SequenceConfig)
    BY <2>1, <2>2, <2>3 DEF TemplateFits
  <2>6. DOMAIN SequenceConfig = ConfigParams("sequence")
    BY <2>1, SomeEntries
  <2>7. SequenceConfig["step"].num # 0
    BY <2>1, <2>4
  <2>8. InRange("sequence", SequenceConfig)
    BY <2>7 DEF InRange
  <2> QED BY <2>5, <2>6, <2>8, FitsAreMembers DEF Usable, AllFit, TemplateFits, Fit
<1>3. ASSUME NEW g, TemplateFits(g, Catalog[g].config_template),
             g \notin {"boolean", "sequence", "regular_expression"}
      PROVE  Usable(g, Catalog[g].config_template)
  BY <1>3, FitsAreMembers DEF Usable, AllFit, TemplateFits, Fit, InRange, ConfigParams
<1>4. Usable("company_name", Translated)
  BY <1>1, <1>3, SomeEntries, TemplateIsUsable
<1>5. Usable("industry", EnglishOnly)
  BY <1>1, <1>3, SomeEntries, TemplateIsUsable
<1>6. Usable("email", EmailConfig)
  <2> DEFINE items == <<"example.com">>
             list == Strings(items)
  <2>1. EmailConfig = [languages |-> English, domains |-> list]
    BY DEF EmailConfig
  <2>2. IsListOf(items, {"example.com"})
    BY ListsOf
  <2>3. "domains" \in StringLists /\ "" \notin {"example.com"}
    BY DEF StringLists
  <2> HIDE DEF items
  <2>4. ParamFits("email", "domains", list)
    BY <2>2, <2>3, StringValues
  <2>5. ParamFits("email", "languages", English)
    BY ListValues
  <2> HIDE DEF list
  <2>6. AllFit("email", EmailConfig)
    BY <2>1, <2>4, <2>5 DEF AllFit
  <2>7. AreMembers(EmailConfig)
    BY <2>1, <2>4, <2>5 DEF AreMembers, ParamFits
  <2>8. DOMAIN EmailConfig = ConfigParams("email")
    BY <2>1, SomeEntries
  <2> QED BY <2>6, <2>7, <2>8 DEF Usable, InRange
<1> QED BY <1>1, <1>2, <1>4, <1>5, <1>6

LEMMA MadeForSome ==
    ASSUME NEW name, NEW g, NEW config, Usable(g, config), NEW unique, NEW nth,
           NEW field, field = MadeField(name, g, config, unique, nth)
    PROVE  MadeFor(field, g)
  BY Zenon DEF MadeFor

LEMMA TemplateFieldsAre ==
    \A i \in DOMAIN TemplateFields :
        TemplateGenerators[i] \in Generators /\ MadeFor(TemplateFields[i], TemplateGenerators[i])
<1>1. MadeFor(TemplateFields[1], "sequence")
  <2>1. Usable("sequence", SequenceConfig)
    BY TemplatesAreUsable
  <2>2. TemplateFields[1] = MadeField("id", "sequence", SequenceConfig, FALSE, 1)
    BY TemplateFieldsShape
  <2> QED BY <2>1, <2>2, MadeForSome, Zenon
<1>2. MadeFor(TemplateFields[2], "company_name")
  <2>1. Usable("company_name", Translated)
    BY TemplatesAreUsable
  <2>2. TemplateFields[2] = MadeField("company_name", "company_name", Translated, FALSE, 1)
    BY TemplateFieldsShape
  <2> QED BY <2>1, <2>2, MadeForSome, Zenon
<1>3. MadeFor(TemplateFields[3], "industry")
  <2>1. Usable("industry", EnglishOnly)
    BY TemplatesAreUsable
  <2>2. TemplateFields[3] = MadeField("industry", "industry", EnglishOnly, FALSE, 1)
    BY TemplateFieldsShape
  <2> QED BY <2>1, <2>2, MadeForSome, Zenon
<1>4. MadeFor(TemplateFields[4], "email")
  <2>1. Usable("email", EmailConfig)
    BY TemplatesAreUsable
  <2>2. TemplateFields[4] = MadeField("email", "email", EmailConfig, FALSE, 1)
    BY TemplateFieldsShape
  <2> QED BY <2>1, <2>2, MadeForSome, Zenon
<1>5. /\ TemplateGenerators[1] = "sequence" /\ TemplateGenerators[2] = "company_name"
      /\ TemplateGenerators[3] = "industry" /\ TemplateGenerators[4] = "email"
  BY DEF TemplateGenerators
<1>6. \A i \in DOMAIN TemplateFields : i \in {1, 2, 3, 4}
  BY TemplateFieldsShape
<1> QED BY <1>1, <1>2, <1>3, <1>4, <1>5, <1>6, TemplatesAreUsable

(***************************************************************************)
(* What is inferred from the type of a column.                             *)
(***************************************************************************)
LEMMA FamiliesAre ==
    ASSUME NEW column
    PROVE  Family(column) \in Families
  BY DEF Family, Families

LEMMA TypeIsCompatible ==
    ASSUME NEW column, Family(column) # "Binary"
    PROVE  Compatible(TypeGenerator(column), column)
<1> DEFINE family == Family(column)
           g == TypeGenerator(column)
<1>1. family \in Families
  BY FamiliesAre
<1>2. g = CASE family = "Integer" -> "integer"
            [] family = "Decimal" -> "decimal"
            [] family = "Date" -> "date"
            [] family = "Time" -> "time"
            [] family = "DateTime" -> "datetime"
            [] family = "Enum" -> "enum_item"
            [] family = "Boolean" -> "boolean"
            [] OTHER -> "text"
  BY DEF TypeGenerator
<1> HIDE DEF family, g
<1>3. family # "Binary"
  BY DEF family
<1>4. family \in FamiliesFor(g)
  BY <1>1, <1>2, <1>3 DEF Families, FamiliesFor
<1> QED BY <1>4 DEF Compatible, family, g

(* A column of its own name in lower case is the one that is found.        *)
LEMMA ColumnIsFound ==
    ASSUME NEW table, IsTable(table), ColumnsDiffer(table), NEW i \in DOMAIN table.columns,
           NEW spec, spec.name = table.columns[i].name,
           Compatible(spec.generator, table.columns[i])
    PROVE  SchemaFits(<<spec>>, table.columns)
<1> DEFINE columns == table.columns
           specs == <<spec>>
           found == ColumnsLike(columns, spec.name)
<1>1. i \in Int
  <2>1. DOMAIN table.columns = 1 .. Len(table.columns) /\ Len(table.columns) \in Nat
    BY DEF IsTable
  <2> QED BY <2>1
<1>2. found = {i}
  BY DEF ColumnsLike, ColumnsDiffer
<1>3. Max({i}) = i
  BY <1>1 DEF Max
<1>4. DOMAIN specs = {1} /\ specs[1] = spec
  OBVIOUS
<1> HIDE DEF specs
<1>5. 1 \notin Misplaced(specs, columns)
  BY <1>2, <1>3, <1>4 DEF Misplaced
<1>6. Misplaced(specs, columns) \subseteq DOMAIN specs
  BY DEF Misplaced
<1>7. Misplaced(specs, columns) = {}
  BY <1>4, <1>5, <1>6
<1> QED BY <1>7 DEF SchemaFits, specs

(* What a generator yields, by its configuration.                          *)
LEMMA NumbersYielded ==
    ASSUME NEW field, NEW name, NEW config, HasBasics(field, name, "integer", config),
           {"start", "end"} \subseteq DOMAIN config
    PROVE  Yields(field) = {GeneratedNumber(config["start"].num), GeneratedNumber(config["end"].num)}
<1>1. field[<<"generator">>].text = "integer"
  BY DEF HasBasics, Text, Value
<1>2. field[<<"config", "start">>] = config["start"] /\ field[<<"config", "end">>] = config["end"]
  BY Zenon DEF HasBasics
<1> QED BY <1>1, <1>2 DEF Yields

LEMMA DecimalsYielded ==
    ASSUME NEW field, NEW name, NEW config, HasBasics(field, name, "decimal", config)
    PROVE  \A v \in Yields(field) : v.form \in {"whole", "decimal"}
<1>1. field[<<"generator">>].text = "decimal"
  BY DEF HasBasics, Text, Value
<1> DEFINE form == IF field[<<"config", "decimal_places">>].num = 0 THEN "whole" ELSE "decimal"
           value == Generated(form, "", 1)
<1>2. Yields(field) = {value}
  BY <1>1 DEF Yields
<1>3. value.form = form
  <2> HIDE DEF form
  <2> QED BY DEF Generated
<1> HIDE DEF value
<1> QED BY <1>2, <1>3

LEMMA TokensYielded ==
    ASSUME NEW field, NEW name, NEW config, HasBasics(field, name, "boolean", config)
    PROVE  \A v \in Yields(field) : v.token
<1>1. field[<<"generator">>].text = "boolean"
  BY DEF HasBasics, Text, Value
<1>2. Yields(field) = {Generated("other", "true", 4), Generated("other", "false", 5)}
  BY <1>1 DEF Yields
<1>3. Generated("other", "true", 4).token /\ Generated("other", "false", 5).token
  BY DEF Generated
<1> QED BY <1>2, <1>3

LEMMA ItemsYielded ==
    ASSUME NEW field, NEW name, NEW config, HasBasics(field, name, "enum_item", config),
           "enums" \in DOMAIN config
    PROVE  \A v \in Yields(field) : v.text \in ToSet(config["enums"].items)
<1>1. field[<<"generator">>].text = "enum_item"
  BY DEF HasBasics, Text, Value
<1>2. field[<<"config", "enums">>] = config["enums"]
  BY Zenon DEF HasBasics
<1> DEFINE items == ToSet(config["enums"].items)
<1>3. Yields(field) = {Generated("other", item, 1) : item \in items}
  BY <1>1, <1>2 DEF Yields
<1> HIDE DEF items
<1>4. \A v \in Yields(field) : v.text \in items
  <2>1. ASSUME NEW item \in items
        PROVE  Generated("other", item, 1).text = item
    BY DEF Generated
  <2> QED BY <1>3, <2>1
<1> QED BY <1>4 DEF items

LEMMA TextsYielded ==
    ASSUME NEW field, NEW name, NEW config, HasBasics(field, name, "text", config),
           {"number_of_chars_start", "number_of_chars_end"} \subseteq DOMAIN config
    PROVE  \A v \in Yields(field) :
               v.length \in {config["number_of_chars_start"].num, config["number_of_chars_end"].num}
<1>1. field[<<"generator">>].text = "text"
  BY DEF HasBasics, Text, Value
<1>2. /\ field[<<"config", "number_of_chars_start">>] = config["number_of_chars_start"]
      /\ field[<<"config", "number_of_chars_end">>] = config["number_of_chars_end"]
  BY Zenon DEF HasBasics
<1> DEFINE lengths == {config["number_of_chars_start"].num, config["number_of_chars_end"].num}
<1>3. Yields(field) = {Generated("other", "", n) : n \in lengths}
  BY <1>1, <1>2 DEF Yields
<1> HIDE DEF lengths
<1>4. \A v \in Yields(field) : v.length \in lengths
  <2>1. ASSUME NEW n \in lengths
        PROVE  Generated("other", "", n).length = n
    BY DEF Generated
  <2> QED BY <1>3, <2>1
<1> QED BY <1>4 DEF lengths

LEMMA MomentsYielded ==
    ASSUME NEW field, NEW name, NEW config, NEW g \in {"date", "time", "datetime"},
           HasBasics(field, name, g, config)
    PROVE  \A v \in Yields(field) : v.length > 0
<1>1. field[<<"generator">>].text \in {"date", "time", "datetime"}
  BY DEF HasBasics, Text, Value
<1>2. Yields(field) = {Generated("other", "", 8)}
  BY <1>1 DEF Yields
<1> DEFINE value == Generated("other", "", 8)
<1>3. value.length = 8
  BY DEF Generated
<1> HIDE DEF value
<1>4. \A v \in {value} : v.length > 0
  BY <1>3
<1> QED BY <1>2, <1>4 DEF value

(***************************************************************************)
(* What init puts into the configuration for the type of the column.       *)
(***************************************************************************)
LEMMA IntegerConfigured ==
    ASSUME NEW column, IsColumn(column), NEW config, config = Configured(column, "integer")
    PROVE  /\ {"start", "end"} \subseteq DOMAIN config
           /\ config["start"].num = 0 /\ config["end"].num \in Nat
<1> DEFINE p == column.numeric_precision
           limit == Largest(Min({IntDigits, p}))
           last == Whole(limit)
           first == Whole(0)
           hundred == Whole(100)
           a == IF column.unsigned_number THEN [start |-> first] ELSE <<>>
           b == IF p # NoNumber THEN [end |-> last] ELSE <<>>
           t == [start |-> first, end |-> hundred]
<1>1. Adjustments(column, "integer") = a ++ b
  BY DEF Adjustments
<1>2. Catalog["integer"].config_template = t
  <2>1. Catalog["integer"] = NumberEntries["integer"]
    BY WholeCatalog, Domains DEF HasAll
  <2> QED BY <2>1 DEF NumberEntries, Entry
<1>3. config = (a ++ b) ++ t
  BY <1>1, <1>2 DEF Configured
<1>4. p # NoNumber => last.num \in Nat
  <2>1. ASSUME p # NoNumber
        PROVE  limit \in Nat
    <3>1. p \in Nat /\ IntDigits \in Nat
      BY <2>1, ColumnNumbers, DigitsAssumption
    <3> HIDE DEF p
    <3>2. Min({IntDigits, p}) \in Nat
      BY <3>1, LeastOfTwo
    <3> QED BY <3>2, LargestIsNatural
  <2> HIDE DEF limit
  <2>2. last.num = limit
    BY DEF Whole, Value
  <2> QED BY <2>1, <2>2
<1>5. first.num = 0 /\ hundred.num = 100
  BY DEF Whole, Value
<1> HIDE DEF p, last, first, hundred
<1>6. /\ DOMAIN a \subseteq {"start"} /\ \A k \in DOMAIN a : a[k] = first
      /\ DOMAIN b \subseteq {"end"}
      /\ \A k \in DOMAIN b : p # NoNumber /\ b[k] = last
  <2>1. DOMAIN [start |-> first] = {"start"} /\ [start |-> first]["start"] = first
    OBVIOUS
  <2>2. DOMAIN [end |-> last] = {"end"} /\ [end |-> last]["end"] = last
    OBVIOUS
  <2>3. DOMAIN <<>> = {}
    OBVIOUS
  <2>4. DOMAIN a \subseteq {"start"} /\ \A k \in DOMAIN a : a[k] = first
    BY <2>1, <2>3
  <2>5. DOMAIN b \subseteq {"end"} /\ \A k \in DOMAIN b : p # NoNumber /\ b[k] = last
    BY <2>2, <2>3
  <2> QED BY <2>4, <2>5
<1>7. DOMAIN t = {"start", "end"} /\ t["start"] = first /\ t["end"] = hundred
  OBVIOUS
<1> HIDE DEF a, b, t
<1>8. DOMAIN (a ++ b) = DOMAIN a \cup DOMAIN b
  BY DEF ++
<1>9. {"start", "end"} \subseteq DOMAIN config
  BY <1>3, <1>7 DEF ++
<1>10. config["start"] = first
  <2> DEFINE c == a ++ b
  <2>1. config["start"] = IF "start" \in DOMAIN c THEN c["start"] ELSE t["start"]
    BY <1>3, <1>7 DEF ++
  <2>2. \A k \in DOMAIN c : c[k] = IF k \in DOMAIN a THEN a[k] ELSE b[k]
    BY DEF ++
  <2>3. "start" \notin DOMAIN b
    BY <1>6
  <2>4. "start" \in DOMAIN c => c["start"] = first
    BY <1>6, <1>8, <2>2, <2>3
  <2> HIDE DEF c
  <2> QED BY <1>7, <2>1, <2>4
<1>11. config["end"] = hundred \/ (p # NoNumber /\ config["end"] = last)
  BY <1>3, <1>6, <1>7, <1>8 DEF ++
<1> QED BY <1>4, <1>5, <1>9, <1>10, <1>11

LEMMA EnumConfigured ==
    ASSUME NEW column, IsColumn(column), NEW config, config = Configured(column, "enum_item")
    PROVE  /\ "enums" \in DOMAIN config
           /\ column.enum_values # <<>> => config["enums"].items = column.enum_values
<1> DEFINE items == EnumItems(column)
           v == Strings(items)
           a == Adjustments(column, "enum_item")
           t == Catalog["enum_item"].config_template
<1>1. a = [enums |-> v]
  BY DEF Adjustments
<1>2. config = a ++ t
  BY DEF Configured
<1>3. v.items = items
  BY DEF Strings, Value
<1>4. column.enum_values # <<>> => items = column.enum_values
  BY DEF EnumItems
<1> HIDE DEF a, t, v
<1>5. "enums" \in DOMAIN a /\ a["enums"] = v
  BY <1>1
<1>6. "enums" \in DOMAIN config /\ config["enums"] = v
  BY <1>2, <1>5 DEF ++
<1> QED BY <1>3, <1>4, <1>6

LEMMA TextConfigured ==
    ASSUME NEW column, IsColumn(column), NEW config, config = Configured(column, "text")
    PROVE  /\ {"number_of_chars_start", "number_of_chars_end"} \subseteq DOMAIN config
           /\ column.character_length > 0 =>
                 /\ config["number_of_chars_start"].num <= column.character_length
                 /\ config["number_of_chars_end"].num <= column.character_length
<1> DEFINE n == column.character_length
           a == Adjustments(column, "text")
           t == Catalog["text"].config_template
<1>0. n \in Nat \cup {NoNumber} /\ NoNumber = -1
  BY ColumnNumbers DEF NoNumber
<1>1. config = a ++ t
  BY DEF Configured
<1>2. DOMAIN t = {"number_of_chars_start", "number_of_chars_end"}
  BY SomeEntries DEF ConfigParams
<1>3. ASSUME n > 0
      PROVE  /\ {"number_of_chars_start", "number_of_chars_end"} \subseteq DOMAIN a
             /\ a["number_of_chars_start"].num <= n /\ a["number_of_chars_end"].num <= n
  <2> DEFINE length == Max({1, n})
             least == Min({16, length})
             v == Whole(least)
             w == Whole(length)
  <2>1. n # NoNumber
    BY <1>0, <1>3
  <2>2. a = [number_of_chars_start |-> v, number_of_chars_end |-> w]
    BY <2>1 DEF Adjustments
  <2>3. length = n
    <3> HIDE DEF n
    <3> QED BY <1>0, <1>3, LeastOfTwo
  <2>4. least <= n
    <3>1. length \in Int
      BY <1>0, <2>3
    <3> HIDE DEF length
    <3>2. least = IF 16 <= length THEN 16 ELSE length
      BY <3>1, LeastOfTwo
    <3> HIDE DEF least, n
    <3> QED BY <1>0, <2>3, <3>1, <3>2
  <2>5. v.num = least /\ w.num = length
    <3> HIDE DEF least, length
    <3> QED BY DEF Whole, Value
  <2> HIDE DEF a, v, w, least, length, n
  <2>6. /\ DOMAIN a = {"number_of_chars_start", "number_of_chars_end"}
        /\ a["number_of_chars_start"] = v /\ a["number_of_chars_end"] = w
    BY <2>2
  <2> QED BY <1>0, <2>3, <2>4, <2>5, <2>6
<1> HIDE DEF a, t, n
<1>4. {"number_of_chars_start", "number_of_chars_end"} \subseteq DOMAIN config
  BY <1>1, <1>2 DEF ++
<1>5. ASSUME n > 0
      PROVE  /\ config["number_of_chars_start"] = a["number_of_chars_start"]
             /\ config["number_of_chars_end"] = a["number_of_chars_end"]
  BY <1>1, <1>3, <1>5 DEF ++
<1> QED BY <1>3, <1>4, <1>5 DEF n

(***************************************************************************)
(* Every value converts to the column.                                     *)
(***************************************************************************)
LEMMA InferredConvert ==
    ASSUME NEW column, IsColumn(column), Family(column) # "Binary",
           NEW g, g = TypeGenerator(column), NEW config, config = Configured(column, g),
           NEW field, NEW name, HasBasics(field, name, g, config)
    PROVE  \A v \in Yields(field) : Converts(column, v)
<1>0. Family(column) \in Families
  BY FamiliesAre
<1>1. CASE Family(column) = "Integer"
  <2>1. g = "integer"
    BY <1>1 DEF TypeGenerator
  <2> DEFINE first == config["start"].num
             last == config["end"].num
  <2>2. {"start", "end"} \subseteq DOMAIN config /\ first = 0 /\ last \in Nat
    BY <2>1, IntegerConfigured
  <2>3. Yields(field) = {GeneratedNumber(first), GeneratedNumber(last)}
    BY <2>1, <2>2, NumbersYielded
  <2> HIDE DEF first, last
  <2>4. ASSUME NEW n \in Nat
        PROVE  Converts(column, GeneratedNumber(n))
    <3> DEFINE value == Generated("whole", ToString(n), 1)
               below == n < 0
               v == [value EXCEPT !.negative = below]
    <3>1. value.form = "whole" /\ DOMAIN value = {"form", "token", "negative", "text", "length"}
      BY DEF Generated
    <3> HIDE DEF value
    <3>2. ~below
      OBVIOUS
    <3>3. GeneratedNumber(n) = v
      BY DEF GeneratedNumber, value
    <3> HIDE DEF below
    <3>4. v.form = "whole"
      BY <3>1
    <3>5. v.negative = below
      BY <3>1
    <3> HIDE DEF v
    <3> QED BY <1>1, <3>2, <3>3, <3>4, <3>5 DEF Converts
  <2> QED BY <2>2, <2>3, <2>4
<1>2. CASE Family(column) = "Decimal"
  <2>1. g = "decimal"
    BY <1>2 DEF TypeGenerator
  <2>2. \A v \in Yields(field) : v.form \in {"whole", "decimal"}
    BY <2>1, DecimalsYielded
  <2> QED BY <1>2, <2>2 DEF Converts
<1>3. CASE Family(column) \in {"Date", "Time", "DateTime"}
  <2>1. g \in {"date", "time", "datetime"}
    BY <1>3 DEF TypeGenerator
  <2>2. \A v \in Yields(field) : v.length > 0
    BY <2>1, MomentsYielded
  <2> QED BY <1>3, <2>2 DEF Converts
<1>4. CASE Family(column) = "Enum"
  <2>1. g = "enum_item"
    BY <1>4 DEF TypeGenerator
  <2>2. /\ "enums" \in DOMAIN config
        /\ column.enum_values # <<>> => config["enums"].items = column.enum_values
    BY <2>1, EnumConfigured
  <2>3. \A v \in Yields(field) : v.text \in ToSet(config["enums"].items)
    BY <2>1, <2>2, ItemsYielded
  <2>4. \A v \in Yields(field) :
            column.enum_values = <<>> \/ v.text \in ToSet(column.enum_values)
    BY <2>2, <2>3
  <2> QED BY <1>4, <2>4 DEF Converts
<1>5. CASE Family(column) = "Boolean"
  <2>1. g = "boolean"
    BY <1>5 DEF TypeGenerator
  <2>2. \A v \in Yields(field) : v.token
    BY <2>1, TokensYielded
  <2> QED BY <1>5, <2>2 DEF Converts
<1>6. CASE Family(column) \in {"String", "Unknown"}
  <2>1. g = "text"
    BY <1>6 DEF TypeGenerator
  <2> DEFINE least == config["number_of_chars_start"].num
             most == config["number_of_chars_end"].num
  <2>2. /\ {"number_of_chars_start", "number_of_chars_end"} \subseteq DOMAIN config
        /\ column.character_length > 0 =>
              least <= column.character_length /\ most <= column.character_length
    BY <2>1, TextConfigured
  <2>3. \A v \in Yields(field) : v.length \in {least, most}
    BY <2>1, <2>2, TextsYielded
  <2> HIDE DEF least, most
  <2>4. \A v \in Yields(field) :
            column.character_length > 0 => v.length <= column.character_length
    BY <2>2, <2>3
  <2> QED BY <1>6, <2>4 DEF Converts
<1> QED BY <1>0, <1>1, <1>2, <1>3, <1>4, <1>5, <1>6 DEF Families

LEMMA FieldFits ==
    ASSUME NEW table \in Tables, ColumnsDiffer(table),
           NEW generators \in GeneratorChoices(table), NEW i \in DOMAIN table.columns,
           NamedGenerators(table.columns[i]) = {}, Family(table.columns[i]) # "Binary",
           NEW field, field = InferredFields(table, generators)[i]
    PROVE  /\ SchemaFits(<<FieldSpec(field)>>, table.columns)
           /\ \A v \in Yields(field) : Converts(table.columns[i], v)
<1> DEFINE column == table.columns[i]
           g == generators[i]
           unique == column.auto_increment \/ {column.name} \in table.keys
           nth == NthWith(generators, i)
           config == Configured(column, g)
           spec == FieldSpec(field)
<1>1. IsTable(table) /\ IsColumn(column)
  BY TablesAssumption DEF IsTable
<1>2. g = TypeGenerator(column) /\ g \in Generators
  <2>1. generators[i] \in InferredGenerators(table.columns[i])
    BY <1>1, ChoicesShape
  <2>2. InferredGenerators(column) = {TypeGenerator(column)}
    BY DEF InferredGenerators
  <2>3. InferredGenerators(column) \subseteq Generators
    BY <1>1, InferredAreKnown
  <2> QED BY <2>1, <2>2, <2>3
<1>3. field = MadeField(column.name, g, config, unique, nth)
  <2>1. field = InferredField(column, g, unique, nth)
    BY DEF InferredFields
  <2> QED BY <2>1, InferredIsMade
<1>4. AreMembers(config)
  BY <1>1, <1>2, ConfiguredIsUsable DEF Usable
<1>5. HasBasics(field, column.name, g, config)
  <2> HIDE DEF column, g, unique, nth, config
  <2> QED BY <1>3, <1>4, MadeFieldShape, Zenon
<1>6. spec.name = column.name /\ spec.generator = g
  <2>1. field[<<"name">>] = Text(column.name) /\ field[<<"generator">>] = Text(g)
    BY <1>5 DEF HasBasics
  <2> HIDE DEF column, g
  <2>2. field[<<"name">>].text = column.name /\ field[<<"generator">>].text = g
    BY <2>1 DEF Text, Value
  <2> QED BY <2>2 DEF FieldSpec
<1>7. Compatible(g, column)
  BY <1>2, TypeIsCompatible
<1>8. SchemaFits(<<spec>>, table.columns)
  <2> HIDE DEF g, spec
  <2> QED BY <1>1, <1>6, <1>7, ColumnIsFound
<1>9. \A v \in Yields(field) : Converts(column, v)
  <2> HIDE DEF column, g, config
  <2> QED BY <1>1, <1>2, <1>5, InferredConvert DEF column, config
<1> QED BY <1>8, <1>9
=============================================================================
