--------------------------- MODULE DocumentProofs ---------------------------
(***************************************************************************)
(* Proofs about whole documents: what init writes has all that the schema, *)
(* the reader and run demand of a root, and stays a document whatever its  *)
(* author changes; and of every document the fields that are read are      *)
(* finitely many.                                                          *)
(***************************************************************************)
EXTENDS FieldProofs

(***************************************************************************)
(* The roots that init writes.                                             *)
(***************************************************************************)
(* What an object of a tree has: members that are no objects, and objects. *)
Holds(t, path, members, objects) ==
    /\ IsPath(path) /\ IsObject(t, path)
    /\ Keys(t, path) = DOMAIN members \cup objects
    /\ \A k \in DOMAIN members : t[Append(path, k)] = members[k]
    /\ \A k \in objects : t[Append(path, k)] = Object

LEMMA RootHolds ==
    ASSUME NEW members, AreMembers(members), NEW t, t = ObjectAt(<<>>, members)
    PROVE  Holds(t, <<>>, members, {})
<1>1. IsPath(<<>>)
  BY ShortPaths
<1>2. DOMAIN t = {<<>>} \cup {Append(<<>>, k) : k \in DOMAIN members} /\ t[<<>>] = Object
  <2> DEFINE paths == {<<>>} \cup {Append(<<>>, k) : k \in DOMAIN members}
  <2>1. DOMAIN t = paths
    BY <1>1, ObjectAtShape, Zenon
  <2>2. t[<<>>] = Object
    BY <1>1, ObjectAtShape, Zenon
  <2> QED BY <2>1, <2>2
<1>3. IsTree(t)
  BY ObjectIsTree
<1>4. \A k \in DOMAIN members : t[Append(<<>>, k)] = members[k]
  BY <1>1, ObjectAtMember, ZenonT(30)
<1>5. ASSUME NEW k
      PROVE  k \in Keys(t, <<>>) <=> k \in DOMAIN members
  <2>1. k \in Keys(t, <<>>) <=> Append(<<>>, k) \in DOMAIN t
    BY <1>1, <1>3, KeysOf, Zenon DEF Has
  <2>2. ASSUME NEW j
        PROVE  Append(<<>>, j) # <<>> /\ Last(Append(<<>>, j)) = j
    BY <1>1, MemberPath, Zenon
  <2> QED BY <1>2, <2>1, <2>2
<1> QED BY <1>1, <1>2, <1>4, <1>5, ObjectType DEF Holds, IsObject, Has

Joined(u, t, path, members) ==
    /\ IsTree(u)
    /\ \A p : Has(u, p) <=>
          Has(t, p) \/ p = path \/ \E k \in DOMAIN members : p = Append(path, k)
    /\ \A p \in DOMAIN t : u[p] = t[p]
    /\ u[path] = Object
    /\ \A k \in DOMAIN members : u[Append(path, k)] = members[k]

LEMMA JoinedShape ==
    ASSUME NEW t, IsTree(t), NEW path, IsPath(path), path # <<>>,
           IsObject(t, Front(path)), path \notin DOMAIN t, NEW members, AreMembers(members),
           NEW u, u = t ++ ObjectAt(path, members)
    PROVE  Joined(u, t, path, members)
<1> DEFINE o == ObjectAt(path, members)
           paths == {path} \cup {Append(path, k) : k \in DOMAIN members}
<1>0. o = ObjectAt(path, members) /\ u = t ++ o
  OBVIOUS
<1>1. IsTree(u)
  BY ObjectJoinsTree, Zenon
<1> HIDE DEF o
<1>2. DOMAIN o = paths
  BY <1>0, ObjectAtShape, Zenon
<1>3. o[path] = Object
  BY <1>0, ObjectAtShape, Zenon
<1>4. ASSUME NEW k \in DOMAIN members
      PROVE  o[Append(path, k)] = members[k]
  BY <1>0, ObjectAtMember
<1>5. ASSUME NEW k
      PROVE  Append(path, k) \notin DOMAIN t
  <2>1. Front(Append(path, k)) = path /\ Append(path, k) # <<>>
    BY MemberPath, Zenon
  <2> QED BY <2>1, TreeShape DEF IsObject, Has
<1>6. /\ DOMAIN u = DOMAIN t \cup DOMAIN o
      /\ \A p \in DOMAIN t : u[p] = t[p]
      /\ \A p \in DOMAIN o : p \notin DOMAIN t => u[p] = o[p]
  BY <1>0 DEF ++
<1>7. u[path] = Object
  BY <1>2, <1>3, <1>6
<1>8. ASSUME NEW k \in DOMAIN members
      PROVE  u[Append(path, k)] = members[k]
  BY <1>2, <1>4, <1>5, <1>6
<1>9. ASSUME NEW p
      PROVE  Has(u, p) <=> \/ Has(t, p) \/ p = path
                           \/ \E k \in DOMAIN members : p = Append(path, k)
  BY <1>2, <1>6 DEF Has
<1> QED BY <1>1, <1>6, <1>7, <1>8, <1>9 DEF Joined

(* An object that joins a tree.                                            *)
LEMMA JoinedHolds ==
    ASSUME NEW t, IsTree(t), NEW path, IsPath(path), path # <<>>,
           NEW members0, NEW objects0, Holds(t, Front(path), members0, objects0),
           Last(path) \notin DOMAIN members0 \cup objects0,
           NEW members, AreMembers(members), NEW u, u = t ++ ObjectAt(path, members)
    PROVE  /\ IsTree(u) /\ path \notin DOMAIN t /\ Holds(u, path, members, {})
           /\ Holds(u, Front(path), members0, objects0 \cup {Last(path)})
<1> DEFINE front == Front(path)
           last == Last(path)
<1>1. IsPath(front) /\ path = Append(front, last)
  BY PathShape
<1>2. IsObject(t, front) /\ Keys(t, front) = DOMAIN members0 \cup objects0
  BY DEF Holds
<1>3. path \notin DOMAIN t
  BY <1>1, <1>2, KeysOf DEF Has
<1>0. Joined(u, t, path, members)
  BY <1>2, <1>3, JoinedShape, Zenon
<1>4. IsTree(u)
  BY <1>0 DEF Joined
<1>5. ASSUME NEW p
      PROVE  Has(u, p) <=> \/ Has(t, p) \/ p = path
                           \/ \E k \in DOMAIN members : p = Append(path, k)
  BY <1>0 DEF Joined
<1>6. ASSUME NEW p \in DOMAIN t
      PROVE  u[p] = t[p]
  BY <1>0 DEF Joined
<1>7. u[path] = Object
  BY <1>0 DEF Joined
<1>8. ASSUME NEW k \in DOMAIN members
      PROVE  u[Append(path, k)] = members[k]
  BY <1>0 DEF Joined
<1>9. ASSUME NEW k
      PROVE  /\ Append(path, k) # path /\ Front(Append(path, k)) = path
             /\ Last(Append(path, k)) = k /\ Append(path, k) # <<>>
  BY MemberPath, Zenon
<1>10. Holds(u, path, members, {})
  <2>1. IsObject(u, path)
    BY <1>5, <1>7, ObjectType DEF IsObject
  <2>2. ASSUME NEW k
        PROVE  k \in Keys(u, path) <=> k \in DOMAIN members
    <3>1. k \in Keys(u, path) <=> Has(u, Append(path, k))
      BY <1>4, KeysOf, Zenon
    <3>2. ~Has(t, Append(path, k))
      BY <1>3, <1>9, TreeShape DEF Has, IsObject
    <3>3. ASSUME NEW j, Append(path, k) = Append(path, j)
          PROVE  k = j
      BY <1>9, <3>3
    <3> QED BY <1>5, <1>9, <3>1, <3>2, <3>3
  <2> QED BY <1>8, <2>1, <2>2 DEF Holds
<1>11. Holds(u, front, members0, objects0 \cup {last})
  <2>1. IsObject(u, front)
    BY <1>2, <1>5, <1>6 DEF IsObject, Has
  <2>2. ASSUME NEW k
        PROVE  k \in Keys(u, front) <=> k \in DOMAIN members0 \cup objects0 \cup {last}
    <3>1. k \in Keys(u, front) <=> Has(u, Append(front, k))
      BY <1>1, <1>4, KeysOf, Zenon
    <3>2. k \in Keys(t, front) <=> Has(t, Append(front, k))
      BY <1>1, KeysOf, Zenon
    <3>3. Append(front, k) = path <=> k = last
      <4>1. Last(Append(front, k)) = k
        BY <1>1, MemberPath, Zenon
      <4> QED BY <1>1, <4>1
    <3>4. ASSUME NEW j
          PROVE  Append(front, k) # Append(path, j)
      <4>1. Front(Append(front, k)) = front
        BY <1>1, MemberPath, Zenon
      <4>2. front # path
        BY NothingUnder
      <4> QED BY <1>9, <4>1, <4>2
    <3> QED BY <1>2, <1>5, <3>1, <3>2, <3>3, <3>4
  <2>3. ASSUME NEW k \in DOMAIN members0 \cup objects0
        PROVE  u[Append(front, k)] = t[Append(front, k)]
    <3>1. Has(t, Append(front, k))
      BY <1>1, <1>2, KeysOf
    <3> QED BY <1>6, <3>1 DEF Has
  <2>4. /\ \A k \in DOMAIN members0 : u[Append(front, k)] = members0[k]
        /\ \A k \in objects0 : u[Append(front, k)] = Object
    BY <2>3 DEF Holds
  <2>5. u[Append(front, last)] = Object
    BY <1>1, <1>7
  <2> QED BY <1>1, <2>1, <2>2, <2>4, <2>5 DEF Holds
<1> QED BY <1>3, <1>4, <1>10, <1>11

(* The other objects of a tree keep what they have.                        *)
LEMMA OthersHold ==
    ASSUME NEW t, IsTree(t), NEW path, IsPath(path), path # <<>>,
           IsObject(t, Front(path)), path \notin DOMAIN t, NEW members, AreMembers(members),
           NEW u, u = t ++ ObjectAt(path, members),
           NEW other, other # Front(path), NEW m, NEW objects, Holds(t, other, m, objects)
    PROVE  Holds(u, other, m, objects)
<1>0. Joined(u, t, path, members)
  BY JoinedShape, Zenon
<1>1. IsTree(u)
  BY <1>0 DEF Joined
<1>2. ASSUME NEW p
      PROVE  Has(u, p) <=> \/ Has(t, p) \/ p = path
                           \/ \E k \in DOMAIN members : p = Append(path, k)
  BY <1>0 DEF Joined
<1>3. ASSUME NEW p \in DOMAIN t
      PROVE  u[p] = t[p]
  BY <1>0 DEF Joined
<1>4. IsPath(other) /\ IsObject(t, other) /\ other # path
  BY DEF Holds, IsObject, Has
<1>5. IsObject(u, other)
  BY <1>2, <1>3, <1>4 DEF IsObject, Has
<1>6. ASSUME NEW k
      PROVE  k \in Keys(u, other) <=> k \in Keys(t, other)
  <2>1. k \in Keys(u, other) <=> Has(u, Append(other, k))
    BY <1>1, <1>4, KeysOf, Zenon
  <2>2. k \in Keys(t, other) <=> Has(t, Append(other, k))
    BY <1>4, KeysOf, Zenon
  <2>3. Front(Append(other, k)) = other
    BY <1>4, MemberPath, Zenon
  <2>4. Append(other, k) # path
    BY <2>3
  <2>5. ASSUME NEW j
        PROVE  Append(other, k) # Append(path, j)
    <3>1. Front(Append(path, j)) = path
      BY MemberPath, Zenon
    <3> QED BY <1>4, <2>3, <3>1
  <2> QED BY <1>2, <2>1, <2>2, <2>4, <2>5
<1>7. Keys(u, other) = Keys(t, other)
  BY <1>6
<1>8. Keys(t, other) = DOMAIN m \cup objects
  BY DEF Holds
<1>9. ASSUME NEW k \in DOMAIN m \cup objects
      PROVE  u[Append(other, k)] = t[Append(other, k)]
  <2>1. Has(t, Append(other, k))
    BY <1>4, <1>8, KeysOf
  <2> QED BY <1>3, <2>1 DEF Has
<1>10. /\ \A k \in DOMAIN m : u[Append(other, k)] = m[k]
       /\ \A k \in objects : u[Append(other, k)] = Object
  BY <1>9 DEF Holds
<1> QED BY <1>4, <1>5, <1>7, <1>8, <1>10 DEF Holds

(* Values that an int holds as they are written.                           *)
Plain(v) == v.type # "number" /\ Narrowed(v.num) = v.num
PlainValue(v) == IsValue(v) /\ Plain(v)
ArePlain(members) ==
    members = [k \in DOMAIN members |-> members[k]] /\ \A k \in DOMAIN members : PlainValue(members[k])
PlainTree(t) == IsTree(t) /\ \A p \in DOMAIN t : Plain(t[p])

(* A number that every int holds.                                          *)
Small(n) == n \in Nat /\ n <= 32767

LEMMA NarrowedIsSame ==
    ASSUME NEW n, Small(n)
    PROVE  Narrowed(n) = n
<1>1. IntMax \in Nat /\ n <= IntMax /\ n \in Nat
  BY IntMaxAssumption DEF Small
<1>2. n + IntMax + 1 \in 0 .. 2 * (IntMax + 1) - 1 /\ 2 * (IntMax + 1) \in Nat \ {0}
  BY <1>1
<1>3. \A m \in Nat \ {0} : \A x \in 0 .. m - 1 : x % m = x
  OBVIOUS
<1>4. (n + IntMax + 1) % (2 * (IntMax + 1)) = n + IntMax + 1
  <2> DEFINE m == 2 * (IntMax + 1)
             x == n + IntMax + 1
  <2>1. m \in Nat \ {0} /\ x \in 0 .. m - 1
    BY <1>2
  <2> HIDE DEF m, x
  <2>2. x % m = x
    BY <1>3, <2>1
  <2> QED BY <2>2 DEF m, x
<1> QED BY <1>1, <1>4 DEF Narrowed

LEMMA PlainText ==
    ASSUME NEW s
    PROVE  PlainValue(Text(s))
<1>1. Narrowed(0) = 0
  BY NarrowedIsSame DEF Small
<1>2. IsValue(Text(s))
  BY ValuesAre
<1> QED BY <1>1, <1>2 DEF PlainValue, Plain, Text, Value

LEMMA PlainFlag ==
    ASSUME NEW b
    PROVE  PlainValue(Flag(b))
<1>1. Narrowed(0) = 0
  BY NarrowedIsSame DEF Small
<1>2. IsValue(Flag(b))
  BY ValuesAre
<1>3. Flag(b).type = "boolean" /\ Flag(b).num = 0
  BY DEF Flag, Value
<1> QED BY <1>1, <1>2, <1>3 DEF PlainValue, Plain

LEMMA PlainWhole ==
    ASSUME NEW n, Small(n)
    PROVE  PlainValue(Whole(n))
<1>1. Narrowed(n) = n
  BY NarrowedIsSame, Zenon
<1>2. n \in Int
  BY DEF Small
<1>3. IsValue(Whole(n))
  BY <1>2, ValuesAre
<1>4. Whole(n).type = "integer" /\ Whole(n).num = n
  BY DEF Whole, Value
<1>5. Plain(Whole(n))
  <2> DEFINE v == Whole(n)
  <2>1. v.type # "number" /\ v.num = n
    BY <1>4
  <2> HIDE DEF v
  <2>2. Plain(v)
    BY <1>1, <2>1 DEF Plain
  <2> QED BY <2>2 DEF v
<1> QED BY <1>3, <1>5 DEF PlainValue

NoItems == Value("array", "", 0, <<>>)
LEMMA PlainOthers == PlainValue(Object) /\ PlainValue(NoItems)
<1>1. Narrowed(0) = 0
  BY NarrowedIsSame DEF Small
<1>2. IsValue(NoItems)
  BY DEF NoItems, IsValue, Value
<1>3. NoItems.type = "array" /\ NoItems.num = 0 /\ Object.type = "object" /\ Object.num = 0
  BY DEF NoItems, Object, Value
<1> QED BY <1>1, <1>2, <1>3, ValuesAre DEF PlainValue, Plain

LEMMA PlainAreMembers ==
    ASSUME NEW members, ArePlain(members)
    PROVE  AreMembers(members)
  BY DEF ArePlain, AreMembers, PlainValue

LEMMA PlainObject ==
    ASSUME NEW members, ArePlain(members), NEW t, t = ObjectAt(<<>>, members)
    PROVE  PlainTree(t) /\ Holds(t, <<>>, members, {})
<1>1. AreMembers(members) /\ IsPath(<<>>)
  BY PlainAreMembers, ShortPaths
<1>2. Holds(t, <<>>, members, {})
  BY <1>1, RootHolds, Zenon
<1>3. IsTree(t)
  BY <1>1, ObjectIsTree
<1>4. DOMAIN t = {<<>>} \cup {Append(<<>>, k) : k \in DOMAIN members}
  BY <1>1, ObjectAtShape, Zenon
<1>5. t[<<>>] = Object
  BY <1>1, ObjectAtShape, Zenon
<1>6. \A k \in DOMAIN members : t[Append(<<>>, k)] = members[k]
  BY <1>2 DEF Holds
<1>7. \A p \in DOMAIN t : Plain(t[p])
  BY <1>4, <1>5, <1>6, PlainOthers DEF ArePlain, PlainValue
<1> QED BY <1>2, <1>3, <1>7 DEF PlainTree

LEMMA PlainJoins ==
    ASSUME NEW t, PlainTree(t), NEW path, IsPath(path), path # <<>>,
           NEW members0, NEW objects0, Holds(t, Front(path), members0, objects0),
           Last(path) \notin DOMAIN members0 \cup objects0,
           NEW members, ArePlain(members), NEW u, u = t ++ ObjectAt(path, members)
    PROVE  /\ PlainTree(u) /\ Holds(u, path, members, {})
           /\ Holds(u, Front(path), members0, objects0 \cup {Last(path)})
<1>1. IsTree(t) /\ AreMembers(members)
  BY PlainAreMembers DEF PlainTree
<1>2. /\ IsTree(u) /\ path \notin DOMAIN t /\ Holds(u, path, members, {})
      /\ Holds(u, Front(path), members0, objects0 \cup {Last(path)})
  BY <1>1, JoinedHolds, Zenon
<1>3. IsObject(t, Front(path))
  BY DEF Holds
<1>4. Joined(u, t, path, members)
  BY <1>1, <1>2, <1>3, JoinedShape, Zenon
<1>5. ASSUME NEW p \in DOMAIN u
      PROVE  Plain(u[p])
  <2>1. Has(t, p) \/ p = path \/ \E k \in DOMAIN members : p = Append(path, k)
    BY <1>4 DEF Joined, Has
  <2>2. CASE Has(t, p)
    BY <1>4, <2>2 DEF Joined, Has, PlainTree
  <2>3. CASE p = path
    BY <1>4, <2>3, PlainOthers DEF Joined, PlainValue
  <2>4. ASSUME NEW k \in DOMAIN members, p = Append(path, k)
        PROVE  Plain(u[p])
    BY <1>4, <2>4 DEF Joined, ArePlain, PlainValue
  <2> QED BY <2>1, <2>2, <2>3, <2>4
<1> QED BY <1>2, <1>5 DEF PlainTree

LEMMA PlainKeeps ==
    ASSUME NEW t, PlainTree(t), NEW path, IsPath(path), path # <<>>,
           NEW members0, NEW objects0, Holds(t, Front(path), members0, objects0),
           Last(path) \notin DOMAIN members0 \cup objects0,
           NEW members, ArePlain(members), NEW u, u = t ++ ObjectAt(path, members),
           NEW other, other # Front(path), NEW m, NEW objects, Holds(t, other, m, objects)
    PROVE  Holds(u, other, m, objects)
<1>1. IsTree(t) /\ AreMembers(members)
  BY PlainAreMembers DEF PlainTree
<1>2. path \notin DOMAIN t
  BY <1>1, JoinedHolds, Zenon
<1>3. IsObject(t, Front(path))
  BY DEF Holds
<1> QED BY <1>1, <1>2, <1>3, OthersHold, Zenon

(***************************************************************************)
(* What the objects of the roots have.                                     *)
(***************************************************************************)
RootMembers ==
    At("$schema", Text("./schema/datagen.schema.json"))
    ++ [rows |-> Whole(100), fields |-> Value("array", "", 0, <<>>)]
OutputMembers(type) == [type |-> Text(type)]
FileMembers(format) == [format |-> Text(format)]
DatabaseMembers(connection, table) ==
    [connection |-> Text(connection), table |-> Text(table), mode |-> Text("balanced"),
     write_mode |-> Text("append"), transaction_mode |-> Text("per-batch"),
     error_policy |-> Text("stop")]
AdvancedMembers ==
    [insert_mode |-> Text("insert"), batch_size |-> Whole(2000),
     queue_size |-> Whole(2048), threads |-> Whole(2),
     rate_limit_rows_per_sec |-> Whole(20000)]

LEMMA RootMembersShape ==
    /\ ArePlain(RootMembers) /\ DOMAIN RootMembers = {"$schema", "rows", "fields"}
    /\ RootMembers["$schema"] = Text("./schema/datagen.schema.json")
    /\ RootMembers["rows"] = Whole(100)
    /\ RootMembers["fields"] = NoItems
<1> DEFINE schema == Text("./schema/datagen.schema.json")
           rows == Whole(100)
           rest == [rows |-> rows, fields |-> NoItems]
<1>1. RootMembers = At("$schema", schema) ++ rest
  BY DEF RootMembers, NoItems
<1>2. PlainValue(schema) /\ PlainValue(rows) /\ PlainValue(NoItems)
  <2>1. PlainValue(schema)
    BY PlainText, Zenon
  <2>2. Small(100)
    BY DEF Small
  <2>3. PlainValue(rows)
    BY <2>2, PlainWhole, Zenon
  <2> QED BY <2>1, <2>3, PlainOthers
<1>3. schema = Text("./schema/datagen.schema.json") /\ rows = Whole(100)
  OBVIOUS
<1>5. rest = [rows |-> rows, fields |-> NoItems]
  OBVIOUS
<1> HIDE DEF schema, rows
<1>6. DOMAIN rest = {"rows", "fields"} /\ rest["rows"] = rows /\ rest["fields"] = NoItems
  BY <1>5
<1> HIDE DEF rest
<1>4. /\ DOMAIN RootMembers = {"$schema", "rows", "fields"}
      /\ RootMembers["$schema"] = schema /\ RootMembers["rows"] = rows
      /\ RootMembers["fields"] = NoItems
      /\ RootMembers = [k \in DOMAIN RootMembers |-> RootMembers[k]]
  BY <1>1, <1>6 DEF ++, At
<1> QED BY <1>2, <1>3, <1>4 DEF ArePlain

LEMMA OutputMembersShape ==
    ASSUME NEW s
    PROVE  ArePlain(OutputMembers(s)) /\ ArePlain(FileMembers(s))
<1> DEFINE a == Text(s)
<1>1. PlainValue(a)
  BY PlainText, Zenon
<1>2. OutputMembers(s) = [type |-> a] /\ FileMembers(s) = [format |-> a]
  BY DEF OutputMembers, FileMembers
<1> HIDE DEF a
<1> QED BY <1>1, <1>2 DEF ArePlain

LEMMA DatabaseMembersShape ==
    ASSUME NEW connection, NEW table
    PROVE  ArePlain(DatabaseMembers(connection, table))
<1> DEFINE a == Text(connection)
           b == Text(table)
           c == Text("balanced")
           d == Text("append")
           e == Text("per-batch")
           f == Text("stop")
<1>1. /\ PlainValue(a) /\ PlainValue(b) /\ PlainValue(c) /\ PlainValue(d)
      /\ PlainValue(e) /\ PlainValue(f)
  BY PlainText, Zenon
<1>2. DatabaseMembers(connection, table) =
         [connection |-> a, table |-> b, mode |-> c, write_mode |-> d, transaction_mode |-> e,
          error_policy |-> f]
  BY DEF DatabaseMembers
<1> HIDE DEF a, b, c, d, e, f
<1> QED BY <1>1, <1>2 DEF ArePlain

LEMMA AdvancedMembersShape == ArePlain(AdvancedMembers)
<1> DEFINE a == Text("insert")
           b == Whole(2000)
           c == Whole(2048)
           d == Whole(2)
           e == Whole(20000)
<1>1. PlainValue(a)
  BY PlainText, Zenon
<1>2. Small(2000) /\ Small(2048) /\ Small(2) /\ Small(20000)
  BY DEF Small
<1>3. PlainValue(b) /\ PlainValue(c) /\ PlainValue(d) /\ PlainValue(e)
  <2>1. PlainValue(b)
    BY <1>2, PlainWhole
  <2>2. PlainValue(c)
    BY <1>2, PlainWhole
  <2>3. PlainValue(d)
    BY <1>2, PlainWhole
  <2>4. PlainValue(e)
    BY <1>2, PlainWhole
  <2> QED BY <2>1, <2>2, <2>3, <2>4
<1>4. AdvancedMembers = [insert_mode |-> a, batch_size |-> b, queue_size |-> c, threads |-> d,
                         rate_limit_rows_per_sec |-> e]
  BY DEF AdvancedMembers
<1> HIDE DEF a, b, c, d, e
<1> QED BY <1>1, <1>3, <1>4 DEF ArePlain

(* Texts and flags match their types.                                      *)
LEMMA FlagsMatch ==
    ASSUME NEW b
    PROVE  Matches(Boolean, Flag(b))
  BY OthersMatch

LEMMA TextMatches ==
    ASSUME NEW s
    PROVE  /\ Matches(AnyText, Text(s)) /\ (s # "" => Matches(NonEmpty, Text(s)))
           /\ Matches(OneOf({s}), Text(s))
  BY TextsMatch

(* The members of an object match a shape.                                 *)
Suits(shape, members, objects) ==
    /\ DOMAIN members \cup objects \subseteq DOMAIN shape.properties
    /\ shape.required \subseteq DOMAIN members \cup objects
    /\ \A k \in DOMAIN members : Matches(shape.properties[k], members[k])
    /\ \A k \in objects : Matches(shape.properties[k], Object)

LEMMA SuitsShape ==
    ASSUME NEW t, NEW path, NEW members, NEW objects, Holds(t, path, members, objects),
           NEW shape, Suits(shape, members, objects)
    PROVE  HasShape(t, path, shape)
<1>1. IsObject(t, path) /\ Keys(t, path) = DOMAIN members \cup objects
  BY DEF Holds
<1>2. ASSUME NEW k \in Keys(t, path)
      PROVE  Matches(shape.properties[k], t[Append(path, k)])
  BY <1>1 DEF Holds, Suits
<1> QED BY <1>1, <1>2 DEF HasShape, Suits

(***************************************************************************)
(* The options of a format.                                                *)
(***************************************************************************)
OptionsSuit(format, members) ==
    ArePlain(members) /\ Suits(OptionShape(format), members, {})

LEMMA DelimitedSuit ==
    ASSUME NEW members, members = [header |-> Flag(TRUE), line_ending |-> Text("LF")]
    PROVE  ArePlain(members) /\ Suits(CsvShape, members, {})
<1> DEFINE yes == Flag(TRUE)
           lf == Text("LF")
<1>1. /\ PlainValue(yes) /\ PlainValue(lf) /\ Matches(Boolean, yes)
      /\ Matches(OneOf({"LF", "CRLF"}), lf)
  <2>1. PlainValue(yes)
    BY PlainFlag, Zenon
  <2>2. PlainValue(lf)
    BY PlainText, Zenon
  <2>3. Matches(Boolean, yes)
    BY FlagsMatch, Zenon
  <2>4. Matches(OneOf({"LF", "CRLF"}), lf)
    BY TextsMatch
  <2> QED BY <2>1, <2>2, <2>3, <2>4
<1>2. members = [header |-> yes, line_ending |-> lf]
  OBVIOUS
<1> HIDE DEF yes, lf
<1> DEFINE r == [header |-> yes, line_ending |-> lf]
<1>3. /\ DOMAIN r = {"header", "line_ending"} /\ r["header"] = yes /\ r["line_ending"] = lf
      /\ r = [k \in DOMAIN r |-> r[k]]
  OBVIOUS
<1> DEFINE end == OneOf({"LF", "CRLF"})
<1>4. /\ CsvShape.required = {} /\ DOMAIN CsvShape.properties = {"header", "line_ending"}
      /\ CsvShape.properties["header"] = Boolean /\ CsvShape.properties["line_ending"] = end
      /\ Matches(end, lf)
  BY <1>1 DEF CsvShape, Shape
<1>5. members = r
  BY <1>2
<1> HIDE DEF end, r
<1>6. ArePlain(r)
  BY <1>1, <1>3 DEF ArePlain
<1>7. Suits(CsvShape, r, {})
  BY <1>1, <1>3, <1>4 DEF Suits
<1> QED BY <1>5, <1>6, <1>7

LEMMA FormatOptionsSuit ==
    ASSUME NEW format \in OutputFormats, NEW table, table # "",
           NEW members, members = FormatOptions(format, table)
    PROVE  OptionsSuit(format, members)
<1> DEFINE delimited == [header |-> Flag(TRUE), line_ending |-> Text("LF")]
           yes == Flag(TRUE)
           no == Flag(FALSE)
<1>1. ArePlain(delimited) /\ Suits(CsvShape, delimited, {})
  BY DelimitedSuit, Zenon
<1>2. PlainValue(yes) /\ PlainValue(no) /\ Matches(Boolean, yes) /\ Matches(Boolean, no)
  <2>1. PlainValue(yes)
    BY PlainFlag, Zenon
  <2>2. PlainValue(no)
    BY PlainFlag, Zenon
  <2>3. Matches(Boolean, yes)
    BY FlagsMatch, Zenon
  <2>4. Matches(Boolean, no)
    BY FlagsMatch, Zenon
  <2> QED BY <2>1, <2>2, <2>3, <2>4
<1>3. CASE format \in {"csv", "Tab-Delimited"}
  <2>1. members = delimited
    BY <1>3 DEF FormatOptions
  <2>2. OptionShape(format) = CsvShape
    BY <1>3 DEF OptionShape
  <2> QED BY <1>1, <2>1, <2>2 DEF OptionsSuit
<1>4. CASE format = "json"
  <2> DEFINE r == [array |-> yes, include_null |-> yes]
             shape == OptionShape(format)
  <2>1. members = r
    BY <1>4 DEF FormatOptions
  <2>2. /\ shape.required = {} /\ DOMAIN shape.properties = {"array", "include_null"}
        /\ shape.properties["array"] = Boolean /\ shape.properties["include_null"] = Boolean
    BY <1>4 DEF OptionShape, Shape
  <2> HIDE DEF yes, no, delimited, shape
  <2>3. /\ DOMAIN r = {"array", "include_null"}
        /\ r["array"] = yes /\ r["include_null"] = yes
        /\ r = [k \in DOMAIN r |-> r[k]]
    OBVIOUS
  <2> HIDE DEF r
  <2>4. ArePlain(r)
    BY <1>2, <2>3 DEF ArePlain
  <2>5. Suits(shape, r, {})
    BY <1>2, <2>2, <2>3 DEF Suits
  <2> QED BY <2>1, <2>4, <2>5 DEF OptionsSuit, shape
<1>5. CASE format = "sql"
  <2> DEFINE name == Text(table)
             r == [table |-> name, create_table |-> no]
             shape == OptionShape(format)
  <2>1. members = r
    BY <1>5 DEF FormatOptions
  <2>2. /\ shape.required = {} /\ DOMAIN shape.properties = {"table", "create_table"}
        /\ shape.properties["table"] = NonEmpty /\ shape.properties["create_table"] = Boolean
    BY <1>5 DEF OptionShape, Shape
  <2>3. PlainValue(name) /\ Matches(NonEmpty, name)
    BY PlainText, TextMatches, Zenon
  <2> HIDE DEF yes, no, delimited, name, shape
  <2>4. /\ DOMAIN r = {"table", "create_table"} /\ r["table"] = name /\ r["create_table"] = no
        /\ r = [k \in DOMAIN r |-> r[k]]
    OBVIOUS
  <2> HIDE DEF r
  <2>5. ArePlain(r)
    BY <1>2, <2>3, <2>4 DEF ArePlain
  <2>6. Suits(shape, r, {})
    BY <1>2, <2>2, <2>3, <2>4 DEF Suits
  <2> QED BY <2>1, <2>5, <2>6 DEF OptionsSuit, shape
<1>6. CASE format = "Custom"
  <2> DEFINE comma == Text(",")
             mark == Text("\"")
             first == [delimiter |-> comma, quote |-> mark]
             end == OneOf({"LF", "CRLF"})
             shape == OptionShape(format)
  <2>1. members = first ++ delimited
    BY <1>6 DEF FormatOptions
  <2>2. /\ shape.required = {}
        /\ DOMAIN shape.properties = {"delimiter", "quote", "header", "line_ending"}
        /\ shape.properties["delimiter"] = NonEmpty /\ shape.properties["quote"] = AnyText
        /\ shape.properties["header"] = Boolean /\ shape.properties["line_ending"] = end
    BY <1>6 DEF OptionShape, Shape
  <2>3. /\ PlainValue(comma) /\ Matches(NonEmpty, comma)
        /\ PlainValue(mark) /\ Matches(AnyText, mark)
    BY PlainText, TextMatches, Zenon
  <2>4. CsvShape = [properties |-> [header |-> Boolean, line_ending |-> end], required |-> {}]
    BY DEF CsvShape, Shape
  <2>5. DOMAIN first = {"delimiter", "quote"} /\ first["delimiter"] = comma /\ first["quote"] = mark
    OBVIOUS
  <2>6. DOMAIN delimited = {"header", "line_ending"}
    OBVIOUS
  <2> HIDE DEF yes, no, delimited, comma, mark, end, shape
  <2>7. /\ Matches(Boolean, delimited["header"]) /\ Matches(end, delimited["line_ending"])
        /\ PlainValue(delimited["header"]) /\ PlainValue(delimited["line_ending"])
    BY <1>1, <2>4, <2>6 DEF ArePlain, Suits
  <2> HIDE DEF first
  <2>8. /\ DOMAIN members = {"delimiter", "quote", "header", "line_ending"}
        /\ members["delimiter"] = comma /\ members["quote"] = mark
        /\ members["header"] = delimited["header"]
        /\ members["line_ending"] = delimited["line_ending"]
        /\ members = [k \in DOMAIN members |-> members[k]]
    BY <2>1, <2>5, <2>6 DEF ++
  <2>9. ArePlain(members)
    BY <2>3, <2>7, <2>8 DEF ArePlain
  <2>10. Suits(shape, members, {})
    <3>1. /\ DOMAIN members \cup {} \subseteq DOMAIN shape.properties
          /\ shape.required \subseteq DOMAIN members \cup {}
      BY <2>2, <2>8
    <3>2. \A k \in DOMAIN members : Matches(shape.properties[k], members[k])
      BY <1>2, <2>2, <2>3, <2>7, <2>8
    <3> QED BY <3>1, <3>2 DEF Suits
  <2> QED BY <2>9, <2>10 DEF OptionsSuit, shape
<1> QED BY <1>3, <1>4, <1>5, <1>6 DEF OutputFormats

(***************************************************************************)
(* The members of the other objects.                                       *)
(***************************************************************************)
LEMMA RootSuits == Suits(RootShape, RootMembers, {"output"})
<1> DEFINE schema == Text("./schema/datagen.schema.json")
           rows == Whole(100)
           kinds == [rows |-> AtLeast(1), output |-> Nested, fields |-> ListOf({})]
<1>1. /\ DOMAIN RootMembers = {"$schema", "rows", "fields"}
      /\ RootMembers["$schema"] = schema /\ RootMembers["rows"] = rows
      /\ RootMembers["fields"] = NoItems
  BY RootMembersShape
<1>2. RootShape = [properties |-> kinds ++ At("$schema", AnyText), required |-> {"fields"}]
  BY DEF RootShape, Shape
<1>3. Matches(AnyText, schema) /\ Matches(AtLeast(1), rows) /\ Matches(Nested, Object)
  <2>1. Matches(AnyText, schema) /\ Matches(Nested, Object)
    BY TextMatches, OthersMatch
  <2>2. 1 \in Int /\ 100 \in Int /\ 100 >= 1
    OBVIOUS
  <2>3. Matches(AtLeast(1), rows)
    BY <2>2, OthersMatch
  <2> QED BY <2>1, <2>3
<1>4. Matches(ListOf({}), NoItems)
  BY DEF Matches, ListOf, Kind, NoItems, Value
<1>5. /\ RootShape.properties["rows"] = AtLeast(1) /\ RootShape.properties["output"] = Nested
      /\ RootShape.properties["fields"] = ListOf({})
      /\ RootShape.properties["$schema"] = AnyText
      /\ DOMAIN RootShape.properties = {"rows", "output", "fields", "$schema"}
      /\ RootShape.required = {"fields"}
  BY <1>2 DEF ++, At
<1> HIDE DEF schema, rows, kinds
<1> QED BY <1>1, <1>3, <1>4, <1>5 DEF Suits

LEMMA OutputSuits ==
    ASSUME NEW s \in {"file", "database"}
    PROVE  Suits(OutputShape, OutputMembers(s), {s})
<1> DEFINE a == Text(s)
<1>1. Matches(OneOf({"file", "database"}), a) /\ Matches(Nested, Object)
  BY TextsMatch, OthersMatch
<1>2. OutputMembers(s) = [type |-> a]
  BY DEF OutputMembers
<1> HIDE DEF a
<1> QED BY <1>1, <1>2 DEF OutputShape, Shape, Suits

LEMMA FileSuits ==
    ASSUME NEW format \in OutputFormats
    PROVE  Suits(FileShape, FileMembers(format), {"options"})
<1> DEFINE a == Text(format)
<1>1. Matches(OneOf(OutputFormats), a) /\ Matches(Nested, Object)
  BY TextsMatch, OthersMatch
<1>2. FileMembers(format) = [format |-> a]
  BY DEF FileMembers
<1>3. FileShape = [properties |-> [format |-> OneOf(OutputFormats), options |-> Nested],
                   required |-> {"format"}]
  BY DEF FileShape, Shape, OutputFormats
<1> HIDE DEF a
<1> QED BY <1>1, <1>2, <1>3 DEF Suits

LEMMA DatabaseSuits ==
    ASSUME NEW connection, connection # "", NEW table, table # ""
    PROVE  Suits(DatabaseShape, DatabaseMembers(connection, table), {"advanced"})
<1> DEFINE a == Text(connection)
           b == Text(table)
           c == Text("balanced")
           d == Text("append")
           e == Text("per-batch")
           f == Text("stop")
           modes == OneOf({"fast", "balanced", "safe"})
           writes == OneOf({"append", "truncate", "upsert"})
           transactions == OneOf({"per-batch", "per-run", "none"})
           policies == OneOf({"stop", "continue", "rollback"})
<1>1. Matches(NonEmpty, a) /\ Matches(NonEmpty, b) /\ Matches(Nested, Object)
  BY TextMatches, OthersMatch
<1>2. Matches(modes, c)
  BY TextsMatch
<1>3. Matches(writes, d)
  BY TextsMatch
<1>4. Matches(transactions, e)
  BY TextsMatch
<1>5. Matches(policies, f)
  BY TextsMatch
<1>6. DatabaseMembers(connection, table) =
         [connection |-> a, table |-> b, mode |-> c, write_mode |-> d, transaction_mode |-> e,
          error_policy |-> f]
  BY DEF DatabaseMembers
<1>7. DatabaseShape =
         [properties |-> [connection |-> NonEmpty, table |-> NonEmpty, mode |-> modes,
                          write_mode |-> writes, transaction_mode |-> transactions,
                          error_policy |-> policies, advanced |-> Nested],
          required |-> {"connection", "table"}]
  BY DEF DatabaseShape, Shape
<1> DEFINE shape == DatabaseShape
           m == DatabaseMembers(connection, table)
           names == {"connection", "table", "mode", "write_mode", "transaction_mode",
                     "error_policy"}
<1> HIDE DEF a, b, c, d, e, f, modes, writes, transactions, policies
<1>8. /\ DOMAIN m = names /\ m["connection"] = a /\ m["table"] = b /\ m["mode"] = c
      /\ m["write_mode"] = d /\ m["transaction_mode"] = e /\ m["error_policy"] = f
  <2> DEFINE r == [connection |-> a, table |-> b, mode |-> c, write_mode |-> d,
                   transaction_mode |-> e, error_policy |-> f]
  <2>1. /\ r["connection"] = a /\ r["table"] = b /\ r["mode"] = c
        /\ r["write_mode"] = d /\ r["transaction_mode"] = e /\ r["error_policy"] = f
    OBVIOUS
  <2>2. DOMAIN r = names
    OBVIOUS
  <2> HIDE DEF r
  <2> QED BY <1>6, <2>1, <2>2 DEF r
<1>9. /\ DOMAIN shape.properties = names \cup {"advanced"}
      /\ shape.required = {"connection", "table"}
      /\ shape.properties["connection"] = NonEmpty /\ shape.properties["table"] = NonEmpty
      /\ shape.properties["mode"] = modes /\ shape.properties["write_mode"] = writes
      /\ shape.properties["transaction_mode"] = transactions
      /\ shape.properties["error_policy"] = policies /\ shape.properties["advanced"] = Nested
  BY <1>7
<1> HIDE DEF shape, m
<1>10. \A k \in DOMAIN m : Matches(shape.properties[k], m[k])
  BY <1>1, <1>2, <1>3, <1>4, <1>5, <1>8, <1>9
<1>11. Suits(shape, m, {"advanced"})
  BY <1>1, <1>8, <1>9, <1>10 DEF Suits
<1> QED BY <1>11 DEF shape, m

LEMMA AdvancedSuits == Suits(AdvancedShape, AdvancedMembers, {})
<1> DEFINE a == Text("insert")
           b == Whole(2000)
           c == Whole(2048)
           d == Whole(2)
           e == Whole(20000)
           modes == OneOf({"insert", "load"})
<1>1. Matches(modes, a)
  BY TextsMatch
<1>2. /\ Matches(AtLeast(1), b) /\ Matches(AtLeast(1), c) /\ Matches(AtLeast(1), d)
      /\ Matches(AtLeast(0), e)
  BY OthersMatch
<1>3. AdvancedMembers = [insert_mode |-> a, batch_size |-> b, queue_size |-> c, threads |-> d,
                         rate_limit_rows_per_sec |-> e]
  BY DEF AdvancedMembers
<1>4. AdvancedShape =
         [properties |-> [insert_mode |-> modes, batch_size |-> AtLeast(1),
                          queue_size |-> AtLeast(1), threads |-> AtLeast(1),
                          rate_limit_rows_per_sec |-> AtLeast(0)], required |-> {}]
  BY DEF AdvancedShape, Shape
<1> HIDE DEF a, b, c, d, e, modes
<1> QED BY <1>1, <1>2, <1>3, <1>4 DEF Suits

(* One object more, in an object that is there.                            *)
Joins(u, t, path, front, last, members) ==
    /\ IsPath(path) /\ path # <<>> /\ front = Front(path) /\ last = Last(path)
    /\ ArePlain(members) /\ u = t ++ ObjectAt(path, members)
Room(members0, objects0, last, objects) ==
    last \notin DOMAIN members0 \cup objects0 /\ objects = objects0 \cup {last}

LEMMA OneMore ==
    ASSUME NEW t, PlainTree(t), NEW u, NEW path, NEW front, NEW last, NEW members,
           Joins(u, t, path, front, last, members),
           NEW members0, NEW objects0, Holds(t, front, members0, objects0),
           NEW objects, Room(members0, objects0, last, objects)
    PROVE  PlainTree(u) /\ Holds(u, path, members, {}) /\ Holds(u, front, members0, objects)
<1>1. /\ IsPath(path) /\ path # <<>> /\ front = Front(path) /\ last = Last(path)
      /\ ArePlain(members) /\ u = t ++ ObjectAt(path, members)
  BY DEF Joins
<1>2. last \notin DOMAIN members0 \cup objects0 /\ objects = objects0 \cup {last}
  BY DEF Room
<1> QED BY <1>1, <1>2, PlainJoins, Zenon

LEMMA OthersKept ==
    ASSUME NEW t, PlainTree(t), NEW u, NEW path, NEW front, NEW last, NEW members,
           Joins(u, t, path, front, last, members),
           NEW members0, NEW objects0, Holds(t, front, members0, objects0),
           NEW objects, Room(members0, objects0, last, objects),
           NEW other, other # front, NEW m, NEW objects1, Holds(t, other, m, objects1)
    PROVE  Holds(u, other, m, objects1)
<1>1. /\ IsPath(path) /\ path # <<>> /\ front = Front(path) /\ last = Last(path)
      /\ ArePlain(members) /\ u = t ++ ObjectAt(path, members)
  BY DEF Joins
<1>2. last \notin DOMAIN members0 \cup objects0
  BY DEF Room
<1> QED BY <1>1, <1>2, PlainKeeps, Zenon

(* The paths of the objects of the roots.                                  *)
LEMMA RootPaths ==
    /\ IsPath(OutputPath) /\ OutputPath # <<>> /\ Front(OutputPath) = <<>>
    /\ Last(OutputPath) = "output"
    /\ IsPath(FilePath) /\ FilePath # <<>> /\ Front(FilePath) = OutputPath
    /\ Last(FilePath) = "file"
    /\ IsPath(OptionsPath) /\ OptionsPath # <<>> /\ Front(OptionsPath) = FilePath
    /\ Last(OptionsPath) = "options"
    /\ IsPath(DatabasePath) /\ DatabasePath # <<>> /\ Front(DatabasePath) = OutputPath
    /\ Last(DatabasePath) = "database"
    /\ IsPath(AdvancedPath) /\ AdvancedPath # <<>> /\ Front(AdvancedPath) = DatabasePath
    /\ Last(AdvancedPath) = "advanced"
    /\ FilePath # DatabasePath
<1>1. IsPath(OutputPath) /\ IsPath(FilePath) /\ IsPath(OptionsPath) /\ IsPath(DatabasePath)
      /\ IsPath(AdvancedPath)
  BY ShortPaths DEF OutputPath, FilePath, OptionsPath, DatabasePath, AdvancedPath
<1>2. Front(OutputPath) = <<>> /\ Last(OutputPath) = "output"
  BY ShortFronts DEF OutputPath
<1>3. Front(FilePath) = OutputPath /\ Last(FilePath) = "file"
  BY ShortFronts DEF OutputPath, FilePath
<1>4. Front(OptionsPath) = FilePath /\ Last(OptionsPath) = "options"
  <2>1. Front(<<"output", "file", "options">>) = <<"output", "file">>
    BY FrontOfThree, Zenon
  <2>2. Last(<<"output", "file", "options">>) = "options"
    BY DEF Last
  <2> QED BY <2>1, <2>2 DEF OptionsPath, FilePath
<1>5. Front(DatabasePath) = OutputPath /\ Last(DatabasePath) = "database"
  BY ShortFronts DEF OutputPath, DatabasePath
<1>6. Front(AdvancedPath) = DatabasePath /\ Last(AdvancedPath) = "advanced"
  <2>1. Front(<<"output", "database", "advanced">>) = <<"output", "database">>
    BY FrontOfThree, Zenon
  <2>2. Last(<<"output", "database", "advanced">>) = "advanced"
    BY DEF Last
  <2> QED BY <2>1, <2>2 DEF AdvancedPath, DatabasePath
<1>7. /\ OutputPath # <<>> /\ FilePath # <<>> /\ OptionsPath # <<>> /\ DatabasePath # <<>>
      /\ AdvancedPath # <<>> /\ FilePath # DatabasePath
  BY DEF OutputPath, FilePath, OptionsPath, DatabasePath, AdvancedPath
<1> QED BY <1>1, <1>2, <1>3, <1>4, <1>5, <1>6, <1>7

InitRootIs(t, type) ==
    /\ PlainTree(t) /\ Holds(t, <<>>, RootMembers, {"output"})
    /\ Holds(t, OutputPath, OutputMembers(type), {})

LEMMA InitRootShape ==
    ASSUME NEW type, NEW t, t = InitRoot(type)
    PROVE  InitRootIs(t, type)
<1> DEFINE s == ObjectAt(<<>>, RootMembers)
           m == OutputMembers(type)
           o == {"output"}
<1>1. Joins(t, s, OutputPath, <<>>, "output", m)
  <2>1. t = s ++ ObjectAt(OutputPath, m)
    BY DEF InitRoot, RootMembers, OutputMembers, OutputPath
  <2>2. ArePlain(m)
    BY OutputMembersShape, Zenon
  <2> QED BY <2>1, <2>2, RootPaths, Zenon DEF Joins
<1>2. ArePlain(RootMembers)
  BY RootMembersShape
<1>3. s = ObjectAt(<<>>, RootMembers) /\ m = OutputMembers(type)
  OBVIOUS
<1>4. Room(RootMembers, {}, "output", o)
  BY RootMembersShape DEF Room
<1> HIDE DEF s, m
<1>5. PlainTree(s) /\ Holds(s, <<>>, RootMembers, {})
  BY <1>2, <1>3, PlainObject, Zenon
<1> HIDE DEF o
<1>7. PlainTree(t) /\ Holds(t, OutputPath, m, {}) /\ Holds(t, <<>>, RootMembers, o)
  BY <1>1, <1>4, <1>5, OneMore, Zenon
<1> QED BY <1>3, <1>7 DEF InitRootIs, o

FileRoot(format, table) ==
    InitRoot("file") ++ ObjectAt(FilePath, [format |-> Text(format)])
    ++ ObjectAt(OptionsPath, FormatOptions(format, table))

(* The root of a template with a file.                                     *)
FileRootIs(t, format, options) ==
    /\ PlainTree(t) /\ Holds(t, <<>>, RootMembers, {"output"})
    /\ Holds(t, OutputPath, OutputMembers("file"), {"file"})
    /\ Holds(t, FilePath, FileMembers(format), {"options"})
    /\ Holds(t, OptionsPath, options, {})

LEMMA FileRootShape ==
    ASSUME NEW format, NEW table, NEW options, options = FormatOptions(format, table),
           ArePlain(options), NEW t, t = FileRoot(format, table)
    PROVE  FileRootIs(t, format, options)
<1> DEFINE r == InitRoot("file")
           s == r ++ ObjectAt(FilePath, FileMembers(format))
           m == OutputMembers("file")
           n == FileMembers(format)
           output == {"output"}
           second == {"file"}
           third == {"options"}
<1>1. /\ s = r ++ ObjectAt(FilePath, n) /\ t = s ++ ObjectAt(OptionsPath, options)
      /\ m = OutputMembers("file") /\ n = FileMembers(format)
      /\ output = {"output"} /\ second = {"file"} /\ third = {"options"}
  BY DEF FileRoot, FileMembers
<1>2. InitRootIs(r, "file")
  BY InitRootShape, Zenon
<1>3. ArePlain(n)
  BY OutputMembersShape, Zenon
<1>4. "file" \notin DOMAIN m
  BY DEF OutputMembers
<1>5. "options" \notin DOMAIN n
  BY DEF FileMembers
<1>6. <<>> # OutputPath /\ <<>> # FilePath /\ OutputPath # FilePath
  BY DEF OutputPath, FilePath
<1> HIDE DEF r, s, m, n, output, second, third
<1>7. Joins(s, r, FilePath, OutputPath, "file", n)
  BY <1>1, <1>3, RootPaths, Zenon DEF Joins
<1>8. Joins(t, s, OptionsPath, FilePath, "options", options)
  BY <1>1, <1>3, RootPaths, Zenon DEF Joins
<1>9. Room(m, {}, "file", second)
  BY <1>1, <1>4 DEF Room
<1>10. Room(n, {}, "options", third)
  BY <1>1, <1>5 DEF Room
<1>11. PlainTree(r) /\ Holds(r, <<>>, RootMembers, output) /\ Holds(r, OutputPath, m, {})
  BY <1>1, <1>2 DEF InitRootIs
<1>12. PlainTree(s) /\ Holds(s, FilePath, n, {}) /\ Holds(s, OutputPath, m, second)
  BY <1>7, <1>9, <1>11, OneMore, Zenon
<1>13. Holds(s, <<>>, RootMembers, output)
  BY <1>6, <1>7, <1>9, <1>11, OthersKept, Zenon
<1>14. /\ PlainTree(t) /\ Holds(t, OptionsPath, options, {})
       /\ Holds(t, FilePath, n, third)
  BY <1>8, <1>10, <1>12, OneMore, Zenon
<1>15. Holds(t, <<>>, RootMembers, output)
  BY <1>6, <1>8, <1>10, <1>12, <1>13, OthersKept, Zenon
<1>16. Holds(t, OutputPath, m, second)
  BY <1>6, <1>8, <1>10, <1>12, OthersKept, Zenon
<1> QED BY <1>1, <1>14, <1>15, <1>16 DEF FileRootIs

(* The root of a document with a database.                                 *)
DatabaseRootIs(t, connection, table) ==
    /\ PlainTree(t) /\ Holds(t, <<>>, RootMembers, {"output"})
    /\ Holds(t, OutputPath, OutputMembers("database"), {"database"})
    /\ Holds(t, DatabasePath, DatabaseMembers(connection, table), {"advanced"})
    /\ Holds(t, AdvancedPath, AdvancedMembers, {})

LEMMA DatabaseRootShape ==
    ASSUME NEW connection, NEW table, NEW t, t = DatabaseRoot(connection, table)
    PROVE  DatabaseRootIs(t, connection, table)
<1> DEFINE r == InitRoot("database")
           s == r ++ ObjectAt(DatabasePath, DatabaseMembers(connection, table))
           m == OutputMembers("database")
           n == DatabaseMembers(connection, table)
           output == {"output"}
           second == {"database"}
           third == {"advanced"}
<1>1. /\ s = r ++ ObjectAt(DatabasePath, n) /\ t = s ++ ObjectAt(AdvancedPath, AdvancedMembers)
      /\ m = OutputMembers("database") /\ n = DatabaseMembers(connection, table)
      /\ output = {"output"} /\ second = {"database"} /\ third = {"advanced"}
  BY DEF DatabaseRoot, DatabaseMembers, AdvancedMembers
<1>2. InitRootIs(r, "database")
  BY InitRootShape, Zenon
<1>3. ArePlain(n) /\ ArePlain(AdvancedMembers)
  BY DatabaseMembersShape, AdvancedMembersShape, Zenon
<1>4. "database" \notin DOMAIN m
  BY DEF OutputMembers
<1>5. "advanced" \notin DOMAIN n
  BY DEF DatabaseMembers
<1>6. <<>> # OutputPath /\ <<>> # DatabasePath /\ OutputPath # DatabasePath
  BY DEF OutputPath, DatabasePath
<1> HIDE DEF r, s, m, n, output, second, third
<1>7. Joins(s, r, DatabasePath, OutputPath, "database", n)
  BY <1>1, <1>3, RootPaths, Zenon DEF Joins
<1>8. Joins(t, s, AdvancedPath, DatabasePath, "advanced", AdvancedMembers)
  BY <1>1, <1>3, RootPaths, Zenon DEF Joins
<1>9. Room(m, {}, "database", second)
  BY <1>1, <1>4 DEF Room
<1>10. Room(n, {}, "advanced", third)
  BY <1>1, <1>5 DEF Room
<1>11. PlainTree(r) /\ Holds(r, <<>>, RootMembers, output) /\ Holds(r, OutputPath, m, {})
  BY <1>1, <1>2 DEF InitRootIs
<1>12. PlainTree(s) /\ Holds(s, DatabasePath, n, {}) /\ Holds(s, OutputPath, m, second)
  BY <1>7, <1>9, <1>11, OneMore, Zenon
<1>13. Holds(s, <<>>, RootMembers, output)
  BY <1>6, <1>7, <1>9, <1>11, OthersKept, Zenon
<1>14. /\ PlainTree(t) /\ Holds(t, AdvancedPath, AdvancedMembers, {})
       /\ Holds(t, DatabasePath, n, third)
  BY <1>8, <1>10, <1>12, OneMore, Zenon
<1>15. Holds(t, <<>>, RootMembers, output)
  BY <1>6, <1>8, <1>10, <1>12, <1>13, OthersKept, Zenon
<1>16. Holds(t, OutputPath, m, second)
  BY <1>6, <1>8, <1>10, <1>12, OthersKept, Zenon
<1> QED BY <1>1, <1>14, <1>15, <1>16 DEF DatabaseRootIs

(***************************************************************************)
(* What run demands.                                                       *)
(***************************************************************************)
Complete(root) ==
    /\ Has(root, <<"rows">>) /\ Has(root, OutputPath) /\ Has(root, <<"output", "type">>)
    /\ OutputType(root) = "database" =>
          /\ Has(root, DatabasePath)
          /\ DatabaseOutput(root).connection # "" /\ DatabaseOutput(root).table # ""
    /\ OutputType(root) # "database" =>
          Has(root, FilePath) /\ Has(root, Append(FilePath, "format"))

(* A document that check accepts and that has all of it is accepted by run.*)
LEMMA AllowedIsRequired ==
    ASSUME NEW doc, Accepted(doc, "Allow"), Complete(doc.root)
    PROVE  Accepted(doc, "Require")
<1> DEFINE root == doc.root
<1>1. RowsIssues(root, "Require") = RowsIssues(root, "Allow")
  BY DEF RowsIssues, Complete
<1>2. ASSUME OutputType(root) = "database"
      PROVE  DatabaseIssues(root, "Require") = DatabaseIssues(root, "Allow")
  <2>1. Has(root, DatabasePath)
    BY <1>2 DEF Complete
  <2>2. {j \in {"connection", "table"} : DatabaseOutput(root)[j] = ""} = {}
    BY <1>2 DEF Complete
  <2> QED BY <2>1, <2>2 DEF DatabaseIssues
<1>3. ASSUME OutputType(root) # "database"
      PROVE  FileIssues(root, "Require") = FileIssues(root, "Allow")
  <2>1. Has(root, FilePath) /\ Has(root, Append(FilePath, "format"))
    BY <1>3 DEF Complete
  <2> QED BY <2>1 DEF FileIssues, IssueIf, When
<1>4. OutputIssues(root, "Require") = OutputIssues(root, "Allow")
  <2>1. Has(root, OutputPath) /\ Has(root, <<"output", "type">>)
    BY DEF Complete
  <2>2. IssueIf("Require" = "Require" /\ ~Has(root, <<"output", "type">>), <<"output", "type">>)
        = IssueIf("Allow" = "Require" /\ ~Has(root, <<"output", "type">>), <<"output", "type">>)
    BY <2>1 DEF IssueIf, When
  <2>3. (IF OutputType(root) = "database" THEN DatabaseIssues(root, "Require")
         ELSE FileIssues(root, "Require"))
        = (IF OutputType(root) = "database" THEN DatabaseIssues(root, "Allow")
           ELSE FileIssues(root, "Allow"))
    BY <1>2, <1>3
  <2> QED BY <2>1, <2>2, <2>3 DEF OutputIssues
<1>5. Issues(doc, "Require") = Issues(doc, "Allow")
  BY <1>1, <1>4 DEF Issues
<1> QED BY <1>5 DEF Accepted

(***************************************************************************)
(* What is read of the roots.                                              *)
(***************************************************************************)
IsHeld(t, path, members, objects, k) ==
    /\ Has(t, Append(path, k)) <=> k \in DOMAIN members \cup objects
    /\ k \in DOMAIN members => t[Append(path, k)] = members[k]

LEMMA HeldMember ==
    ASSUME NEW t, IsTree(t), NEW path, NEW members, NEW objects,
           Holds(t, path, members, objects), NEW k
    PROVE  IsHeld(t, path, members, objects, k)
<1>1. IsPath(path) /\ Keys(t, path) = DOMAIN members \cup objects
  BY DEF Holds
<1>2. k \in Keys(t, path) <=> Has(t, Append(path, k))
  BY <1>1, KeysOf, Zenon
<1> QED BY <1>1, <1>2 DEF Holds, IsHeld

LEMMA TypeRead ==
    ASSUME NEW t, IsTree(t), NEW s \in OutputTypes, NEW objects,
           Holds(t, OutputPath, OutputMembers(s), objects)
    PROVE  OutputType(t) = s /\ Has(t, <<"output", "type">>) /\ Has(t, OutputPath)
           /\ t[<<"output", "type">>] = Text(s)
<1> DEFINE p == Append(OutputPath, "type")
           m == OutputMembers(s)
<1>1. DOMAIN m = {"type"} /\ m["type"] = Text(s)
  BY DEF OutputMembers
<1>2. p = <<"output", "type">>
  BY ShortPaths DEF OutputPath
<1>3. Has(t, p) /\ t[p] = Text(s)
  <2> HIDE DEF m
  <2>0. Holds(t, OutputPath, m, objects)
    BY DEF m
  <2>1. IsHeld(t, OutputPath, m, objects, "type")
    BY <2>0, HeldMember, Zenon
  <2> QED BY <1>1, <2>1 DEF IsHeld
<1>4. Has(t, OutputPath)
  BY DEF Holds, IsObject
<1>5. OutputType(t) =
         IF Has(t, p) /\ Fits(OneOf(OutputTypes), t[p]) THEN Reading(t[p]) ELSE "file"
  BY DEF OutputType, Read, TypeKind
<1>6. Text(s).type = "string" /\ Text(s).text = s
  BY DEF Text, Value
<1>7. Fits(OneOf(OutputTypes), Text(s)) /\ Reading(Text(s)) = s
  <2> DEFINE v == Text(s)
  <2>1. v.type = "string" /\ v.text = s
    BY <1>6
  <2> HIDE DEF v
  <2>2. Fits(OneOf(OutputTypes), v) /\ Reading(v) = s
    BY <2>1 DEF Fits, OneOf, Kind, Reading
  <2> QED BY <2>2 DEF v
<1> HIDE DEF p
<1> QED BY <1>2, <1>3, <1>4, <1>5, <1>7

LEMMA DatabaseRead ==
    ASSUME NEW t, IsTree(t), NEW connection, connection # "", NEW table, table # "", NEW objects,
           Holds(t, DatabasePath, DatabaseMembers(connection, table), objects)
    PROVE  DatabaseOutput(t).connection = connection /\ DatabaseOutput(t).table = table
<1> DEFINE m == DatabaseMembers(connection, table)
           a == Text(connection)
           b == Text(table)
           mode == Read(t, DatabasePath, [mode |-> OneOf(DatabaseModes)], DatabaseDefaults).mode
           defaults == DatabaseDefaults ++ Presets[mode]
           own == Read(t, DatabasePath, DatabaseKinds, defaults)
           all == Read(t, AdvancedPath, AdvancedKinds, own) ++ own
           p(k) == Append(DatabasePath, k)
<1>1. DatabaseOutput(t) = all
  BY DEF DatabaseOutput
<1>2. DOMAIN m = {"connection", "table", "mode", "write_mode", "transaction_mode",
                  "error_policy"}
      /\ m["connection"] = a /\ m["table"] = b
  BY DEF DatabaseMembers
<1>3. Holds(t, DatabasePath, m, objects)
  OBVIOUS
<1> HIDE DEF m
<1>4. ASSUME NEW k \in {"connection", "table"}
      PROVE  Has(t, p(k)) /\ t[p(k)] = m[k]
  <2>1. IsHeld(t, DatabasePath, m, objects, k)
    BY <1>3, HeldMember, Zenon
  <2> QED BY <1>2, <2>1 DEF IsHeld
<1>5. ASSUME NEW s, s # "", NEW v, v = Text(s)
      PROVE  Fits(NonEmpty, v) /\ Reading(v) = s
  <2>1. v.type = "string" /\ v.text = s
    BY <1>5 DEF Text, Value
  <2> QED BY <1>5, <2>1 DEF Fits, NonEmpty, Kind, Reading
<1>6. Fits(NonEmpty, a) /\ Reading(a) = connection /\ Fits(NonEmpty, b) /\ Reading(b) = table
  BY <1>5
<1>7. /\ DatabaseKinds["connection"] = NonEmpty /\ DatabaseKinds["table"] = NonEmpty
      /\ "connection" \in DOMAIN DatabaseKinds /\ "table" \in DOMAIN DatabaseKinds
  BY DEF DatabaseKinds, AdvancedKinds, ++
<1> HIDE DEF a, b, defaults
<1>8. /\ DOMAIN own = DOMAIN DatabaseKinds
      /\ \A k \in DOMAIN DatabaseKinds : Has(t, p(k)) /\ Fits(DatabaseKinds[k], t[p(k)])
                                            => own[k] = Reading(t[p(k)])
  BY DEF Read
<1>9. own["connection"] = connection /\ own["table"] = table
  BY <1>2, <1>4, <1>6, <1>7, <1>8
<1>10. /\ DOMAIN Read(t, AdvancedPath, AdvancedKinds, own) = DOMAIN AdvancedKinds
       /\ "connection" \notin DOMAIN AdvancedKinds /\ "table" \notin DOMAIN AdvancedKinds
  BY DEF Read, AdvancedKinds
<1>11. "connection" \in DOMAIN own /\ "table" \in DOMAIN own
  BY <1>7, <1>8
<1> HIDE DEF own
<1> DEFINE advanced == Read(t, AdvancedPath, AdvancedKinds, own)
<1>12. "connection" \notin DOMAIN advanced /\ "table" \notin DOMAIN advanced
  BY <1>10
<1> HIDE DEF advanced
<1>13. all["connection"] = own["connection"] /\ all["table"] = own["table"]
  BY <1>11, <1>12 DEF ++, advanced
<1> QED BY <1>1, <1>9, <1>13

(***************************************************************************)
(* The roots that init writes are admitted and complete.                   *)
(***************************************************************************)
LEMMA RootRows ==
    ASSUME NEW t, IsTree(t), Holds(t, <<>>, RootMembers, {"output"})
    PROVE  Has(t, <<"rows">>) /\ HasShape(t, <<>>, RootShape)
<1>1. HasShape(t, <<>>, RootShape)
  BY RootSuits, SuitsShape, Zenon
<1>2. "rows" \in Keys(t, <<>>)
  BY RootMembersShape DEF Holds
<1> QED BY <1>1, <1>2, TopKeys

Ready(t) ==
    /\ IsTree(t) /\ PlainNumbers(t) /\ HasShape(t, <<>>, RootShape)
    /\ OutputAdmitted(t) /\ Complete(t)

LEMMA FileRootReady ==
    ASSUME NEW format \in OutputFormats, NEW options, OptionsSuit(format, options),
           NEW t, FileRootIs(t, format, options)
    PROVE  Ready(t)
<1> DEFINE m == OutputMembers("file")
           n == FileMembers(format)
           file == {"file"}
           rest == {"options"}
<1>1. /\ IsTree(t) /\ PlainNumbers(t) /\ Holds(t, <<>>, RootMembers, {"output"})
      /\ Holds(t, OutputPath, m, file) /\ Holds(t, FilePath, n, rest)
      /\ Holds(t, OptionsPath, options, {})
  BY DEF FileRootIs, PlainTree, PlainNumbers, Plain
<1>2. Has(t, <<"rows">>) /\ HasShape(t, <<>>, RootShape)
  BY <1>1, RootRows
<1>3. HasShape(t, OutputPath, OutputShape)
  <2>1. Suits(OutputShape, m, file)
    BY OutputSuits
  <2> QED BY <1>1, <2>1, SuitsShape, Zenon
<1>4. HasShape(t, FilePath, FileShape)
  <2>1. Suits(FileShape, n, rest)
    BY FileSuits
  <2> QED BY <1>1, <2>1, SuitsShape, Zenon
<1>5. HasShape(t, OptionsPath, OptionShape(format))
  BY <1>1, SuitsShape, Zenon DEF OptionsSuit
<1>6. OutputType(t) = "file" /\ Has(t, <<"output", "type">>) /\ Has(t, OutputPath)
      /\ t[<<"output", "type">>] = Text("file")
  BY <1>1, TypeRead DEF OutputTypes
<1>7. DOMAIN n = {"format"} /\ n["format"] = Text(format) /\ DOMAIN m = {"type"}
  BY DEF FileMembers, OutputMembers
<1>8. Has(t, FilePath)
  BY <1>1 DEF Holds, IsObject
<1> DEFINE p == Append(FilePath, "format")
<1>9. Has(t, p) /\ t[p] = Text(format)
  <2> HIDE DEF n
  <2>1. IsHeld(t, FilePath, n, rest, "format")
    BY <1>1, HeldMember, Zenon
  <2> QED BY <1>7, <2>1 DEF IsHeld
<1>10. t[p].text = format
  BY <1>9 DEF Text, Value
<1>11. FileAdmitted(t)
  BY <1>4, <1>5, <1>10 DEF FileAdmitted
<1>12. ~Has(t, DatabasePath)
  <2> HIDE DEF m
  <2>1. DatabasePath = Append(OutputPath, "database")
    BY ShortPaths DEF OutputPath, DatabasePath
  <2>2. IsHeld(t, OutputPath, m, file, "database")
    BY <1>1, HeldMember, Zenon
  <2> QED BY <1>7, <2>1, <2>2 DEF IsHeld
<1>13. ~Has(t, AdvancedPath)
  BY <1>1, <1>12, RootPaths, TreeShape DEF Has, IsObject
<1>14. Has(t, <<"output", t[<<"output", "type">>].text>>)
  <2>1. t[<<"output", "type">>].text = "file"
    BY <1>6 DEF Text, Value
  <2> QED BY <1>8, <2>1 DEF FilePath
<1>15. OutputAdmitted(t)
  BY <1>3, <1>11, <1>12, <1>13, <1>14 DEF OutputAdmitted, HasShape
<1>16. Complete(t)
  BY <1>2, <1>6, <1>8, <1>9 DEF Complete
<1> QED BY <1>1, <1>2, <1>15, <1>16 DEF Ready

LEMMA DatabaseRootReady ==
    ASSUME NEW connection, connection # "", NEW table, table # "",
           NEW t, DatabaseRootIs(t, connection, table)
    PROVE  Ready(t) /\ DatabaseOutput(t).table = table
<1> DEFINE m == OutputMembers("database")
           n == DatabaseMembers(connection, table)
           database == {"database"}
           rest == {"advanced"}
<1>1. /\ IsTree(t) /\ PlainNumbers(t) /\ Holds(t, <<>>, RootMembers, {"output"})
      /\ Holds(t, OutputPath, m, database) /\ Holds(t, DatabasePath, n, rest)
      /\ Holds(t, AdvancedPath, AdvancedMembers, {})
  BY DEF DatabaseRootIs, PlainTree, PlainNumbers, Plain
<1>2. Has(t, <<"rows">>) /\ HasShape(t, <<>>, RootShape)
  BY <1>1, RootRows
<1>3. HasShape(t, OutputPath, OutputShape)
  <2>1. Suits(OutputShape, m, database)
    BY OutputSuits
  <2> QED BY <1>1, <2>1, SuitsShape, Zenon
<1>4. HasShape(t, DatabasePath, DatabaseShape)
  <2>1. Suits(DatabaseShape, n, rest)
    BY DatabaseSuits
  <2> QED BY <1>1, <2>1, SuitsShape, Zenon
<1>5. HasShape(t, AdvancedPath, AdvancedShape)
  BY <1>1, AdvancedSuits, SuitsShape, Zenon
<1>6. OutputType(t) = "database" /\ Has(t, <<"output", "type">>) /\ Has(t, OutputPath)
      /\ t[<<"output", "type">>] = Text("database")
  BY <1>1, TypeRead DEF OutputTypes
<1>7. DOMAIN m = {"type"}
  BY DEF OutputMembers
<1>8. Has(t, DatabasePath)
  BY <1>1 DEF Holds, IsObject
<1>9. DatabaseOutput(t).connection = connection /\ DatabaseOutput(t).table = table
  BY <1>1, DatabaseRead
<1>10. ~Has(t, FilePath)
  <2> HIDE DEF m
  <2>1. FilePath = Append(OutputPath, "file")
    BY ShortPaths DEF OutputPath, FilePath
  <2>2. IsHeld(t, OutputPath, m, database, "file")
    BY <1>1, HeldMember, Zenon
  <2> QED BY <1>7, <2>1, <2>2 DEF IsHeld
<1>11. FileAdmitted(t)
  BY <1>10 DEF FileAdmitted, HasShape
<1>14. Has(t, <<"output", t[<<"output", "type">>].text>>)
  <2>1. t[<<"output", "type">>].text = "database"
    <3>1. Text("database").text = "database"
      BY DEF Text, Value
    <3> QED BY <1>6, <3>1
  <2> QED BY <1>8, <2>1 DEF DatabasePath
<1>15. OutputAdmitted(t)
  BY <1>3, <1>4, <1>5, <1>11, <1>14 DEF OutputAdmitted
<1>16. Complete(t)
  BY <1>2, <1>6, <1>8, <1>9 DEF Complete
<1> QED BY <1>1, <1>2, <1>9, <1>15, <1>16 DEF Ready

(***************************************************************************)
(* The fields that are collected.                                          *)
(***************************************************************************)
CollectedOf(doc) == {i \in DOMAIN doc.fields : Collected(doc.fields[i])}

LEMMA SpecsCounted ==
    ASSUME NEW doc, IsDocument(doc)
    PROVE  /\ IsFiniteSet(DOMAIN FieldSpecs(doc))
           /\ Len(FieldSpecs(doc)) \in Nat /\ DOMAIN FieldSpecs(doc) = 1 .. Len(FieldSpecs(doc))
<1> DEFINE c == CollectedOf(doc)
           n == Cardinality(c)
<1>1. DOMAIN doc.fields = 1 .. Len(doc.fields) /\ Len(doc.fields) \in Nat
  BY DEF IsDocument
<1>2. IsFiniteSet(c)
  <2>1. IsFiniteSet(1 .. Len(doc.fields))
    BY <1>1, FS_Interval
  <2>2. c \subseteq 1 .. Len(doc.fields)
    BY <1>1 DEF CollectedOf
  <2> HIDE DEF c
  <2> QED BY <2>1, <2>2, FS_Subset
<1>3. n \in Nat
  BY <1>2, FS_CardinalityType
<1> DEFINE nth(m) == CHOOSE i \in c : Cardinality({j \in c : j <= i}) = m
           specs == [m \in 1 .. n |-> FieldSpec(doc.fields[nth(m)])]
<1>4. FieldSpecs(doc) = specs
  BY DEF FieldSpecs, CollectedOf
<1> HIDE DEF n, nth
<1>5. DOMAIN specs = 1 .. n /\ Len(specs) = n
  BY <1>3
<1>6. IsFiniteSet(1 .. n)
  BY <1>3, FS_Interval
<1> QED BY <1>3, <1>4, <1>5, <1>6

(* Where all fields are collected, the specs are those of the fields.      *)
LEMMA SpecsOf ==
    ASSUME NEW doc, IsDocument(doc), \A i \in DOMAIN doc.fields : Collected(doc.fields[i])
    PROVE  /\ DOMAIN FieldSpecs(doc) = DOMAIN doc.fields
           /\ \A i \in DOMAIN doc.fields : FieldSpecs(doc)[i] = FieldSpec(doc.fields[i])
<1> DEFINE N == Len(doc.fields)
           c == {i \in DOMAIN doc.fields : Collected(doc.fields[i])}
           nth(m) == CHOOSE i \in c : Cardinality({j \in c : j <= i}) = m
<1>1. DOMAIN doc.fields = 1 .. N /\ N \in Nat
  BY DEF IsDocument
<1>2. c = 1 .. N
  BY <1>1
<1>3. FieldSpecs(doc) = [m \in 1 .. Cardinality(c) |-> FieldSpec(doc.fields[nth(m)])]
  BY DEF FieldSpecs
<1> HIDE DEF N, c
<1>4. \A i \in 0 .. N : Cardinality(1 .. i) = i
  BY <1>1, FS_Interval
<1>5. Cardinality(c) = N
  BY <1>1, <1>2, <1>4
<1>6. ASSUME NEW i \in 1 .. N
      PROVE  Cardinality({j \in c : j <= i}) = i
  <2>1. {j \in c : j <= i} = 1 .. i
    BY <1>1, <1>2
  <2>2. i \in 0 .. N
    BY <1>1
  <2> QED BY <1>4, <2>1, <2>2
<1>7. ASSUME NEW m \in 1 .. N
      PROVE  nth(m) = m
  <2>1. \E i \in c : Cardinality({j \in c : j <= i}) = m
    BY <1>2, <1>6
  <2>2. nth(m) \in c /\ Cardinality({j \in c : j <= nth(m)}) = m
    BY <2>1
  <2> HIDE DEF nth
  <2> QED BY <1>2, <1>6, <2>2
<1> HIDE DEF nth
<1> QED BY <1>1, <1>3, <1>5, <1>7

(***************************************************************************)
(* A document is one, whoever writes it.                                   *)
(***************************************************************************)
GoodFields(fields) ==
    /\ fields = [i \in 1 .. Len(fields) |-> fields[i]] /\ Len(fields) \in Nat \ {0}
    /\ \A i \in 1 .. Len(fields) : \E g \in Generators : MadeFor(fields[i], g)

LEMMA GoodIsDocument ==
    ASSUME NEW t, IsTree(t), NEW fields, GoodFields(fields),
           NEW doc, doc = [root |-> t, fields |-> fields]
    PROVE  IsDocument(doc)
<1>1. doc.root = t /\ doc.fields = fields /\ doc = [root |-> doc.root, fields |-> doc.fields]
  OBVIOUS
<1>2. /\ fields = [i \in 1 .. Len(fields) |-> fields[i]] /\ Len(fields) \in Nat
      /\ DOMAIN fields = 1 .. Len(fields)
  BY Zenon DEF GoodFields
<1>3. ASSUME NEW i \in 1 .. Len(fields)
      PROVE  IsTree(fields[i])
  <2>1. PICK g \in Generators : MadeFor(fields[i], g)
    BY DEF GoodFields
  <2> QED BY <2>1, MadeForIsRight
<1> QED BY <1>1, <1>2, <1>3 DEF IsDocument

LEMMA TemplateIsGood == GoodFields(TemplateFields)
<1>1. DOMAIN TemplateFields = 1 .. 4 /\ Len(TemplateFields) = 4
      /\ TemplateFields = [i \in 1 .. 4 |-> TemplateFields[i]]
  BY TemplateFieldsShape
<1>2. ASSUME NEW i \in 1 .. 4
      PROVE  \E g \in Generators : MadeFor(TemplateFields[i], g)
  BY <1>1, TemplateFieldsAre
<1> QED BY <1>1, <1>2 DEF GoodFields

LEMMA InferredIsGood ==
    ASSUME NEW table, IsTable(table), NEW generators \in GeneratorChoices(table),
           table.columns # <<>>
    PROVE  GoodFields(InferredFields(table, generators))
<1> DEFINE f == InferredFields(table, generators)
           n == Len(table.columns)
<1>1. n \in Nat /\ DOMAIN table.columns = 1 .. n
  BY DEF IsTable
<1>2. n # 0
  <2> SUFFICES ASSUME n = 0 PROVE FALSE
    OBVIOUS
  <2>1. DOMAIN table.columns = {}
    BY <1>1
  <2>2. table.columns = <<>>
    BY <1>1, <2>1
  <2> QED BY <2>2
<1>3. DOMAIN f = 1 .. n /\ Len(f) = n /\ f = [i \in 1 .. n |-> f[i]]
  BY <1>1 DEF InferredFields
<1>4. ASSUME NEW i \in 1 .. n
      PROVE  \E g \in Generators : MadeFor(f[i], g)
  BY <1>1, InferredFieldsAre
<1> HIDE DEF n, f
<1>5. GoodFields(f)
  BY <1>1, <1>2, <1>3, <1>4 DEF GoodFields
<1> QED BY <1>5 DEF f

LEMMA NamesAreGiven == \A table \in TableNames : table # ""
  BY TablesAssumption DEF TableNames, DefaultTable, IsTable

(* What init writes.                                                       *)
WellWritten(doc) ==
    IsDocument(doc) /\ Ready(doc.root) /\ GoodFields(doc.fields)

LEMMA WrittenIsGood ==
    ASSUME NEW t, Ready(t), NEW fields, GoodFields(fields),
           NEW doc, doc = [root |-> t, fields |-> fields]
    PROVE  WellWritten(doc)
<1>1. IsTree(t) /\ doc.root = t /\ doc.fields = fields
  BY DEF Ready
<1>2. IsDocument(doc)
  BY <1>1, GoodIsDocument
<1> QED BY <1>1, <1>2 DEF WellWritten

LEMMA FileDocumentIsGood ==
    ASSUME NEW format \in OutputFormats, NEW table \in TableNames
    PROVE  WellWritten(FileDocument(format, table))
<1> DEFINE t == FileRoot(format, table)
           options == FormatOptions(format, table)
           fields == TemplateFields
           doc == [root |-> t, fields |-> fields]
<1>1. FileDocument(format, table) = doc
  BY DEF FileDocument, FileRoot
<1>2. OptionsSuit(format, options)
  BY NamesAreGiven, FormatOptionsSuit
<1>3. GoodFields(fields)
  BY TemplateIsGood
<1>4. t = FileRoot(format, table) /\ options = FormatOptions(format, table)
  OBVIOUS
<1> HIDE DEF t, options, fields
<1>5. FileRootIs(t, format, options)
  BY <1>2, <1>4, FileRootShape DEF OptionsSuit
<1>6. Ready(t)
  BY <1>2, <1>5, FileRootReady
<1>7. WellWritten(doc)
  <2>1. doc = [root |-> t, fields |-> fields]
    OBVIOUS
  <2> HIDE DEF doc
  <2> QED BY <1>3, <1>6, <2>1, WrittenIsGood
<1> QED BY <1>1, <1>7

(* ... for a table of a database.                                          *)
WrittenFor(doc, table) == WellWritten(doc) /\ DatabaseOutput(doc.root).table = table

LEMMA DatabaseDocumentIsGood ==
    ASSUME NEW connection, connection # "", NEW table, table # "", NEW fields, GoodFields(fields),
           NEW doc, doc = [root |-> DatabaseRoot(connection, table), fields |-> fields]
    PROVE  WrittenFor(doc, table)
<1> DEFINE t == DatabaseRoot(connection, table)
<1>1. t = DatabaseRoot(connection, table) /\ doc = [root |-> t, fields |-> fields]
  OBVIOUS
<1>5. doc.root = t
  OBVIOUS
<1> HIDE DEF t
<1>2. DatabaseRootIs(t, connection, table)
  BY <1>1, DatabaseRootShape
<1>3. Ready(t) /\ DatabaseOutput(t).table = table
  BY <1>2, DatabaseRootReady
<1>4. WellWritten(doc)
  BY <1>1, <1>3, WrittenIsGood
<1> QED BY <1>3, <1>4, <1>5 DEF WrittenFor

LEMMA InferredFieldsGood ==
    ASSUME NEW table, IsTable(table), NEW generators \in GeneratorChoices(table)
    PROVE  GoodFields(IF table.columns = <<>> THEN TemplateFields
                      ELSE InferredFields(table, generators))
  BY TemplateIsGood, InferredIsGood

(***************************************************************************)
(* What the author makes of it.                                            *)
(***************************************************************************)
LEMMA NoDocumentIsOne == IsDocument(NoDocument)
<1> DEFINE t == At(<<>>, Null)
<1>1. DOMAIN t = {<<>>} /\ t[<<>>] = Null /\ t = [p \in DOMAIN t |-> t[p]]
  BY DEF At
<1>2. NoDocument = [root |-> t, fields |-> <<>>]
  BY DEF NoDocument
<1> HIDE DEF t
<1>3. IsTree(t)
  BY <1>1, ShortPaths, ValuesAre DEF IsTree
<1>4. NoDocument.root = t /\ NoDocument.fields = <<>>
      /\ NoDocument = [root |-> NoDocument.root, fields |-> NoDocument.fields]
  BY <1>2
<1> QED BY <1>3, <1>4 DEF IsDocument

LEMMA EditedRootIsTree ==
    ASSUME NEW t, IsTree(t), NEW changes \in RootEdits
    PROVE  LET after[n \in 0 .. Len(changes)] ==
                   IF n = 0 THEN t ELSE Changed(after[n - 1], changes[n][1], changes[n][2])
           IN IsTree(after[Len(changes)])
<1> DEFINE N == Len(changes)
           More(n, x) == Changed(x, changes[n][1], changes[n][2])
           Solution(f) == f = [n \in 0 .. N |-> IF n = 0 THEN t ELSE More(n, f[n - 1])]
           after == CHOOSE f : Solution(f)
<1>0. N \in Nat /\ \A n \in 1 .. N : IsChange(changes[n][1], changes[n][2])
  BY EditsAssumption
<1>1. ASSUME NEW n \in 1 .. N, NEW x, IsTree(x)
      PROVE  IsTree(More(n, x))
  <2>1. IsChange(changes[n][1], changes[n][2])
    BY <1>0
  <2> QED BY <1>1, <2>1, ChangedIsTree DEF IsChange
<1> SUFFICES IsTree(after[N])
  OBVIOUS
<1> HIDE DEF N, More
<1>2. \E f : Solution(f)
  <2> DEFINE Solves(m, f) == /\ DOMAIN f = 0 .. m /\ f = [n \in 0 .. m |-> f[n]]
                             /\ \A n \in 0 .. m : f[n] = IF n = 0 THEN t ELSE More(n, f[n - 1])
             U == {m \in 0 .. N : \E f : Solves(m, f)}
  <2>1. 0 \in U
    <3> DEFINE f == [n \in 0 .. 0 |-> t]
    <3>1. Solves(0, f)
      OBVIOUS
    <3> HIDE DEF f, Solves
    <3> QED BY <1>0, <3>1
  <2>2. ASSUME NEW m \in 1 .. N, m - 1 \in U
        PROVE  m \in U
    <3>1. PICK f : Solves(m - 1, f)
      BY <2>2
    <3> DEFINE g == [n \in 0 .. m |-> IF n = m THEN More(m, f[m - 1]) ELSE f[n]]
    <3>2. DOMAIN g = 0 .. m /\ g = [n \in 0 .. m |-> g[n]]
      OBVIOUS
    <3>3. ASSUME NEW n \in 0 .. m
          PROVE  g[n] = IF n = 0 THEN t ELSE More(n, g[n - 1])
      <4>1. CASE n = m
        <5>1. n # 0 /\ n - 1 \in 0 .. m /\ n - 1 # m
          BY <1>0, <4>1
        <5>2. g[n] = More(m, f[m - 1]) /\ g[n - 1] = f[m - 1]
          BY <4>1, <5>1
        <5> QED BY <4>1, <5>1, <5>2
      <4>2. CASE n # m
        <5>1. n \in 0 .. m - 1 /\ (n # 0 => n - 1 \in 0 .. m /\ n - 1 # m)
          BY <1>0, <4>2
        <5>2. g[n] = f[n] /\ (n # 0 => g[n - 1] = f[n - 1])
          BY <4>2, <5>1
        <5>3. f[n] = IF n = 0 THEN t ELSE More(n, f[n - 1])
          BY <3>1, <5>1
        <5> HIDE DEF g
        <5> QED BY <5>2, <5>3
      <4> QED BY <4>1, <4>2
    <3> HIDE DEF g
    <3>4. Solves(m, g)
      BY <3>2, <3>3
    <3>5. m \in 0 .. N
      BY <1>0
    <3> HIDE DEF Solves
    <3> QED BY <3>4, <3>5
  <2>3. N \in U
    <3>1. 0 .. N \subseteq U
      <4> HIDE DEF U
      <4> QED BY <1>0, <2>1, <2>2, UpTo
    <3> QED BY <1>0, <3>1
  <2>4. PICK f : Solves(N, f)
    BY <2>3
  <2>5. Solution(f)
    BY <2>4
  <2> QED BY <2>5
<1>3. Solution(after)
  BY <1>2
<1> HIDE DEF after
<1>4. /\ after[0] = t
      /\ \A n \in 1 .. N : after[n] = More(n, after[n - 1])
  <2>1. \A n \in 0 .. N : after[n] = IF n = 0 THEN t ELSE More(n, after[n - 1])
    BY <1>3, Zenon
  <2>2. 0 \in 0 .. N /\ \A n \in 1 .. N : n \in 0 .. N /\ n # 0
    BY <1>0
  <2> QED BY <2>1, <2>2
<1> DEFINE T == {n \in 0 .. N : IsTree(after[n])}
<1>5. 0 \in T
  BY <1>0, <1>4
<1>6. ASSUME NEW n \in 1 .. N, n - 1 \in T
      PROVE  n \in T
  BY <1>0, <1>1, <1>4, <1>6
<1>7. 0 .. N \subseteq T
  <2> HIDE DEF T
  <2> QED BY <1>0, <1>5, <1>6, UpTo
<1> QED BY <1>0, <1>7
=============================================================================
