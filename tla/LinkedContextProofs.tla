------------------------- MODULE LinkedContextProofs -------------------------
(***************************************************************************)
(* Proofs about LinkedContext: the fields of a group agree in every row,   *)
(* rows do not share a record and none is drawn in vain, and conflicting   *)
(* and missing options are refused.                                        *)
(***************************************************************************)
EXTENDS LinkedContext, FiniteSetTheorems, TLAPS

(***************************************************************************)
(* Types.                                                                  *)
(***************************************************************************)
(* A configuration has rows and fields.                                    *)
LEMMA ConfigShape ==
    ASSUME cfg \in Configs
    PROVE  /\ cfg.rows \in Nat
           /\ Len(cfg.fields) \in Nat
           /\ \A n \in FieldIds : cfg.fields[n] \in FieldType
<1>1. cfg.rows \in Nat /\ cfg.fields \in Seq(FieldType)
  BY ConfigsAssumption DEF ConfigType
<1> QED BY <1>1 DEF FieldIds

(* The key of a linked field is one of the keys, and what it wants is a    *)
(* set of options.                                                         *)
LEMMA FieldShape ==
    ASSUME cfg \in Configs, NEW n \in FieldIds
    PROVE  /\ Linked(n) => Key(n) \in Keys
           /\ Wanted(n) \subseteq OptionNames \X OptionValues
           /\ WantsUnique(n) \in BOOLEAN
<1>1. cfg.fields[n] \in FieldType
  BY ConfigShape
<1>2. Linked(n) => Key(n) \in Keys
  <2>1. Module(cfg.fields[n].generator) \in Modules
    <3>1. cfg.fields[n].generator \in LinkedGenerators
      BY <1>1 DEF FieldType
    <3> QED BY <3>1, Zenon DEF LinkedGenerators, Module, Modules
  <2>2. Linked(n) => cfg.fields[n].group \in Groups
    BY <1>1 DEF FieldType, Linked
  <2> QED BY <2>1, <2>2 DEF Key, Keys
<1>3. Wanted(n) \subseteq OptionNames \X OptionValues
  <2>1. Wanted(n) \subseteq cfg.fields[n].options
    BY DEF Wanted
  <2>2. cfg.fields[n].options \subseteq OptionNames \X OptionValues
    BY <1>1 DEF FieldType
  <2> QED BY <2>1, <2>2
<1> QED BY <1>2, <1>3 DEF WantsUnique

(* The operations of a shared context keep its type, and what they do.     *)
LEMMA EnsureShape ==
    ASSUME NEW s \in SharedContext
    PROVE  /\ EnsureContext(s) \in SharedContext
           /\ EnsureContext(s).made
           /\ EnsureContext(s).record = s.record
           /\ EnsureContext(s).next_called <=> s.next_called
           /\ EnsureContext(s).merged = s.merged
           /\ EnsureContext(s).madeFrom = (IF s.made THEN s.madeFrom ELSE s.merged)
<1>1. CASE s.made
  BY <1>1 DEF EnsureContext
<1>2. CASE ~s.made
  BY <1>2 DEF EnsureContext, SharedContext
<1> QED BY <1>1, <1>2

LEMMA DrawShape ==
    ASSUME NEW s \in SharedContext
    PROVE  /\ ContextNext(s) \in SharedContext
           /\ ContextNext(s).made <=> s.made
           /\ ContextNext(s).merged = s.merged
           /\ ContextNext(s).madeFrom = s.madeFrom
           /\ ContextNext(s).next_called
           /\ ContextNext(s).record = (IF s.next_called THEN s.record ELSE s.record + 1)
<1>1. CASE s.next_called
  BY <1>1 DEF ContextNext
<1>2. CASE ~s.next_called
  <2>1. ContextNext(s) = [s EXCEPT !.record = s.record + 1, !.next_called = TRUE]
    BY <1>2 DEF ContextNext
  <2>2. s.record + 1 \in Nat /\ TRUE \in BOOLEAN
    BY DEF SharedContext
  <2>3. ContextNext(s) \in SharedContext
    BY <2>1, <2>2 DEF SharedContext
  <2>4. ~s.next_called => ContextNext(s).record = s.record + 1
    BY <2>1 DEF SharedContext
  <2> QED BY <1>2, <2>1, <2>3, <2>4 DEF SharedContext
<1> QED BY <1>1, <1>2

LEMMA ResetShape ==
    ASSUME NEW s \in SharedContext
    PROVE  /\ Reset(s) \in SharedContext
           /\ Reset(s).record = s.record
           /\ Reset(s).made <=> s.made
           /\ Reset(s).merged = s.merged
           /\ Reset(s).madeFrom = s.madeFrom
           /\ Reset(s).next_called => s.next_called /\ ~s.made
           /\ s.next_called /\ ~s.made => Reset(s).next_called
<1>1. CASE s.made
  BY <1>1 DEF Reset, SharedContext
<1>2. CASE ~s.made
  BY <1>2 DEF Reset
<1> QED BY <1>1, <1>2

LEMMA MergeShape ==
    ASSUME cfg \in Configs, NEW n \in FieldIds, NEW s \in SharedContext
    PROVE  /\ MergeConfig(s, n) \in SharedContext
           /\ MergeConfig(s, n).merged.options = s.merged.options \cup Wanted(n)
           /\ (MergeConfig(s, n).merged.unique <=> s.merged.unique \/ WantsUnique(n))
           /\ MergeConfig(s, n).made <=> s.made
           /\ MergeConfig(s, n).madeFrom = s.madeFrom
           /\ MergeConfig(s, n).record = s.record
           /\ MergeConfig(s, n).next_called <=> s.next_called
<1>1. Wanted(n) \subseteq OptionNames \X OptionValues /\ WantsUnique(n) \in BOOLEAN
  BY FieldShape
<1>2. /\ s.merged \in Context
      /\ s.merged.options \cup Wanted(n) \in SUBSET (OptionNames \X OptionValues)
      /\ (s.merged.unique \/ WantsUnique(n)) \in BOOLEAN
  BY <1>1 DEF SharedContext, Context
<1> HIDE DEF Wanted, WantsUnique
<1> QED BY <1>2 DEF SharedContext, Context, MergeConfig

(* The cells.                                                              *)
LEMMA CellShape ==
    /\ Nothing \in Cells /\ Override \in Cells /\ Own \in Cells
    /\ \A n \in Nat : Of(n) \in Cells /\ Of(n).from = "group" /\ Of(n).record = n
    /\ Nothing.from # "group" /\ Override.from # "group" /\ Own.from # "group"
  BY DEF Nothing, Override, Own, Of, Cells

LEMMA TypeInit == Init => TypeOK
<1> SUFFICES ASSUME Init PROVE TypeOK
  OBVIOUS
<1>1. Len(cfg.fields) \in Nat
  BY ConfigShape DEF Init
<1>2. NewShared \in SharedContext
  BY DEF NewShared, NoOptions, SharedContext, Context
<1> QED BY <1>1, <1>2, CellShape DEF Init, TypeOK

LEMMA TypeStep == TypeOK /\ [Next]_vars => TypeOK'
<1> SUFFICES ASSUME TypeOK, [Next]_vars PROVE TypeOK'
  OBVIOUS
<1> USE DEF TypeOK
<1>0. cfg.rows \in Nat /\ Len(cfg.fields) \in Nat
  BY ConfigShape
<1>1. ASSUME BuildUnlinked PROVE TypeOK'
  BY <1>0, <1>1 DEF BuildUnlinked, FieldIds, RowIds
<1>2. ASSUME BuildLinked PROVE TypeOK'
  <2>1. MergeConfig(shared[Key(at)], at) \in SharedContext
    BY <1>2, FieldShape, MergeShape DEF BuildLinked
  <2>2. shared' \in [Keys -> SharedContext]
    BY <1>2, <2>1 DEF BuildLinked
  <2> QED BY <1>0, <1>2, <2>2 DEF BuildLinked, FieldIds, RowIds
<1>3. ASSUME BuildConflict PROVE TypeOK'
  BY <1>0, <1>3 DEF BuildConflict, FieldIds, RowIds
<1>4. ASSUME BuildDone PROVE TypeOK'
  <2>1. row \in Nat
    OBVIOUS
  <2> QED BY <1>0, <1>4 DEF BuildDone, FieldIds, RowIds, Begin
<1>5. ASSUME GenerateOverride PROVE TypeOK'
  <2>1. shown' = [shown EXCEPT ![row][at] = Override] /\ Override \in Cells
    BY <1>5, CellShape DEF GenerateOverride, Show
  <2>2. shown' \in [RowIds -> [FieldIds -> Cells]]
    BY <2>1
  <2> QED BY <1>0, <1>5, <2>2 DEF GenerateOverride, FieldIds, RowIds
<1>6. ASSUME GenerateOwn PROVE TypeOK'
  <2>1. shown' = [shown EXCEPT ![row][at] = Own] /\ Own \in Cells
    BY <1>6, CellShape DEF GenerateOwn, Show
  <2>2. shown' \in [RowIds -> [FieldIds -> Cells]]
    BY <2>1
  <2> QED BY <1>0, <1>6, <2>2 DEF GenerateOwn, FieldIds, RowIds
<1>7. ASSUME GenerateLinked PROVE TypeOK'
  <2> DEFINE s == ContextNext(EnsureContext(shared[Key(at)]))
  <2>1. s \in SharedContext
    BY <1>7, FieldShape, EnsureShape, DrawShape DEF GenerateLinked
  <2>2. Of(s.record) \in Cells
    BY <2>1, CellShape DEF SharedContext
  <2>3. shared' = [shared EXCEPT ![Key(at)] = s]
        /\ shown' = [shown EXCEPT ![row][at] = Of(s.record)]
    BY <1>7 DEF GenerateLinked, Show
  <2> HIDE DEF s
  <2>4. shared' \in [Keys -> SharedContext] /\ shown' \in [RowIds -> [FieldIds -> Cells]]
    BY <2>1, <2>2, <2>3
  <2> QED BY <1>0, <1>7, <2>4 DEF GenerateLinked, FieldIds, RowIds
<1>8. ASSUME GenerateMissing PROVE TypeOK'
  BY <1>0, <1>8 DEF GenerateMissing, FieldIds, RowIds
<1>9. ASSUME GenerateDone PROVE TypeOK'
  BY <1>0, <1>9 DEF GenerateDone, FieldIds, RowIds
<1>10. ASSUME NextField PROVE TypeOK'
  <2>1. Linked(at) => Reset(shared[Key(at)]) \in SharedContext
    BY <1>10, FieldShape, ResetShape DEF NextField
  <2>2. shared' \in [Keys -> SharedContext]
    BY <1>10, <2>1 DEF NextField
  <2> QED BY <1>0, <1>10, <2>2 DEF NextField, FieldIds, RowIds
<1>11. ASSUME NextRow PROVE TypeOK'
  BY <1>0, <1>11 DEF NextRow, FieldIds, RowIds, Begin
<1>12. ASSUME UNCHANGED vars PROVE TypeOK'
  BY <1>12 DEF vars, FieldIds, RowIds
<1> QED
  BY <1>1, <1>2, <1>3, <1>4, <1>5, <1>6, <1>7, <1>8, <1>9, <1>10, <1>11, <1>12
     DEF Next, Ended

(* Every variable keeps its type, and a field is asked for a value of a    *)
(* row of the run only.                                                    *)
THEOREM TypeCorrect == Spec => []TypeOK
  BY TypeInit, TypeStep, PTL DEF Spec

(***************************************************************************)
(* Options: what has been merged is what the fields that have been         *)
(* constructed want, and they do not contradict each other.                *)
(***************************************************************************)
Built(n) == pc \in {"build", "conflict"} => n < at
BuiltMembers(k) == {n \in Members(k) : Built(n)}

MergedIsWanted ==
    \A k \in Keys :
        /\ \A p : p \in shared[k].merged.options
                    <=> \E n \in BuiltMembers(k) : p \in Wanted(n)
        /\ shared[k].merged.unique <=> \E n \in BuiltMembers(k) : WantsUnique(n)

NoClashYet ==
    \A n, m \in FieldIds :
        SameGroup(n, m) /\ Built(n) /\ Built(m) => ~Clash(Wanted(n), Wanted(m))

MadeFromMerged ==
    \A k \in Keys :
        shared[k].made =>
            /\ pc \notin {"build", "conflict"}
            /\ shared[k].madeFrom = shared[k].merged

OptionsInv ==
    /\ TypeOK
    /\ MergedIsWanted
    /\ NoClashYet
    /\ MadeFromMerged
    /\ pc = "conflict" => HasConflict

LEMMA OptionsInit == Init => OptionsInv
<1> SUFFICES ASSUME Init PROVE OptionsInv
  OBVIOUS
<1>1. TypeOK
  BY TypeInit
<1>2. Len(cfg.fields) \in Nat /\ at = 1 /\ pc = "build"
  BY ConfigShape DEF Init
<1>3. \A n \in FieldIds : ~Built(n)
  BY <1>2 DEF Built, FieldIds
<1>4. \A k \in Keys : BuiltMembers(k) = {}
  BY <1>3 DEF BuiltMembers, Members
<1>5. \A k \in Keys : /\ shared[k].merged.options = {}
                      /\ ~shared[k].merged.unique
                      /\ ~shared[k].made
  BY DEF Init, NewShared, NoOptions
<1> QED BY <1>1, <1>2, <1>3, <1>4, <1>5
        DEF OptionsInv, MergedIsWanted, NoClashYet, MadeFromMerged

(* Steps that change neither the options nor who has been constructed.     *)
LEMMA OptionsKept ==
    ASSUME OptionsInv, TypeOK', cfg' = cfg, pc' # "conflict",
           \A n \in FieldIds : Linked(n) => (Built(n)' <=> Built(n)),
           pc' = "build" => pc = "build",
           \A k \in Keys : /\ shared'[k].merged = shared[k].merged
                           /\ shared'[k].made =>
                                 /\ pc' # "build"
                                 /\ shared'[k].madeFrom = shared[k].merged
    PROVE  OptionsInv'
<1>1. FieldIds' = FieldIds
  BY DEF FieldIds
<1>2. \A n \in FieldIds : /\ Wanted(n)' = Wanted(n)
                          /\ WantsUnique(n)' <=> WantsUnique(n)
                          /\ Linked(n)' <=> Linked(n)
                          /\ Key(n)' = Key(n)
  BY DEF Wanted, WantsUnique, Linked, Key
<1>3. \A k \in Keys : BuiltMembers(k)' = BuiltMembers(k)
  BY <1>1, <1>2 DEF BuiltMembers, Members
<1>4. \A k \in Keys : BuiltMembers(k) \subseteq FieldIds
  BY DEF BuiltMembers, Members
<1>5. MergedIsWanted'
  <2> SUFFICES ASSUME NEW k \in Keys
               PROVE  /\ \A p : p \in shared'[k].merged.options
                              <=> \E n \in BuiltMembers(k)' : p \in Wanted(n)'
                      /\ shared'[k].merged.unique
                            <=> \E n \in BuiltMembers(k)' : WantsUnique(n)'
    BY DEF MergedIsWanted
  <2> QED BY <1>2, <1>3, <1>4 DEF OptionsInv, MergedIsWanted
<1>6. NoClashYet'
  BY <1>1, <1>2 DEF OptionsInv, NoClashYet, SameGroup, Clash
<1>7. MadeFromMerged'
  BY DEF MadeFromMerged
<1> QED BY <1>5, <1>6, <1>7 DEF OptionsInv

(* A field that is constructed adds its options to those of its context.   *)
LEMMA OptionsGrow ==
    ASSUME OptionsInv, TypeOK', BuildLinked
    PROVE  OptionsInv'
<1> DEFINE K == Key(at)
<1>1. /\ at \in FieldIds /\ Linked(at) /\ pc = "build" /\ pc' = "build" /\ cfg' = cfg
      /\ at' = at + 1
      /\ ~Clash(Wanted(at), shared[K].merged.options)
      /\ shared' = [shared EXCEPT ![K] = MergeConfig(@, at)]
  BY DEF BuildLinked
<1>2. /\ cfg \in Configs /\ Len(cfg.fields) \in Nat /\ K \in Keys
      /\ shared \in [Keys -> SharedContext] /\ FieldIds' = FieldIds
  BY <1>1, ConfigShape, FieldShape DEF OptionsInv, TypeOK, FieldIds
<1>3. \A n \in FieldIds : /\ Wanted(n)' = Wanted(n)
                          /\ WantsUnique(n)' <=> WantsUnique(n)
                          /\ Linked(n)' <=> Linked(n)
                          /\ Key(n)' = Key(n)
  BY <1>1 DEF Wanted, WantsUnique, Linked, Key
<1>4. \A n \in FieldIds : Built(n)' <=> Built(n) \/ n = at
  BY <1>1, <1>2 DEF Built, FieldIds
<1>5. \A k \in Keys : \A n : n \in BuiltMembers(k)'
                              <=> n \in BuiltMembers(k) \/ (n = at /\ k = K)
  BY <1>1, <1>2, <1>3, <1>4 DEF BuiltMembers, Members
<1>6. \A k \in Keys : BuiltMembers(k) \subseteq FieldIds
  BY DEF BuiltMembers, Members
<1> DEFINE new == MergeConfig(shared[K], at)
<1>7. /\ new.merged.options = shared[K].merged.options \cup Wanted(at)
      /\ new.merged.unique <=> shared[K].merged.unique \/ WantsUnique(at)
      /\ new.made <=> shared[K].made
  BY <1>1, <1>2, MergeShape
<1>8. \A k \in Keys : shared'[k] = (IF k = K THEN new ELSE shared[k])
  BY <1>1, <1>2
<1> HIDE DEF new, K
<1>9. MergedIsWanted'
  <2> SUFFICES ASSUME NEW k \in Keys
               PROVE  /\ \A p : p \in shared'[k].merged.options
                              <=> \E n \in BuiltMembers(k)' : p \in Wanted(n)'
                      /\ shared'[k].merged.unique
                            <=> \E n \in BuiltMembers(k)' : WantsUnique(n)'
    BY DEF MergedIsWanted
  <2>1. /\ \A p : p \in shared[k].merged.options
                  <=> \E n \in BuiltMembers(k) : p \in Wanted(n)
        /\ shared[k].merged.unique <=> \E n \in BuiltMembers(k) : WantsUnique(n)
    BY DEF OptionsInv, MergedIsWanted
  <2>2. CASE k # K
    BY <1>3, <1>5, <1>6, <1>8, <2>1, <2>2
  <2>3. CASE k = K
    <3>1. \A n : n \in BuiltMembers(k)' <=> n \in BuiltMembers(k) \/ n = at
      BY <1>5, <2>3
    <3>2. at \in FieldIds /\ BuiltMembers(k) \subseteq FieldIds
      BY <1>1, <1>6
    <3>3. shared'[k].merged.options = shared[k].merged.options \cup Wanted(at)
      BY <1>7, <1>8, <2>3
    <3>4. shared'[k].merged.unique <=> shared[k].merged.unique \/ WantsUnique(at)
      BY <1>7, <1>8, <2>3
    <3>5. \A p : p \in shared'[k].merged.options
                  <=> \E n \in BuiltMembers(k)' : p \in Wanted(n)'
      BY <1>3, <2>1, <3>1, <3>2, <3>3
    <3>6. shared'[k].merged.unique <=> \E n \in BuiltMembers(k)' : WantsUnique(n)'
      BY <1>3, <2>1, <3>1, <3>2, <3>4
    <3> QED BY <3>5, <3>6
  <2> QED BY <2>2, <2>3
<1>10. NoClashYet'
  <2>1. \A n \in FieldIds :
           SameGroup(n, at) /\ Built(n) => ~Clash(Wanted(n), Wanted(at))
    <3> SUFFICES ASSUME NEW n \in FieldIds, SameGroup(n, at), Built(n)
                 PROVE  ~Clash(Wanted(n), Wanted(at))
      OBVIOUS
    <3>1. n \in BuiltMembers(K)
      BY DEF SameGroup, BuiltMembers, Members, K
    <3>2. \A p \in Wanted(n) : p \in shared[K].merged.options
      BY <1>2, <3>1 DEF OptionsInv, MergedIsWanted
    <3> QED BY <1>1, <3>2 DEF Clash
  <2>2. ~Clash(Wanted(at), Wanted(at))
    <3>1. Wanted(at) \subseteq cfg.fields[at].options
      BY DEF Wanted
    <3>2. ~Clash(cfg.fields[at].options, cfg.fields[at].options)
      BY <1>1, <1>2, ConfigsAssumption DEF FieldIds
    <3> QED BY <3>1, <3>2 DEF Clash
  <2>3. \A n, m \in FieldIds : Clash(Wanted(n), Wanted(m)) => Clash(Wanted(m), Wanted(n))
    BY DEF Clash
  <2> SUFFICES ASSUME NEW n \in FieldIds, NEW m \in FieldIds,
                      SameGroup(n, m)', Built(n)', Built(m)'
               PROVE  ~Clash(Wanted(n), Wanted(m))'
    BY <1>2 DEF NoClashYet
  <2>4. SameGroup(n, m) /\ SameGroup(m, n)
    BY <1>3 DEF SameGroup
  <2>5. ~Clash(Wanted(n), Wanted(m))
    <3>1. CASE n = at /\ m = at
      BY <2>2, <3>1
    <3>2. CASE n = at /\ m # at
      BY <1>4, <2>1, <2>3, <2>4, <3>2
    <3>3. CASE n # at /\ m = at
      BY <1>4, <2>1, <2>4, <3>3
    <3>4. CASE n # at /\ m # at
      BY <1>4, <2>4, <3>4 DEF OptionsInv, NoClashYet
    <3> QED BY <3>1, <3>2, <3>3, <3>4
  <2> QED BY <1>3, <2>5 DEF Clash
<1>11. MadeFromMerged'
  <2>1. \A k \in Keys : ~shared[k].made
    BY <1>1 DEF OptionsInv, MadeFromMerged
  <2>2. \A k \in Keys : ~shared'[k].made
    BY <1>2, <1>7, <1>8, <2>1 DEF K
  <2> QED BY <2>2 DEF MadeFromMerged
<1> QED BY <1>1, <1>9, <1>10, <1>11 DEF OptionsInv

(* A conflict is one of two fields.                                        *)
LEMMA OptionsConflict ==
    ASSUME OptionsInv, TypeOK', BuildConflict
    PROVE  OptionsInv'
<1>1. /\ at \in FieldIds /\ Linked(at) /\ pc = "build" /\ pc' = "conflict" /\ cfg' = cfg
      /\ at' = at /\ shared' = shared
      /\ Clash(Wanted(at), shared[Key(at)].merged.options)
  BY DEF BuildConflict
<1>2. Key(at) \in Keys
  BY <1>1, FieldShape DEF OptionsInv, TypeOK
<1>3. PICK p \in Wanted(at), q \in shared[Key(at)].merged.options :
         p[1] = q[1] /\ p[2] # q[2]
  BY <1>1 DEF Clash
<1>4. PICK m \in BuiltMembers(Key(at)) : q \in Wanted(m)
  BY <1>2 DEF OptionsInv, MergedIsWanted
<1>5. m \in FieldIds /\ SameGroup(at, m)
  BY <1>1 DEF BuiltMembers, Members, SameGroup
<1>6. Clash(Wanted(at), Wanted(m))
  BY <1>3, <1>4 DEF Clash
<1>7. HasConflict
  BY <1>1, <1>5, <1>6 DEF HasConflict
<1>8. /\ FieldIds' = FieldIds
      /\ \A n \in FieldIds : Wanted(n)' = Wanted(n)
      /\ \A n \in FieldIds : Linked(n)' = Linked(n)
      /\ \A n \in FieldIds : Key(n)' = Key(n)
      /\ \A n \in FieldIds : WantsUnique(n)' <=> WantsUnique(n)
      /\ \A n \in FieldIds : Built(n)' <=> Built(n)
  BY <1>1 DEF FieldIds, Wanted, Linked, Key, WantsUnique, Built
<1>9. \A k \in Keys : /\ BuiltMembers(k)' = BuiltMembers(k)
                      /\ BuiltMembers(k) \subseteq FieldIds
  BY <1>8 DEF BuiltMembers, Members
<1>10. HasConflict'
  BY <1>7, <1>8 DEF HasConflict, SameGroup, Clash
<1>11. MergedIsWanted'
  BY <1>1, <1>8, <1>9 DEF OptionsInv, MergedIsWanted
<1>12. NoClashYet'
  BY <1>1, <1>8 DEF OptionsInv, NoClashYet, SameGroup, Clash
<1>13. MadeFromMerged'
  BY <1>1 DEF OptionsInv, MadeFromMerged
<1> QED BY <1>10, <1>11, <1>12, <1>13 DEF OptionsInv

LEMMA OptionsStep == OptionsInv /\ [Next]_vars => OptionsInv'
<1> SUFFICES ASSUME OptionsInv, [Next]_vars PROVE OptionsInv'
  OBVIOUS
<1>0. /\ TypeOK /\ TypeOK'
      /\ Len(cfg.fields) \in Nat /\ at \in 1 .. Len(cfg.fields) + 1
      /\ shared \in [Keys -> SharedContext]
      /\ \A k \in Keys : shared[k].made =>
            pc \notin {"build", "conflict"} /\ shared[k].madeFrom = shared[k].merged
  BY TypeStep, ConfigShape DEF OptionsInv, TypeOK, MadeFromMerged
<1>1. ASSUME BuildUnlinked PROVE OptionsInv'
  <2>1. \A n \in FieldIds : Linked(n) => (Built(n)' <=> Built(n))
    BY <1>0, <1>1 DEF BuildUnlinked, Built, FieldIds
  <2> QED BY <1>0, <1>1, <2>1, OptionsKept DEF BuildUnlinked
<1>2. ASSUME BuildLinked PROVE OptionsInv'
  BY <1>0, <1>2, OptionsGrow
<1>3. ASSUME BuildConflict PROVE OptionsInv'
  BY <1>0, <1>3, OptionsConflict
<1>4. ASSUME BuildDone PROVE OptionsInv'
  <2>1. pc = "build" /\ pc' \in {"generate", "end"} /\ cfg' = cfg /\ shared' = shared
    BY <1>4 DEF BuildDone, Begin
  <2>2. \A n \in FieldIds : Built(n)' <=> Built(n)
    BY <1>0, <1>4, <2>1 DEF BuildDone, Built, FieldIds
  <2> QED BY <1>0, <2>1, <2>2, OptionsKept
<1>5. ASSUME pc \notin {"build", "conflict"}, pc' \notin {"build", "conflict"}, cfg' = cfg,
             shared' = shared
      PROVE  OptionsInv'
  <2>1. \A n \in FieldIds : Built(n)' <=> Built(n)
    BY <1>5 DEF Built
  <2> QED BY <1>0, <1>5, <2>1, OptionsKept
<1>6. ASSUME GenerateOverride \/ GenerateOwn \/ GenerateMissing \/ GenerateDone \/ NextRow
      PROVE  OptionsInv'
  <2>1. /\ pc \notin {"build", "conflict"} /\ pc' \notin {"build", "conflict"}
        /\ cfg' = cfg /\ shared' = shared
    BY <1>6 DEF GenerateOverride, GenerateOwn, GenerateMissing, GenerateDone, NextRow, Begin
  <2> QED BY <1>5, <2>1
<1>7. ASSUME GenerateLinked PROVE OptionsInv'
  <2> DEFINE old == shared[Key(at)]
             new == ContextNext(EnsureContext(old))
  <2>1. /\ pc = "generate" /\ pc' = "generate" /\ cfg' = cfg /\ at \in FieldIds
        /\ Linked(at) /\ shared' = [shared EXCEPT ![Key(at)] = new]
    BY <1>7 DEF GenerateLinked
  <2>2. Key(at) \in Keys /\ old \in SharedContext
    BY <1>0, <2>1, FieldShape DEF TypeOK
  <2>3. EnsureContext(old) \in SharedContext
    BY <2>2, EnsureShape
  <2>4. new.merged = old.merged
        /\ new.madeFrom = (IF old.made THEN old.madeFrom ELSE old.merged)
    BY <2>2, <2>3, EnsureShape, DrawShape
  <2>5. new.madeFrom = old.merged
    BY <1>0, <2>2, <2>4
  <2>6. \A k \in Keys : shared'[k] = (IF k = Key(at) THEN new ELSE shared[k])
    BY <1>0, <2>1
  <2> HIDE DEF new
  <2>7. \A k \in Keys : /\ shared'[k].merged = shared[k].merged
                        /\ shared'[k].made => shared'[k].madeFrom = shared[k].merged
    BY <1>0, <2>2, <2>4, <2>5, <2>6
  <2>8. \A n \in FieldIds : Built(n)' <=> Built(n)
    BY <2>1 DEF Built
  <2> QED BY <1>0, <2>1, <2>7, <2>8, OptionsKept
<1>8. ASSUME NextField PROVE OptionsInv'
  <2>1. /\ pc = "next" /\ pc' = "next" /\ cfg' = cfg /\ at \in FieldIds
        /\ shared' = IF Linked(at) THEN [shared EXCEPT ![Key(at)] = Reset(@)] ELSE shared
    BY <1>8 DEF NextField
  <2>2. \A k \in Keys : shared'[k] \in {shared[k], Reset(shared[k])}
    BY <1>0, <2>1
  <2>3. \A k \in Keys : /\ shared'[k].merged = shared[k].merged
                        /\ shared'[k].made => shared'[k].madeFrom = shared[k].merged
    BY <1>0, <2>2, ResetShape
  <2>4. \A n \in FieldIds : Built(n)' <=> Built(n)
    BY <2>1 DEF Built
  <2> QED BY <1>0, <2>1, <2>3, <2>4, OptionsKept
<1>9. ASSUME UNCHANGED vars PROVE OptionsInv'
  BY <1>9 DEF vars, OptionsInv, TypeOK, MergedIsWanted, NoClashYet, MadeFromMerged,
     HasConflict, Built, BuiltMembers, Members, FieldIds, RowIds, SameGroup, Wanted,
     WantsUnique, Linked, Key, Clash
<1> QED BY <1>1, <1>2, <1>3, <1>4, <1>6, <1>7, <1>8, <1>9 DEF Next, Ended

(* A run is refused if and only if two fields of a group contradict each   *)
(* other, in whatever order they come.                                     *)
THEOREM ConflictsRefusedHolds == Spec => []ConflictsRefused
<1>1. OptionsInv => ConflictsRefused
  <2> SUFFICES ASSUME OptionsInv, pc \notin {"build", "conflict"} PROVE ~HasConflict
    BY DEF ConflictsRefused, OptionsInv
  <2> QED BY DEF OptionsInv, NoClashYet, HasConflict, Built
<1> QED BY <1>1, OptionsInit, OptionsStep, PTL DEF Spec

(* The record of a group is drawn from what all of its fields ask for.     *)
THEOREM MadeFromAllOptionsHolds == Spec => []MadeFromAllOptions
<1>1. OptionsInv => MadeFromAllOptions
  <2> SUFFICES ASSUME OptionsInv, NEW k \in Keys, shared[k].made
               PROVE  /\ shared[k].madeFrom.options = UNION {Wanted(n) : n \in Members(k)}
                      /\ shared[k].madeFrom.unique <=> \E n \in Members(k) : WantsUnique(n)
    BY DEF MadeFromAllOptions
  <2>1. pc \notin {"build", "conflict"} /\ shared[k].madeFrom = shared[k].merged
    BY DEF OptionsInv, MadeFromMerged
  <2>2. BuiltMembers(k) = Members(k)
    BY <2>1 DEF BuiltMembers, Built
  <2>3. /\ \A p : p \in shared[k].merged.options <=> \E n \in Members(k) : p \in Wanted(n)
        /\ shared[k].merged.unique <=> \E n \in Members(k) : WantsUnique(n)
    BY <2>2 DEF OptionsInv, MergedIsWanted
  <2>4. shared[k].merged.options = UNION {Wanted(n) : n \in Members(k)}
    BY <2>3
  <2> QED BY <2>1, <2>3, <2>4
<1> QED BY <1>1, OptionsInit, OptionsStep, PTL DEF Spec

(***************************************************************************)
(* Records.  While a row is generated, next_called says whether the record *)
(* of a context is that of this row; between two rows every context has    *)
(* been reset, for every context was asked by a field of its group, and    *)
(* every field of the group resets it.                                     *)
(***************************************************************************)
(* Cells are those of linked fields in rows that have begun, and show a    *)
(* record that has been drawn.                                             *)
ShownBefore ==
    \A r \in RowIds : \A n \in FieldIds :
        FromGroup(r, n) =>
            /\ pc # "build" /\ r <= row /\ Linked(n)
            /\ shown[r][n].record <= shared[Key(n)].record

(* The row shows the latest record, and next_called knows of it.           *)
ShownNow ==
    pc \in {"generate", "next"} =>
        \A n \in FieldIds :
            FromGroup(row, n) =>
                /\ shown[row][n].record = shared[Key(n)].record
                /\ pc = "generate" => shared[Key(n)].next_called

(* Once it is drawn, the record of the row is later than those before.     *)
LaterThanBefore ==
    pc = "generate" =>
        \A r \in RowIds : \A n \in FieldIds :
            r < row /\ FromGroup(r, n) /\ shared[Key(n)].next_called
                => shown[r][n].record < shared[Key(n)].record

(* Whoever is to be reset still has a field that will do so.               *)
ResetsToCome ==
    \A k \in Keys :
        shared[k].next_called =>
            /\ shared[k].made /\ pc # "build"
            /\ \E n \in Members(k) : pc = "next" => n >= at

RecordsInv ==
    /\ TypeOK
    /\ ShownBefore /\ ShownNow /\ LaterThanBefore /\ ResetsToCome
    /\ OneRecordPerRow /\ NoRecordTwice

LEMMA RecordsInit == Init => RecordsInv
<1> SUFFICES ASSUME Init PROVE RecordsInv
  OBVIOUS
<1>1. TypeOK
  BY TypeInit
<1>2. \A r \in RowIds : \A n \in FieldIds : ~FromGroup(r, n)
  BY CellShape DEF Init, FromGroup
<1>3. \A k \in Keys : ~shared[k].next_called
  BY DEF Init, NewShared
<1>4. pc = "build"
  BY DEF Init
<1> QED BY <1>1, <1>2, <1>3, <1>4
        DEF RecordsInv, ShownBefore, ShownNow, LaterThanBefore, ResetsToCome,
            OneRecordPerRow, NoRecordTwice

(* What the configuration fixes does not change.                           *)
LEMMA FixedByConfig ==
    ASSUME cfg' = cfg
    PROVE  /\ FieldIds' = FieldIds /\ RowIds' = RowIds
           /\ \A n \in FieldIds : (Linked(n)' <=> Linked(n)) /\ Key(n)' = Key(n)
           /\ \A n, m \in FieldIds : SameGroup(n, m)' <=> SameGroup(n, m)
           /\ \A k \in Keys : Members(k)' = Members(k)
<1>1. FieldIds' = FieldIds /\ RowIds' = RowIds
  BY DEF FieldIds, RowIds
<1>2. \A n \in FieldIds : (Linked(n)' <=> Linked(n)) /\ Key(n)' = Key(n)
  BY DEF Linked, Key
<1>3. \A n, m \in FieldIds : SameGroup(n, m)' <=> SameGroup(n, m)
  BY <1>2 DEF SameGroup
<1>4. \A k \in Keys : Members(k)' = Members(k)
  BY <1>1, <1>2 DEF Members
<1> QED BY <1>1, <1>2, <1>3, <1>4

(* Steps that show nothing new of a group and draw nothing.                *)
LEMMA NothingDrawn ==
    ASSUME RecordsInv, TypeOK', cfg' = cfg,
           \A r \in RowIds : \A n \in FieldIds :
              FromGroup(r, n)' => FromGroup(r, n) /\ shown'[r][n] = shown[r][n],
           \A k \in Keys : shared'[k].record = shared[k].record
                           /\ (shared'[k].next_called => shared[k].next_called),
           row' >= row, pc' # "build" \/ pc = "build",
           ShownNow', LaterThanBefore', ResetsToCome'
    PROVE  RecordsInv'
<1>1. FieldIds' = FieldIds /\ RowIds' = RowIds
      /\ (\A n \in FieldIds : (Linked(n)' <=> Linked(n)) /\ Key(n)' = Key(n))
      /\ (\A n, m \in FieldIds : SameGroup(n, m)' <=> SameGroup(n, m))
  BY FixedByConfig
<1>2. cfg \in Configs /\ row \in Nat /\ row' \in Nat /\ cfg.rows \in Nat
  BY ConfigShape DEF RecordsInv, TypeOK
<1>3. \A n \in FieldIds : Linked(n) => Key(n) \in Keys
  BY <1>2, FieldShape
<1>4. ShownBefore'
  <2> SUFFICES ASSUME NEW r \in RowIds, NEW n \in FieldIds, FromGroup(r, n)'
               PROVE  /\ pc' # "build" /\ r <= row' /\ Linked(n)'
                      /\ shown'[r][n].record <= shared'[Key(n)'].record
    BY <1>1 DEF ShownBefore
  <2>1. /\ pc # "build" /\ r <= row /\ Linked(n)
        /\ shown[r][n].record <= shared[Key(n)].record
    BY DEF RecordsInv, ShownBefore
  <2>2. r <= row'
    BY <1>2, <2>1 DEF RowIds
  <2> QED BY <1>1, <1>3, <2>1, <2>2
<1>5. OneRecordPerRow'
  BY <1>1 DEF RecordsInv, OneRecordPerRow
<1>6. NoRecordTwice'
  BY <1>1 DEF RecordsInv, NoRecordTwice
<1> QED BY <1>4, <1>5, <1>6 DEF RecordsInv

(* The first field of a group to ask in a row draws a later record, the    *)
(* others show the one it has drawn.                                       *)
LEMMA RecordDrawn ==
    ASSUME RecordsInv, TypeOK', GenerateLinked
    PROVE  RecordsInv'
<1> DEFINE K == Key(at)
           old == shared[K]
           new == ContextNext(EnsureContext(old))
<1>1. /\ pc = "generate" /\ pc' = "generate" /\ cfg' = cfg /\ row' = row /\ at' = at + 1
      /\ at \in FieldIds /\ Linked(at)
      /\ shared' = [shared EXCEPT ![K] = new]
      /\ shown' = [shown EXCEPT ![row][at] = Of(new.record)]
  BY DEF GenerateLinked, Show
<1>2. /\ K \in Keys /\ old \in SharedContext /\ row \in RowIds /\ row \in Nat
      /\ shown \in [RowIds -> [FieldIds -> Cells]] /\ shared \in [Keys -> SharedContext]
      /\ \A n \in FieldIds : Linked(n) => Key(n) \in Keys
  BY <1>1, FieldShape DEF RecordsInv, TypeOK
<1>3. /\ new \in SharedContext /\ new.made /\ new.next_called
      /\ new.record = (IF old.next_called THEN old.record ELSE old.record + 1)
  <2>1. EnsureContext(old) \in SharedContext
    BY <1>2, EnsureShape
  <2> QED BY <1>2, <2>1, EnsureShape, DrawShape
<1>4. new.record \in Nat /\ old.record \in Nat
      /\ \A k \in Keys : shared[k].record \in Nat
      /\ \A r \in RowIds : \A n \in FieldIds : shown[r][n].record \in Nat
  BY <1>2, <1>3 DEF SharedContext, Cells
<1>5. \A k \in Keys : shared'[k] = (IF k = K THEN new ELSE shared[k])
  BY <1>1, <1>2
<1>6. /\ shown'[row][at].from = "group" /\ shown'[row][at].record = new.record
      /\ \A r \in RowIds : \A n \in FieldIds :
            r # row \/ n # at => shown'[r][n] = shown[r][n]
  BY <1>1, <1>2, <1>4, CellShape
<1>7. FieldIds' = FieldIds /\ RowIds' = RowIds
      /\ (\A n \in FieldIds : (Linked(n)' <=> Linked(n)) /\ Key(n)' = Key(n))
      /\ (\A n, m \in FieldIds : SameGroup(n, m)' <=> SameGroup(n, m))
      /\ (\A k \in Keys : Members(k)' = Members(k))
  BY <1>1, FixedByConfig
<1> HIDE DEF new
<1>8. \A r \in RowIds : \A n \in FieldIds :
         FromGroup(r, n) =>
            /\ r <= row /\ Linked(n) /\ Key(n) \in Keys
            /\ shown[r][n].record <= shared[Key(n)].record
            /\ r = row => /\ shown[r][n].record = shared[Key(n)].record
                          /\ shared[Key(n)].next_called
            /\ r < row /\ shared[Key(n)].next_called
                  => shown[r][n].record < shared[Key(n)].record
  BY <1>1, <1>2 DEF RecordsInv, ShownBefore, ShownNow, LaterThanBefore
<1>9. \A r \in RowIds : \A n \in FieldIds :
         FromGroup(r, n)' <=> FromGroup(r, n) \/ (r = row /\ n = at)
  BY <1>6 DEF FromGroup
(* What the records of the group are after the step.                       *)
<1>10. \A r \in RowIds : \A n \in FieldIds :
          FromGroup(r, n)' =>
             /\ r <= row /\ Linked(n) /\ Key(n) \in Keys
             /\ shown'[r][n].record \in Nat /\ shared'[Key(n)].record \in Nat
             /\ shown'[r][n].record <= shared'[Key(n)].record
             /\ r = row => /\ shown'[r][n].record = shared'[Key(n)].record
                           /\ shared'[Key(n)].next_called
             /\ r < row /\ shared'[Key(n)].next_called
                   => shown'[r][n].record < shared'[Key(n)].record
  <2> SUFFICES ASSUME NEW r \in RowIds, NEW n \in FieldIds, FromGroup(r, n)'
               PROVE  /\ r <= row /\ Linked(n) /\ Key(n) \in Keys
                      /\ shown'[r][n].record \in Nat /\ shared'[Key(n)].record \in Nat
                      /\ shown'[r][n].record <= shared'[Key(n)].record
                      /\ r = row => /\ shown'[r][n].record = shared'[Key(n)].record
                                    /\ shared'[Key(n)].next_called
                      /\ r < row /\ shared'[Key(n)].next_called
                            => shown'[r][n].record < shared'[Key(n)].record
    OBVIOUS
  <2>1. CASE r = row /\ n = at
    BY <1>1, <1>2, <1>3, <1>4, <1>5, <1>6, <2>1
  <2>2. CASE ~(r = row /\ n = at) /\ Key(n) # K
    BY <1>4, <1>5, <1>6, <1>8, <1>9, <2>2
  <2>3. CASE ~(r = row /\ n = at) /\ Key(n) = K
    <3>1. FromGroup(r, n) /\ shown'[r][n] = shown[r][n] /\ shared'[Key(n)] = new
      BY <1>2, <1>5, <1>6, <1>9, <2>3
    <3> QED BY <1>2, <1>3, <1>4, <1>8, <2>3, <3>1 DEF RowIds
  <2> QED BY <2>1, <2>2, <2>3
<1>11. ShownBefore' /\ ShownNow' /\ LaterThanBefore'
  <2>1. ShownBefore'
    BY <1>1, <1>7, <1>10 DEF ShownBefore
  <2>2. ShownNow'
    BY <1>1, <1>2, <1>7, <1>10 DEF ShownNow
  <2>3. LaterThanBefore'
    BY <1>1, <1>7, <1>10 DEF LaterThanBefore
  <2> QED BY <2>1, <2>2, <2>3
<1>12. ResetsToCome'
  <2>1. at \in Members(K)
    BY <1>1 DEF Members
  <2> QED BY <1>1, <1>2, <1>3, <1>5, <1>7, <2>1 DEF RecordsInv, ResetsToCome
<1>13. \A n, m \in FieldIds : \A r, q \in RowIds :
          SameGroup(n, m) /\ FromGroup(r, n)' /\ FromGroup(q, m)'
             => /\ r = q => shown'[r][n].record = shown'[q][m].record
                /\ r < q => shown'[r][n].record < shown'[q][m].record
  <2> SUFFICES ASSUME NEW n \in FieldIds, NEW m \in FieldIds, NEW r \in RowIds,
                      NEW q \in RowIds, SameGroup(n, m), FromGroup(r, n)', FromGroup(q, m)'
               PROVE  /\ r = q => shown'[r][n].record = shown'[q][m].record
                      /\ r < q => shown'[r][n].record < shown'[q][m].record
    OBVIOUS
  <2>1. Key(n) = Key(m) /\ r \in Nat /\ q \in Nat
    BY DEF SameGroup, RowIds
  <2>2. CASE q = row
    BY <1>10, <2>1, <2>2
  <2>3. CASE q # row /\ r = row
    <3>1. q <= row
      BY <1>10
    <3> QED BY <1>2, <2>1, <2>3, <3>1
  <2>4. CASE q # row /\ r # row
    <3>1. FromGroup(r, n) /\ FromGroup(q, m)
      BY <1>9, <2>4
    <3>2. shown'[r][n] = shown[r][n] /\ shown'[q][m] = shown[q][m]
      BY <1>6, <2>4
    <3> QED BY <3>1, <3>2 DEF RecordsInv, OneRecordPerRow, NoRecordTwice
  <2> QED BY <2>2, <2>3, <2>4
<1>14. OneRecordPerRow' /\ NoRecordTwice'
  BY <1>7, <1>13 DEF OneRecordPerRow, NoRecordTwice
<1> QED BY <1>11, <1>12, <1>14 DEF RecordsInv

LEMMA RecordsStep == RecordsInv /\ [Next]_vars => RecordsInv'
<1> SUFFICES ASSUME RecordsInv, [Next]_vars PROVE RecordsInv'
  OBVIOUS
<1>0. /\ TypeOK /\ TypeOK'
      /\ cfg \in Configs /\ Len(cfg.fields) \in Nat /\ at \in 1 .. Len(cfg.fields) + 1
      /\ row \in Nat /\ (pc \in {"generate", "next"} => row \in RowIds)
      /\ shared \in [Keys -> SharedContext]
      /\ shown \in [RowIds -> [FieldIds -> Cells]]
      /\ \A n \in FieldIds : Linked(n) => Key(n) \in Keys
  BY TypeStep, ConfigShape, FieldShape DEF RecordsInv, TypeOK
<1>1. \A k \in Keys :
         shared[k].next_called =>
            /\ shared[k].made /\ pc # "build"
            /\ \E n \in Members(k) : pc = "next" => n >= at
  BY DEF RecordsInv, ResetsToCome
<1>2. \A r \in RowIds : \A n \in FieldIds :
         FromGroup(r, n) => pc # "build" /\ r <= row /\ Linked(n)
  BY DEF RecordsInv, ShownBefore
<1>3. cfg' = cfg =>
         /\ FieldIds' = FieldIds /\ RowIds' = RowIds
         /\ \A n \in FieldIds : (Linked(n)' <=> Linked(n)) /\ Key(n)' = Key(n)
         /\ \A k \in Keys : Members(k)' = Members(k)
  BY FixedByConfig
(* While the generators are constructed, nothing is shown.                 *)
<1>4. ASSUME pc = "build", pc' \in {"build", "conflict", "generate", "end"}, cfg' = cfg,
             row' = row, shown' = shown,
             \A k \in Keys : shared'[k].record = shared[k].record
                             /\ (shared'[k].next_called => shared[k].next_called)
      PROVE  RecordsInv'
  <2>1. \A r \in RowIds : \A n \in FieldIds : ~FromGroup(r, n)'
    BY <1>2, <1>4 DEF FromGroup
  <2>2. \A k \in Keys : ~shared'[k].next_called
    BY <1>1, <1>4
  <2>3. pc' \in {"generate", "next"} => row' \in RowIds'
    BY <1>0 DEF TypeOK
  <2>4. ShownNow' /\ LaterThanBefore' /\ ResetsToCome'
    BY <1>3, <1>4, <2>1, <2>2, <2>3 DEF ShownNow, LaterThanBefore, ResetsToCome
  <2> QED BY <1>0, <1>4, <2>1, <2>4, NothingDrawn
<1>5. ASSUME BuildUnlinked \/ BuildConflict \/ BuildDone PROVE RecordsInv'
  <2>1. /\ pc = "build" /\ pc' \in {"build", "conflict", "generate", "end"} /\ cfg' = cfg
        /\ row' = row /\ shown' = shown /\ shared' = shared
    BY <1>5 DEF BuildUnlinked, BuildConflict, BuildDone, Begin
  <2> QED BY <1>4, <2>1
<1>6. ASSUME BuildLinked PROVE RecordsInv'
  <2>1. /\ pc = "build" /\ pc' = "build" /\ cfg' = cfg /\ row' = row /\ shown' = shown
        /\ at \in FieldIds /\ Linked(at)
        /\ shared' = [shared EXCEPT ![Key(at)] = MergeConfig(@, at)]
    BY <1>6 DEF BuildLinked
  <2>2. \A k \in Keys : shared'[k] \in {shared[k], MergeConfig(shared[k], at)}
    BY <1>0, <2>1
  <2>3. \A k \in Keys : shared'[k].record = shared[k].record
                        /\ (shared'[k].next_called => shared[k].next_called)
    BY <1>0, <2>1, <2>2, MergeShape
  <2> QED BY <1>4, <2>1, <2>3
(* A field that shows an override or a value of its own.                   *)
<1>7. ASSUME GenerateOverride \/ GenerateOwn PROVE RecordsInv'
  <2>1. /\ pc = "generate" /\ pc' = "generate" /\ cfg' = cfg /\ row' = row
        /\ shared' = shared /\ at \in FieldIds
        /\ \E c \in {Override, Own} : shown' = [shown EXCEPT ![row][at] = c]
    BY <1>7 DEF GenerateOverride, GenerateOwn, Show
  <2>2. \A r \in RowIds : \A n \in FieldIds :
           FromGroup(r, n)' => FromGroup(r, n) /\ shown'[r][n] = shown[r][n]
    BY <1>0, <2>1, CellShape DEF FromGroup
  <2>3. ShownNow'
    BY <1>0, <1>3, <2>1, <2>2 DEF RecordsInv, ShownNow
  <2>4. LaterThanBefore'
    BY <1>3, <2>1, <2>2 DEF RecordsInv, LaterThanBefore
  <2>5. ResetsToCome'
    BY <1>3, <2>1 DEF RecordsInv, ResetsToCome
  <2> QED BY <1>0, <2>1, <2>2, <2>3, <2>4, <2>5, NothingDrawn
<1>8. ASSUME GenerateLinked PROVE RecordsInv'
  BY <1>0, <1>8, RecordDrawn
<1>9. ASSUME GenerateMissing \/ GenerateDone PROVE RecordsInv'
  <2>1. /\ pc = "generate" /\ cfg' = cfg /\ row' = row /\ shared' = shared
        /\ shown' = shown /\ (pc' = "missing" \/ (pc' = "next" /\ at' = 1))
    BY <1>9 DEF GenerateMissing, GenerateDone
  <2>2. \A r \in RowIds : \A n \in FieldIds :
           FromGroup(r, n)' => FromGroup(r, n) /\ shown'[r][n] = shown[r][n]
    BY <2>1 DEF FromGroup
  <2>3. ShownNow'
    BY <1>0, <1>3, <2>1, <2>2 DEF RecordsInv, ShownNow
  <2>4. LaterThanBefore'
    BY <2>1 DEF LaterThanBefore
  <2>5. ResetsToCome'
    <3>1. \A k \in Keys : \A n \in Members(k) : n >= 1
      BY <1>0 DEF Members, FieldIds
    <3> QED BY <1>1, <1>3, <2>1, <3>1 DEF ResetsToCome
  <2> QED BY <1>0, <2>1, <2>2, <2>3, <2>4, <2>5, NothingDrawn
(* The last field of a group to be told leaves its context reset.          *)
<1>10. ASSUME NextField PROVE RecordsInv'
  <2>1. /\ pc = "next" /\ pc' = "next" /\ cfg' = cfg /\ row' = row /\ shown' = shown
        /\ at \in FieldIds /\ at' = at + 1
        /\ shared' = IF Linked(at) THEN [shared EXCEPT ![Key(at)] = Reset(@)] ELSE shared
    BY <1>10 DEF NextField
  <2>2. \A k \in Keys : shared'[k] = (IF Linked(at) /\ k = Key(at) THEN Reset(shared[k])
                                      ELSE shared[k])
    BY <1>0, <2>1
  <2>3. \A k \in Keys : /\ shared'[k].record = shared[k].record
                        /\ shared'[k].next_called => shared[k].next_called
                        /\ shared[k].made => shared'[k].made
    BY <1>0, <2>2, ResetShape
  <2>4. \A r \in RowIds : \A n \in FieldIds :
           FromGroup(r, n)' => FromGroup(r, n) /\ shown'[r][n] = shown[r][n]
    BY <2>1 DEF FromGroup
  <2>5. ShownNow'
    <3> SUFFICES ASSUME NEW n \in FieldIds, shown[row][n].from = "group"
                 PROVE  shown[row][n].record = shared'[Key(n)].record
      BY <1>3, <2>1 DEF ShownNow, FromGroup
    <3>1. row \in RowIds /\ FromGroup(row, n)
      BY <1>0, <2>1 DEF FromGroup
    <3>2. Linked(n) /\ Key(n) \in Keys
      BY <1>0, <1>2, <3>1
    <3>3. shown[row][n].record = shared[Key(n)].record
      BY <2>1, <3>1 DEF RecordsInv, ShownNow
    <3> QED BY <2>3, <3>2, <3>3
  <2>6. LaterThanBefore'
    BY <2>1 DEF LaterThanBefore
  <2>7. ResetsToCome'
    <3> SUFFICES ASSUME NEW k \in Keys, shared'[k].next_called
                 PROVE  /\ shared'[k].made
                        /\ \E n \in Members(k) : n >= at + 1
      BY <1>3, <2>1 DEF ResetsToCome
    <3>1. shared[k].next_called /\ shared[k].made /\ shared'[k].made
      BY <1>1, <2>3
    <3>2. PICK n \in Members(k) : n >= at
      BY <1>1, <2>1, <3>1
    <3>3. n # at
      <4>1. ~(Linked(at) /\ k = Key(at))
        BY <1>0, <2>2, <3>1, ResetShape
      <4> QED BY <4>1 DEF Members
    <3> QED BY <1>0, <3>1, <3>2, <3>3 DEF Members, FieldIds
  <2> QED BY <1>0, <2>1, <2>3, <2>4, <2>5, <2>6, <2>7, NothingDrawn
<1>11. ASSUME NextRow PROVE RecordsInv'
  <2>1. /\ pc = "next" /\ pc' \in {"generate", "end"} /\ cfg' = cfg /\ row' = row + 1
        /\ shown' = shown /\ shared' = shared /\ at \notin FieldIds
    BY <1>11 DEF NextRow, Begin
  <2>2. \A k \in Keys : ~shared[k].next_called
    BY <1>0, <1>1, <2>1 DEF Members, FieldIds
  <2>3. \A r \in RowIds : \A n \in FieldIds :
           FromGroup(r, n)' => FromGroup(r, n) /\ shown'[r][n] = shown[r][n]
    BY <2>1 DEF FromGroup
  <2>4. pc' = "generate" => row' \in RowIds
    BY <1>0, <1>3, <2>1 DEF TypeOK
  <2>5. \A n \in FieldIds : row + 1 \in RowIds => ~FromGroup(row + 1, n)
    BY <1>0, <1>2
  <2>6. ShownNow'
    <3> SUFFICES ASSUME pc' = "generate", NEW n \in FieldIds,
                        shown[row + 1][n].from = "group"
                 PROVE  FALSE
      BY <1>3, <2>1 DEF ShownNow, FromGroup
    <3> QED BY <2>1, <2>4, <2>5 DEF FromGroup
  <2>7. LaterThanBefore'
    BY <1>0, <1>2, <1>3, <2>1, <2>2, <2>3 DEF LaterThanBefore
  <2>8. ResetsToCome'
    BY <2>1, <2>2 DEF ResetsToCome
  <2> QED BY <1>0, <2>1, <2>2, <2>3, <2>6, <2>7, <2>8, NothingDrawn
<1>12. ASSUME UNCHANGED vars PROVE RecordsInv'
  BY <1>12 DEF vars, RecordsInv, TypeOK, ShownBefore, ShownNow, LaterThanBefore,
     ResetsToCome, OneRecordPerRow, NoRecordTwice, FromGroup, SameGroup, Members,
     FieldIds, RowIds, Linked, Key
<1> QED BY <1>5, <1>6, <1>7, <1>8, <1>9, <1>10, <1>11, <1>12 DEF Next, Ended

(* The fields of a group show one record in every row, for any number of   *)
(* rows, fields and groups and wherever overrides apply.                   *)
THEOREM OneRecordPerRowHolds == Spec => []OneRecordPerRow
<1>1. RecordsInv => OneRecordPerRow
  BY DEF RecordsInv
<1> QED BY <1>1, RecordsInit, RecordsStep, PTL DEF Spec

(* No record is shown in two rows.                                         *)
THEOREM NoRecordTwiceHolds == Spec => []NoRecordTwice
<1>1. RecordsInv => NoRecordTwice
  BY DEF RecordsInv
<1> QED BY <1>1, RecordsInit, RecordsStep, PTL DEF Spec

-----------------------------------------------------------------------------
(***************************************************************************)
(* Missing options: a context that lacks one is never made.                *)
(***************************************************************************)
MissingInv ==
    /\ \A k \in Keys : Lacks(k) => ~shared[k].made
    /\ MissingOptionsRefused

(* A group without one of the options cannot be ensured, and every other   *)
(* group can.                                                              *)
LEMMA LackingIsNotEnsured ==
    ASSUME OptionsInv, pc \notin {"build", "conflict"}, NEW k \in Keys, ~shared[k].made
    PROVE  CanEnsure(shared[k], k) <=> ~Lacks(k)
<1>1. \A p : p \in shared[k].merged.options <=> \E n \in Members(k) : p \in Wanted(n)
  BY DEF OptionsInv, MergedIsWanted, BuiltMembers, Built
<1>2. CASE k[1] # "computer"
  BY <1>2 DEF CanEnsure, Lacks
<1>3. CASE k[1] = "computer"
  BY <1>1, <1>3 DEF CanEnsure, Lacks
<1> QED BY <1>2, <1>3

LEMMA LacksFixed ==
    ASSUME cfg' = cfg, NEW k \in Keys
    PROVE  Lacks(k)' <=> Lacks(k)
<1>1. Members(k)' = Members(k)
  BY FixedByConfig
<1>2. \A n : Wanted(n)' = Wanted(n)
  BY DEF Wanted
<1> QED BY <1>1, <1>2 DEF Lacks

LEMMA MissingInit == Init => MissingInv
<1> SUFFICES ASSUME Init PROVE MissingInv
  OBVIOUS
<1>1. \A k \in Keys : ~shared[k].made
  BY DEF Init, NewShared
<1>2. pc = "build" /\ \A r \in RowIds : \A n \in FieldIds : ~FromGroup(r, n)
  BY CellShape DEF Init, FromGroup
<1> QED BY <1>1, <1>2 DEF MissingInv, MissingOptionsRefused

(* Steps that make no context and show no record of a group.               *)
LEMMA NothingMade ==
    ASSUME MissingInv, TypeOK, cfg' = cfg,
           \A k \in Keys : shared'[k].made => shared[k].made,
           \A r \in RowIds : \A n \in FieldIds : FromGroup(r, n)' => FromGroup(r, n),
           pc' = "missing" => \E n \in FieldIds : Linked(n) /\ Lacks(Key(n))
    PROVE  MissingInv'
<1>1. /\ FieldIds' = FieldIds /\ RowIds' = RowIds
      /\ \A n \in FieldIds : (Linked(n)' <=> Linked(n)) /\ Key(n)' = Key(n)
  BY FixedByConfig
<1>2. \A k \in Keys : Lacks(k)' <=> Lacks(k)
  BY LacksFixed
<1>3. \A n \in FieldIds : Linked(n) => Key(n) \in Keys
  BY FieldShape DEF TypeOK
<1>4. \A n \in FieldIds : Linked(n) => (Lacks(Key(n))' <=> Lacks(Key(n)))
  <2> SUFFICES ASSUME NEW n \in FieldIds, Linked(n)
               PROVE  Lacks(Key(n))' <=> Lacks(Key(n))
    OBVIOUS
  <2>1. PICK k \in Keys : k = Key(n) /\ k = Key(n)'
    BY <1>1, <1>3
  <2>2. Lacks(Key(n))' <=> Lacks(k)'
    BY <2>1 DEF Lacks
  <2> QED BY <1>2, <2>1, <2>2
<1>5. pc' = "missing" => \E n \in FieldIds' : Linked(n)' /\ Lacks(Key(n))'
  BY <1>1, <1>4
<1>6. \A r \in RowIds' : \A n \in FieldIds' :
          Linked(n)' /\ Lacks(Key(n))' => ~FromGroup(r, n)'
  BY <1>1, <1>4 DEF MissingInv, MissingOptionsRefused
<1> QED BY <1>2, <1>5, <1>6 DEF MissingInv, MissingOptionsRefused

LEMMA MissingStep == OptionsInv /\ MissingInv /\ [Next]_vars => MissingInv'
<1> SUFFICES ASSUME OptionsInv, MissingInv, [Next]_vars PROVE MissingInv'
  OBVIOUS
<1>0. /\ TypeOK /\ shared \in [Keys -> SharedContext]
      /\ shown \in [RowIds -> [FieldIds -> Cells]]
      /\ pc = "generate" => row \in RowIds
      /\ \A n \in FieldIds : Linked(n) => Key(n) \in Keys
      /\ cfg \in Configs
  BY FieldShape DEF OptionsInv, TypeOK
<1>1. ASSUME BuildUnlinked \/ BuildConflict \/ BuildDone \/ GenerateDone \/ NextRow
      PROVE  MissingInv'
  <2>1. cfg' = cfg /\ shared' = shared /\ shown' = shown /\ pc' # "missing"
    BY <1>1 DEF BuildUnlinked, BuildConflict, BuildDone, GenerateDone, NextRow, Begin
  <2> QED BY <1>0, <2>1, NothingMade DEF FromGroup
<1>2. ASSUME BuildLinked PROVE MissingInv'
  <2>1. /\ cfg' = cfg /\ shown' = shown /\ pc' # "missing" /\ at \in FieldIds
        /\ shared' = [shared EXCEPT ![Key(at)] = MergeConfig(@, at)]
    BY <1>2 DEF BuildLinked
  <2>2. \A k \in Keys : shared'[k] \in {shared[k], MergeConfig(shared[k], at)}
    BY <1>0, <2>1
  <2>3. \A k \in Keys : shared'[k].made => shared[k].made
    BY <1>0, <2>1, <2>2, MergeShape
  <2> QED BY <1>0, <2>1, <2>3, NothingMade DEF FromGroup
<1>3. ASSUME GenerateOverride \/ GenerateOwn PROVE MissingInv'
  <2>1. /\ cfg' = cfg /\ shared' = shared /\ pc' # "missing" /\ pc = "generate"
        /\ at \in FieldIds
        /\ \E c \in {Override, Own} : shown' = [shown EXCEPT ![row][at] = c]
    BY <1>3 DEF GenerateOverride, GenerateOwn, Show
  <2>2. \A r \in RowIds : \A n \in FieldIds : FromGroup(r, n)' => FromGroup(r, n)
    BY <1>0, <2>1, CellShape DEF FromGroup
  <2> QED BY <1>0, <2>1, <2>2, NothingMade
<1>4. ASSUME GenerateMissing PROVE MissingInv'
  <2>1. /\ cfg' = cfg /\ shared' = shared /\ shown' = shown /\ pc = "generate"
        /\ at \in FieldIds /\ Linked(at) /\ ~CanEnsure(shared[Key(at)], Key(at))
    BY <1>4 DEF GenerateMissing
  <2>2. ~shared[Key(at)].made
    BY <2>1 DEF CanEnsure
  <2>3. Lacks(Key(at))
    BY <1>0, <2>1, <2>2, LackingIsNotEnsured
  <2> QED BY <1>0, <2>1, <2>3, NothingMade DEF FromGroup
(* The group of a field that shows a record lacks nothing.                 *)
<1>5. ASSUME GenerateLinked PROVE MissingInv'
  <2>1. /\ pc = "generate" /\ pc' = "generate" /\ cfg' = cfg
        /\ at \in FieldIds /\ Linked(at) /\ CanEnsure(shared[Key(at)], Key(at))
    BY <1>5 DEF GenerateLinked
  <2>2. PICK K \in Keys, new \in SharedContext, c \in Cells :
            /\ K = Key(at)
            /\ shared' = [shared EXCEPT ![K] = new]
            /\ shown' = [shown EXCEPT ![row][at] = c]
    <3>1. Key(at) \in Keys /\ shared[Key(at)] \in SharedContext
      BY <1>0, <2>1
    <3>2. EnsureContext(shared[Key(at)]) \in SharedContext
      BY <3>1, EnsureShape
    <3>3. ContextNext(EnsureContext(shared[Key(at)])) \in SharedContext
      BY <3>2, DrawShape
    <3>4. ContextNext(EnsureContext(shared[Key(at)])).record \in Nat
      BY <3>3 DEF SharedContext
    <3>5. Of(ContextNext(EnsureContext(shared[Key(at)])).record) \in Cells
      BY <3>4, CellShape
    <3> QED BY <1>5, <3>1, <3>3, <3>5 DEF GenerateLinked, Show
  <2>3. ~Lacks(K)
    <3>1. CASE shared[K].made
      BY <3>1 DEF MissingInv
    <3>2. CASE ~shared[K].made
      BY <2>1, <2>2, <3>2, LackingIsNotEnsured
    <3> QED BY <3>1, <3>2
  <2>4. \A k \in Keys \ {K} : shared'[k] = shared[k]
    BY <1>0, <2>2
  <2>5. \A r \in RowIds : \A n \in FieldIds :
           r # row \/ n # at => (FromGroup(r, n)' <=> FromGroup(r, n))
    BY <1>0, <2>2 DEF FromGroup
  <2>6. /\ FieldIds' = FieldIds /\ RowIds' = RowIds
        /\ \A n \in FieldIds : (Linked(n)' <=> Linked(n)) /\ Key(n)' = Key(n)
    BY <2>1, FixedByConfig
  <2>7. \A k \in Keys : Lacks(k)' <=> Lacks(k)
    BY <2>1, LacksFixed
  <2>8. \A k \in Keys : Lacks(k)' => ~shared'[k].made
    BY <2>3, <2>4, <2>7 DEF MissingInv
  <2>9. ASSUME NEW r \in RowIds, NEW n \in FieldIds, Linked(n), Lacks(Key(n))'
        PROVE  ~FromGroup(r, n)'
    <3>1. PICK k \in Keys : k = Key(n) /\ k = Key(n)'
      BY <1>0, <2>6, <2>9
    <3>2. Lacks(k)
      <4>1. Lacks(k)'
        BY <2>9, <3>1 DEF Lacks
      <4> QED BY <2>7, <4>1
    <3>3. n # at
      BY <2>2, <2>3, <3>1, <3>2
    <3>4. ~FromGroup(r, n)
      BY <2>9, <3>1, <3>2 DEF MissingInv, MissingOptionsRefused
    <3> QED BY <2>5, <3>3, <3>4
  <2> QED BY <2>1, <2>6, <2>8, <2>9 DEF MissingInv, MissingOptionsRefused
<1>6. ASSUME NextField PROVE MissingInv'
  <2>1. /\ cfg' = cfg /\ shown' = shown /\ pc' # "missing"
        /\ shared' = IF Linked(at) THEN [shared EXCEPT ![Key(at)] = Reset(@)] ELSE shared
    BY <1>6 DEF NextField
  <2>2. \A k \in Keys : shared'[k] \in {shared[k], Reset(shared[k])}
    BY <1>0, <2>1
  <2>3. \A k \in Keys : shared'[k].made => shared[k].made
    BY <1>0, <2>2, ResetShape
  <2> QED BY <1>0, <2>1, <2>3, NothingMade DEF FromGroup
<1>7. ASSUME UNCHANGED vars PROVE MissingInv'
  <2>1. cfg' = cfg /\ shared' = shared /\ shown' = shown /\ pc' = pc
    BY <1>7 DEF vars
  <2>2. pc' = "missing" => \E n \in FieldIds : Linked(n) /\ Lacks(Key(n))
    BY <2>1 DEF MissingInv, MissingOptionsRefused
  <2> QED BY <1>0, <2>1, <2>2, NothingMade DEF FromGroup
<1> QED BY <1>1, <1>2, <1>3, <1>4, <1>5, <1>6, <1>7 DEF Next, Ended

(* A group that lacks an option of its module never shows a record, and a  *)
(* run only ends for a missing option if one is missing.                   *)
THEOREM MissingOptionsRefusedHolds == Spec => []MissingOptionsRefused
<1>1. MissingInv => MissingOptionsRefused
  BY DEF MissingInv
<1>2. Spec => []OptionsInv
  BY OptionsInit, OptionsStep, PTL DEF Spec
<1> QED BY <1>1, <1>2, MissingInit, MissingStep, PTL DEF Spec

-----------------------------------------------------------------------------
(***************************************************************************)
(* Draws: a group draws in the rows that show it and in no other.          *)
(***************************************************************************)
RowsShowing(k) == {r \in RowIds : \E n \in Members(k) : FromGroup(r, n)}

(* In the row that is made, the fields to come show nothing yet, and a     *)
(* context that has drawn is shown by one of the fields before them.       *)
DrawsInv ==
    /\ \A k \in Keys : shared[k].record = Cardinality(RowsShowing(k))
    /\ pc = "generate" =>
          /\ \A n \in FieldIds : n >= at => ~FromGroup(row, n)
          /\ \A k \in Keys : shared[k].next_called => row \in RowsShowing(k)

LEMMA DrawsInit == Init => DrawsInv
<1> SUFFICES ASSUME Init PROVE DrawsInv
  OBVIOUS
<1>1. \A k \in Keys : shared[k].record = 0
  BY DEF Init, NewShared
<1>2. pc = "build" /\ \A r \in RowIds : \A n \in FieldIds : ~FromGroup(r, n)
  BY CellShape DEF Init, FromGroup
<1>3. \A k \in Keys : RowsShowing(k) = {}
  BY <1>2 DEF RowsShowing, Members
<1> QED BY <1>1, <1>2, <1>3, FS_EmptySet DEF DrawsInv

LEMMA SameRowsShowing ==
    ASSUME cfg' = cfg, NEW k \in Keys,
           \A r \in RowIds : \A n \in Members(k) : FromGroup(r, n)' <=> FromGroup(r, n)
    PROVE  RowsShowing(k)' = RowsShowing(k)
<1>1. RowIds' = RowIds /\ Members(k)' = Members(k)
  BY FixedByConfig
<1> QED BY <1>1 DEF RowsShowing

(* A draw adds the row to those that show the group.                       *)
LEMMA DrawIsShown ==
    ASSUME RecordsInv, DrawsInv, GenerateLinked
    PROVE  DrawsInv'
<1>1. /\ pc = "generate" /\ pc' = "generate" /\ cfg' = cfg /\ row' = row /\ at' = at + 1
      /\ at \in FieldIds /\ Linked(at) /\ at \in Nat /\ row \in RowIds /\ cfg.rows \in Nat
      /\ shown \in [RowIds -> [FieldIds -> Cells]] /\ shared \in [Keys -> SharedContext]
      /\ FieldIds \subseteq Nat
  BY ConfigShape DEF GenerateLinked, RecordsInv, TypeOK, FieldIds
<1>2. PICK K \in Keys : K = Key(at)
  BY <1>1, FieldShape DEF RecordsInv, TypeOK
<1>3. PICK old \in SharedContext, new \in SharedContext :
          /\ old = shared[K]
          /\ shared' = [shared EXCEPT ![K] = new]
          /\ shown' = [shown EXCEPT ![row][at] = Of(new.record)]
          /\ new.record = IF old.next_called THEN old.record ELSE old.record + 1
  <2>1. shared[K] \in SharedContext
    BY <1>1
  <2>2. EnsureContext(shared[K]) \in SharedContext
    BY <2>1, EnsureShape
  <2>3. ContextNext(EnsureContext(shared[K])) \in SharedContext
        /\ ContextNext(EnsureContext(shared[K])).record
              = IF shared[K].next_called THEN shared[K].record ELSE shared[K].record + 1
    BY <2>1, <2>2, EnsureShape, DrawShape
  <2> QED BY <1>2, <2>1, <2>3 DEF GenerateLinked, Show
<1>4. new.record \in Nat /\ Of(new.record).from = "group" /\ old.record \in Nat
  BY CellShape DEF SharedContext
<1>5. \A r \in RowIds : \A n \in FieldIds :
         FromGroup(r, n)' <=> FromGroup(r, n) \/ (r = row /\ n = at)
  BY <1>1, <1>3, <1>4 DEF FromGroup
<1>6. /\ RowIds' = RowIds /\ FieldIds' = FieldIds
      /\ \A k \in Keys : Members(k)' = Members(k)
  BY <1>1, FixedByConfig
<1>7. \A k \in Keys : Members(k) \subseteq FieldIds /\ (at \in Members(k) <=> k = K)
  BY <1>1, <1>2 DEF Members
<1>8. \A k \in Keys \ {K} : RowsShowing(k)' = RowsShowing(k) /\ shared'[k] = shared[k]
  <2> SUFFICES ASSUME NEW k \in Keys \ {K}
               PROVE  RowsShowing(k)' = RowsShowing(k) /\ shared'[k] = shared[k]
    OBVIOUS
  <2>1. \A r \in RowIds : \A n \in Members(k) : FromGroup(r, n)' <=> FromGroup(r, n)
    BY <1>5, <1>7
  <2> QED BY <1>1, <1>3, <2>1, SameRowsShowing
<1>9. RowsShowing(K)' = RowsShowing(K) \cup {row}
  <2>1. \A r : r \in RowsShowing(K)' <=> r \in RowsShowing(K) \/ r = row
    BY <1>1, <1>5, <1>6, <1>7 DEF RowsShowing
  <2> QED BY <2>1
<1>10. shared'[K].record = Cardinality(RowsShowing(K)')
  <2>1. shared'[K] = new /\ old.record = Cardinality(RowsShowing(K))
    BY <1>1, <1>3 DEF DrawsInv
  <2>2. CASE old.next_called
    <3>1. row \in RowsShowing(K)
      BY <1>1, <1>3, <2>2 DEF DrawsInv
    <3>2. RowsShowing(K)' = RowsShowing(K)
      BY <1>9, <3>1
    <3> QED BY <1>3, <2>1, <2>2, <3>2
  <2>3. CASE ~old.next_called
    <3>1. row \notin RowsShowing(K)
      <4>1. \A n \in Members(K) : n \in FieldIds /\ Key(n) = K
        BY DEF Members
      <4>2. \A n \in Members(K) : ~FromGroup(row, n)
        BY <1>1, <1>3, <2>3, <4>1 DEF RecordsInv, ShownNow
      <4> QED BY <4>2 DEF RowsShowing
    <3>2. IsFiniteSet(RowsShowing(K))
      <4>1. 0 \in Int /\ cfg.rows - 1 \in Int
        BY <1>1
      <4>2. IsFiniteSet(RowIds)
        BY <4>1, FS_Interval DEF RowIds
      <4> QED BY <4>2, FS_Subset DEF RowsShowing
    <3>3. Cardinality(RowsShowing(K)') = Cardinality(RowsShowing(K)) + 1
      BY <1>9, <3>1, <3>2, FS_AddElement
    <3> QED BY <1>3, <2>1, <2>3, <3>3
  <2> QED BY <2>2, <2>3
<1>11. \A n \in FieldIds : n >= at + 1 => ~FromGroup(row, n)'
  <2>1. \A n \in FieldIds : n >= at + 1 => n >= at /\ n # at
    BY <1>1
  <2> QED BY <1>1, <1>5, <2>1 DEF DrawsInv
<1>12. ASSUME NEW k \in Keys, shared'[k].next_called PROVE row \in RowsShowing(k)'
  <2>1. CASE k = K
    BY <1>9, <2>1
  <2>2. CASE k # K
    BY <1>1, <1>8, <1>12, <2>2 DEF DrawsInv
  <2> QED BY <2>1, <2>2
<1>13. \A k \in Keys : shared'[k].record = Cardinality(RowsShowing(k)')
  BY <1>8, <1>10 DEF DrawsInv
<1>14. pc' = "generate" => /\ \A n \in FieldIds' : n >= at' => ~FromGroup(row, n)'
                           /\ \A k \in Keys : shared'[k].next_called
                                                 => row \in RowsShowing(k)'
  BY <1>1, <1>6, <1>11, <1>12
<1> QED BY <1>1, <1>6, <1>13, <1>14 DEF DrawsInv, FromGroup

(* Steps that draw nothing and leave the cells of the groups alone.        *)
LEMMA NothingShown ==
    ASSUME DrawsInv, cfg' = cfg,
           \A r \in RowIds : \A n \in FieldIds : FromGroup(r, n)' <=> FromGroup(r, n),
           \A k \in Keys : shared'[k].record = shared[k].record,
           pc' = "generate" =>
              /\ \A n \in FieldIds : n >= at' => ~(shown'[row'][n].from = "group")
              /\ \A k \in Keys : shared'[k].next_called => row' \in RowsShowing(k)
    PROVE  DrawsInv'
<1>1. FieldIds' = FieldIds
  BY FixedByConfig
<1>2. \A k \in Keys : RowsShowing(k)' = RowsShowing(k)
  <2> SUFFICES ASSUME NEW k \in Keys PROVE RowsShowing(k)' = RowsShowing(k)
    OBVIOUS
  <2>1. Members(k) \subseteq FieldIds
    BY DEF Members
  <2> QED BY <2>1, SameRowsShowing
<1>3. \A k \in Keys : shared'[k].record = Cardinality(RowsShowing(k)')
  BY <1>2 DEF DrawsInv
<1> QED BY <1>1, <1>2, <1>3 DEF DrawsInv, FromGroup

LEMMA DrawsStep == RecordsInv /\ DrawsInv /\ [Next]_vars => DrawsInv'
<1> SUFFICES ASSUME RecordsInv, DrawsInv, [Next]_vars PROVE DrawsInv'
  OBVIOUS
<1>0. /\ TypeOK /\ shared \in [Keys -> SharedContext]
      /\ shown \in [RowIds -> [FieldIds -> Cells]]
      /\ pc \in {"generate", "next"} => row \in RowIds
      /\ cfg \in Configs /\ FieldIds \subseteq Nat /\ row \in Nat
      /\ Len(cfg.fields) \in Nat /\ at \in 1 .. Len(cfg.fields) + 1
  BY ConfigShape DEF RecordsInv, TypeOK, FieldIds
<1>1. \A k \in Keys :
         shared[k].next_called =>
            /\ shared[k].made /\ pc # "build"
            /\ \E n \in Members(k) : pc = "next" => n >= at
  BY DEF RecordsInv, ResetsToCome
<1>2. \A r \in RowIds : \A n \in FieldIds :
         FromGroup(r, n) => pc # "build" /\ r <= row
  BY DEF RecordsInv, ShownBefore
<1>3. ASSUME BuildUnlinked \/ BuildConflict PROVE DrawsInv'
  <2>1. cfg' = cfg /\ shared' = shared /\ shown' = shown /\ pc' # "generate"
    BY <1>3 DEF BuildUnlinked, BuildConflict
  <2> QED BY <2>1, NothingShown DEF FromGroup
<1>4. ASSUME BuildDone PROVE DrawsInv'
  <2>1. /\ pc = "build" /\ cfg' = cfg /\ shared' = shared /\ shown' = shown /\ row' = row
        /\ pc' = "generate" => row < cfg.rows
    BY <1>4 DEF BuildDone, Begin
  <2>2. pc' = "generate" => row \in RowIds
    <3>1. cfg.rows \in Nat
      BY <1>0, ConfigShape
    <3> QED BY <1>0, <2>1, <3>1 DEF RowIds
  <2>3. \A k \in Keys : ~shared[k].next_called
    BY <1>1, <2>1
  <2>4. row \in RowIds => \A n \in FieldIds : ~FromGroup(row, n)
    BY <1>2, <2>1
  <2> QED BY <2>1, <2>2, <2>3, <2>4, NothingShown DEF FromGroup
<1>5. ASSUME BuildLinked PROVE DrawsInv'
  <2>1. /\ cfg' = cfg /\ shown' = shown /\ pc' = "build" /\ pc = "build" /\ at \in FieldIds
        /\ shared' = [shared EXCEPT ![Key(at)] = MergeConfig(@, at)]
    BY <1>5 DEF BuildLinked
  <2>2. \A k \in Keys : shared'[k] \in {shared[k], MergeConfig(shared[k], at)}
    BY <1>0, <2>1
  <2>3. \A k \in Keys : shared'[k].record = shared[k].record
    BY <1>0, <2>1, <2>2, MergeShape
  <2> QED BY <2>1, <2>3, NothingShown DEF FromGroup
<1>6. ASSUME GenerateOverride \/ GenerateOwn PROVE DrawsInv'
  <2>1. /\ cfg' = cfg /\ shared' = shared /\ pc = "generate" /\ pc' = "generate"
        /\ row' = row /\ at' = at + 1 /\ at \in FieldIds
        /\ \E c \in {Override, Own} : shown' = [shown EXCEPT ![row][at] = c]
    BY <1>6 DEF GenerateOverride, GenerateOwn, Show
  <2>2. ~FromGroup(row, at) /\ \A n \in FieldIds : n >= at => ~FromGroup(row, n)
    BY <1>0, <2>1 DEF DrawsInv
  <2>3. \A r \in RowIds : \A n \in FieldIds : FromGroup(r, n)' <=> FromGroup(r, n)
    BY <1>0, <2>1, <2>2, CellShape DEF FromGroup
  <2>4. \A n \in FieldIds : n >= at' => ~(shown'[row'][n].from = "group")
    <3>1. \A n \in FieldIds : n >= at + 1 => n >= at /\ n # at
      BY <1>0
    <3>2. \A n \in FieldIds \ {at} : shown'[row][n] = shown[row][n]
      BY <1>0, <2>1
    <3> QED BY <2>1, <2>2, <3>1, <3>2 DEF FromGroup
  <2>5. \A k \in Keys : shared'[k].next_called => row' \in RowsShowing(k)
    BY <2>1 DEF DrawsInv
  <2> QED BY <2>1, <2>3, <2>4, <2>5, NothingShown
<1>7. ASSUME GenerateLinked PROVE DrawsInv'
  BY <1>7, DrawIsShown
<1>8. ASSUME GenerateMissing \/ GenerateDone PROVE DrawsInv'
  <2>1. cfg' = cfg /\ shared' = shared /\ shown' = shown /\ pc' # "generate"
    BY <1>8 DEF GenerateMissing, GenerateDone
  <2> QED BY <2>1, NothingShown DEF FromGroup
<1>9. ASSUME NextField PROVE DrawsInv'
  <2>1. /\ cfg' = cfg /\ shown' = shown /\ pc' # "generate"
        /\ shared' = IF Linked(at) THEN [shared EXCEPT ![Key(at)] = Reset(@)] ELSE shared
    BY <1>9 DEF NextField
  <2>2. \A k \in Keys : shared'[k] \in {shared[k], Reset(shared[k])}
    BY <1>0, <2>1
  <2>3. \A k \in Keys : shared'[k].record = shared[k].record
    BY <1>0, <2>2, ResetShape
  <2> QED BY <2>1, <2>3, NothingShown DEF FromGroup
<1>10. ASSUME NextRow PROVE DrawsInv'
  <2>1. /\ pc = "next" /\ cfg' = cfg /\ shared' = shared /\ shown' = shown
        /\ row' = row + 1 /\ at \notin FieldIds
        /\ pc' = "generate" => row + 1 < cfg.rows
    BY <1>10 DEF NextRow, Begin
  <2>2. pc' = "generate" => row + 1 \in RowIds
    <3>1. cfg.rows \in Nat
      BY <1>0, ConfigShape
    <3> QED BY <1>0, <2>1, <3>1 DEF RowIds
  <2>3. \A k \in Keys : ~shared[k].next_called
    BY <1>0, <1>1, <2>1 DEF Members, FieldIds
  <2>4. row + 1 \in RowIds => \A n \in FieldIds : ~FromGroup(row + 1, n)
    BY <1>0, <1>2
  <2> QED BY <2>1, <2>2, <2>3, <2>4, NothingShown DEF FromGroup
<1>11. ASSUME UNCHANGED vars PROVE DrawsInv'
  <2>1. /\ cfg' = cfg /\ shared' = shared /\ shown' = shown /\ pc' = pc /\ row' = row
        /\ at' = at
    BY <1>11 DEF vars
  <2> QED BY <2>1, NothingShown DEF FromGroup, DrawsInv
<1> QED BY <1>3, <1>4, <1>5, <1>6, <1>7, <1>8, <1>9, <1>10, <1>11 DEF Next, Ended

(* A group has drawn as many records as there are rows that show it: rows  *)
(* that are overridden use up nothing of a pool of unique records.         *)
THEOREM NoRecordWastedHolds == Spec => []NoRecordWasted
<1>1. DrawsInv => NoRecordWasted
  BY DEF DrawsInv, NoRecordWasted, RowsShowing
<1>2. Spec => []RecordsInv
  BY RecordsInit, RecordsStep, PTL DEF Spec
<1> QED BY <1>1, <1>2, DrawsInit, DrawsStep, PTL DEF Spec
=============================================================================
