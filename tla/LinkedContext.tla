---------------------------- MODULE LinkedContext ----------------------------
(***************************************************************************)
(* Fields of one group show one record per row                             *)
(* (src/src/generators/types/{location,business,computer,payment,person}_  *)
(* generators.cpp): a city and a postcode of group "home" belong to one    *)
(* address, in every row to another one.                                   *)
(*                                                                         *)
(* Fields of a group share a context.  It is given the options of the      *)
(* group while the generators are constructed, is created by the first     *)
(* field that needs a value, draws a record when the first field of a row  *)
(* asks, and is told by every field when the row is over.  This is one     *)
(* run of the executor's sequential loop, the only one a field with a      *)
(* group allows (Executor!CanParallelizeSafely).                           *)
(*                                                                         *)
(* A record is the number of draws made so far, an option a pair of a name *)
(* and the value it parses to.  Whether an override applies to a row is    *)
(* left open here; OverrideRules decides it.                               *)
(***************************************************************************)
EXTENDS Naturals, Sequences, FiniteSets, LinkedModules

CONSTANTS
    Configs,             \* the configurations to explore
    Groups,              \* values of "group", an empty one is NoGroup
    NoGroup,
    OptionValues         \* what options parse to

(* A field; overridden says that it has an override which may apply.       *)
FieldType ==
    [generator : LinkedGenerators, group : Groups \cup {NoGroup},
     options : SUBSET (OptionNames \X OptionValues), unique : BOOLEAN,
     overridden : BOOLEAN]

(* A JSON object has at most one value for an option.                      *)
ConfigType == [rows : Nat, fields : Seq(FieldType)]

Clash(options, others) ==
    \E p \in options, q \in others : p[1] = q[1] /\ p[2] # q[2]

ASSUME NoGroupAssumption == NoGroup \notin Groups
ASSUME ConfigsAssumption ==
    /\ Configs \subseteq ConfigType
    /\ \A c \in Configs : \A n \in 1 .. Len(c.fields) :
          ~Clash(c.fields[n].options, c.fields[n].options)

VARIABLES
    cfg,                 \* the configuration, fixed for the run
    pc,                  \* where the run is
    at,                  \* the field that is next
    row,                 \* i: the row that is being made
    shared,              \* the shared context of each module and group
    shown                \* what each field showed in each row

vars == <<cfg, pc, at, row, shared, shown>>

FieldIds == 1 .. Len(cfg.fields)
RowIds == 0 .. cfg.rows - 1
Keys == Modules \X Groups

Linked(n) == cfg.fields[n].group # NoGroup
Key(n) == <<Module(cfg.fields[n].generator), cfg.fields[n].group>>

(* Options of field n that its module merges.                              *)
Wanted(n) == {p \in cfg.fields[n].options : p[1] \in MergedOptions(cfg.fields[n].generator)}

(* Only person and payment contexts know "unique".                         *)
WantsUnique(n) ==
    /\ cfg.fields[n].generator \in PersonGenerators \cup PaymentGenerators
    /\ cfg.fields[n].unique

(***************************************************************************)
(* A shared context: the options merged so far (unique_ starts unset,      *)
(* which means false), and the context itself, once it is made, with the   *)
(* options it was made from.                                               *)
(***************************************************************************)
Context == [options : SUBSET (OptionNames \X OptionValues), unique : BOOLEAN]
SharedContext ==
    [merged : Context, made : BOOLEAN, madeFrom : Context, record : Nat,
     next_called : BOOLEAN]

NoOptions == [options |-> {}, unique |-> FALSE]
NewShared ==
    [merged |-> NoOptions, made |-> FALSE, madeFrom |-> NoOptions, record |-> 0,
     next_called |-> FALSE]

MergeConfig(s, n) ==
    [s EXCEPT !.merged.options = @ \cup Wanted(n),
              !.merged.unique = @ \/ WantsUnique(n)]

(* Mutant of EnsureContext: options may be missing.                        *)
AlwaysEnsured(s, k) == TRUE

(* File contexts need both of their options, the others have defaults.     *)
CanEnsure(s, k) ==
    \/ s.made
    \/ k[1] # "computer"
    \/ \A o \in ComputerOptions : \E p \in s.merged.options : p[1] = o

EnsureContext(s) ==
    IF s.made THEN s ELSE [s EXCEPT !.made = TRUE, !.madeFrom = s.merged]

(* Mutant of ContextNext: each field draws.                                *)
ContextNextAlways(s) == [s EXCEPT !.record = @ + 1, !.next_called = TRUE]

ContextNext(s) ==
    IF s.next_called THEN s
    ELSE [s EXCEPT !.record = @ + 1, !.next_called = TRUE]

(* reset does nothing to a context that is not made yet.                   *)
Reset(s) == IF s.made THEN [s EXCEPT !.next_called = FALSE] ELSE s

(***************************************************************************)
(* build_runtime_fields: the generators are constructed in field order.    *)
(***************************************************************************)
BuildUnlinked ==
    /\ pc = "build" /\ at \in FieldIds
    /\ ~Linked(at)
    /\ at' = at + 1
    /\ UNCHANGED <<cfg, pc, row, shared, shown>>

(* Mutants of BuildLinked: a conflict is let through; the context is made  *)
(* before all fields have been heard.                                      *)
BuildEagerly ==
    /\ pc = "build" /\ at \in FieldIds
    /\ Linked(at)
    /\ ~Clash(Wanted(at), shared[Key(at)].merged.options)
    /\ shared' = [shared EXCEPT ![Key(at)] = EnsureContext(MergeConfig(@, at))]
    /\ at' = at + 1
    /\ UNCHANGED <<cfg, pc, row, shown>>

BuildWithoutCheck ==
    /\ pc = "build" /\ at \in FieldIds
    /\ Linked(at)
    /\ shared' = [shared EXCEPT ![Key(at)] = MergeConfig(@, at)]
    /\ at' = at + 1
    /\ UNCHANGED <<cfg, pc, row, shown>>

BuildLinked ==
    /\ pc = "build" /\ at \in FieldIds
    /\ Linked(at)
    /\ ~Clash(Wanted(at), shared[Key(at)].merged.options)
    /\ shared' = [shared EXCEPT ![Key(at)] = MergeConfig(@, at)]
    /\ at' = at + 1
    /\ UNCHANGED <<cfg, pc, row, shown>>

BuildConflict ==
    /\ pc = "build" /\ at \in FieldIds
    /\ Linked(at)
    /\ Clash(Wanted(at), shared[Key(at)].merged.options)
    /\ pc' = "conflict"
    /\ UNCHANGED <<cfg, at, row, shared, shown>>

(* Mutant of Begin: one row too many.                                      *)
BeginOffByOne(r) == IF r <= cfg.rows THEN "generate" ELSE "end"

(* The next row, if there is one left.                                     *)
Begin(r) == IF r < cfg.rows THEN "generate" ELSE "end"

BuildDone ==
    /\ pc = "build" /\ at \notin FieldIds
    /\ pc' = Begin(row) /\ at' = 1
    /\ UNCHANGED <<cfg, row, shared, shown>>

(***************************************************************************)
(* materialize_row: every field generates its value ...                    *)
(***************************************************************************)
Nothing == [from |-> "nothing", record |-> 0]
Override == [from |-> "override", record |-> 0]
Own == [from |-> "own", record |-> 0]
Of(n) == [from |-> "group", record |-> n]
Cells == [from : {"nothing", "override", "own", "group"}, record : Nat]

Show(cell) == shown' = [shown EXCEPT ![row][at] = cell]

(* Mutant of GenerateOverride: the record is drawn before the override is  *)
(* asked.                                                                  *)
GenerateOverrideLate ==
    /\ pc = "generate" /\ at \in FieldIds
    /\ cfg.fields[at].overridden
    /\ Show(Override)
    /\ shared' = IF Linked(at)
                 THEN [shared EXCEPT ![Key(at)] = ContextNext(EnsureContext(@))]
                 ELSE shared
    /\ at' = at + 1
    /\ UNCHANGED <<cfg, pc, row>>

(* apply_override has a value: the shared context is left alone.           *)
GenerateOverride ==
    /\ pc = "generate" /\ at \in FieldIds
    /\ cfg.fields[at].overridden
    /\ Show(Override)
    /\ at' = at + 1
    /\ UNCHANGED <<cfg, pc, row, shared>>

GenerateOwn ==
    /\ pc = "generate" /\ at \in FieldIds
    /\ ~Linked(at)
    /\ Show(Own)
    /\ at' = at + 1
    /\ UNCHANGED <<cfg, pc, row, shared>>

GenerateLinked ==
    /\ pc = "generate" /\ at \in FieldIds
    /\ Linked(at)
    /\ CanEnsure(shared[Key(at)], Key(at))
    /\ LET s == ContextNext(EnsureContext(shared[Key(at)])) IN
          /\ shared' = [shared EXCEPT ![Key(at)] = s]
          /\ Show(Of(s.record))
    /\ at' = at + 1
    /\ UNCHANGED <<cfg, pc, row>>

GenerateMissing ==
    /\ pc = "generate" /\ at \in FieldIds
    /\ Linked(at)
    /\ ~CanEnsure(shared[Key(at)], Key(at))
    /\ pc' = "missing"
    /\ UNCHANGED <<cfg, at, row, shared, shown>>

GenerateDone ==
    /\ pc = "generate" /\ at \notin FieldIds
    /\ pc' = "next" /\ at' = 1
    /\ UNCHANGED <<cfg, row, shared, shown>>

(***************************************************************************)
(* ... and then every field is told that the row is over.                  *)
(***************************************************************************)
(* Mutant of NextField: only the first field of all resets its context.     *)
NextFirstField ==
    /\ pc = "next" /\ at \in FieldIds
    /\ shared' = IF Linked(at) /\ at = 1
                 THEN [shared EXCEPT ![Key(at)] = Reset(@)] ELSE shared
    /\ at' = at + 1
    /\ UNCHANGED <<cfg, pc, row, shown>>

NextField ==
    /\ pc = "next" /\ at \in FieldIds
    /\ shared' = IF Linked(at) THEN [shared EXCEPT ![Key(at)] = Reset(@)] ELSE shared
    /\ at' = at + 1
    /\ UNCHANGED <<cfg, pc, row, shown>>

NextRow ==
    /\ pc = "next" /\ at \notin FieldIds
    /\ row' = row + 1
    /\ pc' = Begin(row + 1) /\ at' = 1
    /\ UNCHANGED <<cfg, shared, shown>>

(***************************************************************************)
(* The specification.                                                      *)
(***************************************************************************)
Init ==
    /\ cfg \in Configs
    /\ pc = "build" /\ at = 1 /\ row = 0
    /\ shared = [k \in Keys |-> NewShared]
    /\ shown = [r \in RowIds |-> [n \in FieldIds |-> Nothing]]

(* The run is over, or an exception has left it.                           *)
Ended == pc \in {"end", "conflict", "missing"} /\ UNCHANGED vars

Next ==
    \/ BuildUnlinked \/ BuildLinked \/ BuildConflict \/ BuildDone
    \/ GenerateOverride \/ GenerateOwn \/ GenerateLinked \/ GenerateMissing
    \/ GenerateDone
    \/ NextField \/ NextRow
    \/ Ended

Spec == Init /\ [][Next]_vars

-----------------------------------------------------------------------------
(***************************************************************************)
(* Properties.                                                             *)
(***************************************************************************)
FromGroup(r, n) == shown[r][n].from = "group"
SameGroup(n, m) == Linked(n) /\ Linked(m) /\ Key(n) = Key(m)
Members(k) == {n \in FieldIds : Linked(n) /\ Key(n) = k}

TypeOK ==
    /\ cfg \in Configs
    /\ pc \in {"build", "generate", "next", "end", "conflict", "missing"}
    /\ at \in 1 .. Len(cfg.fields) + 1
    /\ row \in Nat
    /\ pc \in {"generate", "next"} => row \in RowIds
    /\ shared \in [Keys -> SharedContext]
    /\ shown \in [RowIds -> [FieldIds -> Cells]]

(* Fields of one group, in one module, show the same record in a row,      *)
(* whatever the order of the fields and whichever of them are overridden.  *)
OneRecordPerRow ==
    \A r \in RowIds : \A n, m \in FieldIds :
        SameGroup(n, m) /\ FromGroup(r, n) /\ FromGroup(r, m)
            => shown[r][n].record = shown[r][m].record

(* A later row shows a later record: none is shown in two rows, although   *)
(* the field that draws it may be another one in each row.                 *)
NoRecordTwice ==
    \A r, q \in RowIds : \A n, m \in FieldIds :
        r < q /\ SameGroup(n, m) /\ FromGroup(r, n) /\ FromGroup(q, m)
            => shown[r][n].record < shown[q][m].record

(* A group draws a record in the rows that show one and in no other, so    *)
(* overridden rows use up nothing of a pool of unique records.             *)
NoRecordWasted ==
    \A k \in Keys :
        shared[k].record
            = Cardinality({r \in RowIds : \E n \in Members(k) : FromGroup(r, n)})

(* What a context is made from is what all of its fields ask for, also     *)
(* those that come after the field that makes it.                          *)
MadeFromAllOptions ==
    \A k \in Keys :
        shared[k].made =>
            /\ shared[k].madeFrom.options = UNION {Wanted(n) : n \in Members(k)}
            /\ shared[k].madeFrom.unique <=> \E n \in Members(k) : WantsUnique(n)

(* A run is refused, before its first row, if and only if two fields of a  *)
(* group ask for different values of an option of their module             *)
(* (tests/test_linkage_conflicts.cpp); "unique" never conflicts.           *)
HasConflict ==
    \E n, m \in FieldIds : SameGroup(n, m) /\ Clash(Wanted(n), Wanted(m))

ConflictsRefused ==
    /\ pc = "conflict" => HasConflict
    /\ pc \notin {"build", "conflict"} => ~HasConflict

(* A group of files for which no field names the operating systems, or     *)
(* none the extensions, fails the run in the first row that needs a        *)
(* record; the run ends well only if overrides have covered all of them.   *)
Lacks(k) ==
    /\ k[1] = "computer"
    /\ \E o \in ComputerOptions :
          \A n \in Members(k) : \A p \in Wanted(n) : p[1] # o

MissingOptionsRefused ==
    /\ pc = "missing" => \E n \in FieldIds : Linked(n) /\ Lacks(Key(n))
    /\ \A r \in RowIds : \A n \in FieldIds :
          Linked(n) /\ Lacks(Key(n)) => ~FromGroup(r, n)
=============================================================================
