--------------------------- MODULE CommandsProofs ---------------------------
(***************************************************************************)
(* Proofs about Commands: every variable keeps its type whatever the author *)
(* writes, no run touches what an earlier one left before it has accepted  *)
(* its document and tried its fields, a file that is finished is complete, *)
(* a failure is in the log, a quiet check holds for the run that follows,  *)
(* the import uses the settings the document has, the reader accepts what  *)
(* the schema admits, and what init writes can be used as it is.           *)
(***************************************************************************)
EXTENDS DocumentProofs

(***************************************************************************)
(* The steps.  A document is drafted and judged before the run starts.     *)
(***************************************************************************)
Drafts ==
    /\ pc = "idle" /\ verdict' = "none"
    /\ UNCHANGED <<pc, cfg, outVars, logVars, ended>>

Judges ==
    /\ pc = "idle" /\ UNCHANGED <<document, pc, cfg, outVars, logVars, ended>>
    /\ verdict' = "quiet" =>
          Issues(document, "Allow") = {} /\ PreviewRowWorks(FieldSpecs(document))

RunBegun ==
    \/ RunRefused \/ NoWorkspace \/ \E n \in RowOptions : RunMisused(n) \/ RunBegins(n)

FileStep ==
    \/ EstimateFails \/ \E reason \in {"declined", "open"} : NotOpened(reason)
    \/ OpenFile \/ WriteRow \/ GeneratorThrows \/ FinishFile \/ Kill

ConnectStep ==
    \/ NoConnection \/ NoTable \/ NoColumn \/ SchemaMisfit \/ DeleteFails \/ NoUpsertKey
    \/ StartImport

ImportStep ==
    \/ \E reason \in ImportErrors : ImportError(reason)
    \/ ImportReturns \/ ImportThrows

(* Every step is one of those; the commands before the run change nothing  *)
(* of the run.                                                             *)
LEMMA StepKinds ==
    ASSUME Next
    PROVE  Drafts \/ Judges \/ RunBegun \/ FileStep \/ ConnectStep \/ ImportStep
<1>1. ASSUME NEW format \in OutputFormats, NEW table \in TableNames, InitFile(format, table)
      PROVE  Drafts
  BY <1>1 DEF InitFile, Write, Drafts, outVars, logVars
<1>2. ASSUME NEW connection \in {Connection, Example}, NEW table \in TableNames,
             InitDatabase(connection, table)
      PROVE  Drafts
  BY <1>2 DEF InitDatabase, Write, Drafts, outVars, logVars
<1>3. ASSUME NEW table \in Tables, NEW generators \in GeneratorChoices(table),
             InitFromTable(table, generators)
      PROVE  Drafts
  BY <1>3 DEF InitFromTable, Write, Drafts, outVars, logVars
<1>4. ASSUME NEW doc, Edit(doc)
      PROVE  Drafts
  BY <1>4 DEF Edit, Drafts, outVars, logVars
<1>5. ASSUME NEW changes \in RootEdits, EditRoot(changes)
      PROVE  Drafts
  BY <1>4, <1>5, Zenon DEF EditRoot
<1>6. ASSUME NEW e \in FieldEdits, EditField(e[1], e[2], e[3])
      PROVE  Drafts
  BY <1>4, <1>6, Zenon DEF EditField
<1>7. ASSUME NEW e \in FieldSwaps, WriteField(e[1], e[2])
      PROVE  Drafts
  BY <1>4, <1>7, Zenon DEF WriteField
<1>8. CheckRefuses => Judges
  BY DEF CheckRefuses, Check, Judges, outVars, logVars
<1>9. CheckPasses => Judges
  BY DEF CheckPasses, Check, Judges, outVars, logVars
<1> QED BY <1>1, <1>2, <1>3, <1>5, <1>6, <1>7, <1>8, <1>9, Zenon
        DEF Next, RunBegun, FileStep, ConnectStep, ImportStep

(***************************************************************************)
(* What a run has made sure of.  It reads its document once, which nobody  *)
(* changes while it runs, and goes on with what it has read.               *)
(***************************************************************************)
HasRead ==
    Running => /\ Accepted(document, "Require")
               /\ cfg.fields = FieldSpecs(document)
               /\ cfg.database = DatabaseOutput(document.root)
ChosenOutput == pc \in {"connecting", "importing"} => OutputType(document.root) = "database"
HasTried == pc = "writing" => PreviewRowWorks(cfg.fields)
HasMatched == pc = "importing" => SetUp

(* What the last check has found out.                                      *)
QuietIsClean ==
    verdict = "quiet" =>
        Issues(document, "Allow") = {} /\ PreviewRowWorks(FieldSpecs(document))
QuietIsTrue == verdict = "quiet" => ended.reason # "row"

RunInv ==
    /\ pc \in Phases
    /\ pc # "ended" => ended = NotEnded
    /\ HasRead /\ ChosenOutput /\ HasTried /\ HasMatched
    /\ QuietIsClean /\ QuietIsTrue

(* The fields and the database a run uses are those of its document.       *)
LEMMA WhatIsRead ==
    ASSUME NEW n, NEW doc
    PROVE  LET read == Overridden(GenerationConfig(doc), n, "output")
           IN /\ read.fields = FieldSpecs(doc)
              /\ read.database = DatabaseOutput(doc.root)
              /\ read.type = OutputType(doc.root)
  BY DEF Overridden, GenerationConfig

LEMMA InitialRun == Init => RunInv
  BY DEF Init, RunInv, Phases, HasRead, Running, ChosenOutput, HasTried, HasMatched,
         QuietIsClean, QuietIsTrue, NotEnded

(* The set-up of an import depends on what has been read.                  *)
LEMMA SameSetUp ==
    ASSUME cfg' = cfg
    PROVE  SetUp' <=> SetUp
  BY DEF SetUp, ColumnsMatch, Targets, Target

(***************************************************************************)
(* The error log.                                                          *)
(***************************************************************************)
(* A run has a clean log until its import starts; then the log has the     *)
(* errors of the import, and the logger knows whether there are any.       *)
CleanLog == pc \in {"estimating", "writing", "connecting"} => errors = <<>> /\ emitted = FALSE
ImportLog ==
    pc = "importing" => errors \in Seq(ImportErrors) /\ (emitted <=> errors # <<>>)

(* A document has finitely many fields, and so has what is read of it.     *)
FieldsCounted == IsFiniteSet(DOMAIN cfg.fields)

LogInv ==
    /\ pc \in Phases /\ emitted \in BOOLEAN
    /\ CleanLog /\ ImportLog
    /\ FieldsCounted => FailureIsTold

LEMMA InitialLog == Init => LogInv
  BY DEF Init, LogInv, Phases, CleanLog, ImportLog, FailureIsTold

(* An exception that meets a clean log is logged, and once.                *)
LEMMA ToldOnce ==
    ASSUME NEW reason, reason \notin {"schema", "completed"},
           errors = <<>>, emitted = FALSE,
           Throws(reason) \/ LogsAndThrows(reason)
    PROVE  LogInv'
<1>1. pc' = "ended" /\ ended' = [exit |-> ExitFailure, reason |-> reason]
  BY DEF Throws, LogsAndThrows, EndsWith
<1>2. errors' = <<reason>> /\ emitted' = FALSE
  BY DEF Throws, LogsAndThrows, Handler
<1>3. reason \in ToSet(<<reason>>) /\ Len(<<reason>>) = 1
  BY DEF ToSet
<1>4. FailureIsTold'
  BY <1>1, <1>2, <1>3 DEF FailureIsTold
<1> QED BY <1>1, <1>2, <1>4 DEF LogInv, Phases, CleanLog, ImportLog

(* A run that does not fail has nothing to tell.                           *)
LEMMA NothingToTell ==
    ASSUME LogInv, pc' = "ended", ended'.reason # "completed", UNCHANGED logVars \/ emitted'
    = FALSE,
           ended'.exit # ExitFailure \/ ended'.reason \in {"refused", "workspace"}
    PROVE  LogInv'
  BY DEF LogInv, Phases, CleanLog, ImportLog, FailureIsTold, logVars

(* Every field that does not fit is logged, and there is one.              *)
LEMMA MisfitsTold ==
    ASSUME SchemaMisfit, errors = <<>>
    PROVE  LogInv'
<1> DEFINE wrong == Misplaced(cfg.fields, Target.columns)
           count == Cardinality(wrong)
<1>1. /\ pc' = "ended" /\ ended' = [exit |-> ExitFailure, reason |-> "schema"]
      /\ cfg' = cfg /\ emitted' = FALSE
  BY DEF SchemaMisfit, EndsWith, Handler
<1>2. ASSUME FieldsCounted
      PROVE  count \in Nat /\ count # 0
  <2>1. wrong \subseteq DOMAIN cfg.fields
    BY DEF Misplaced
  <2>2. IsFiniteSet(wrong)
    BY <1>2, <2>1, FS_Subset DEF FieldsCounted
  <2>3. wrong # {}
    BY DEF SchemaMisfit, SetUp, SchemaFits
  <2> QED BY <2>2, <2>3, FS_CardinalityType, FS_EmptySet
<1>3. Misplaced(cfg.fields, Target.columns)' = wrong
  BY <1>1 DEF Target, Targets
<1>4. FieldsCounted' => FailureIsTold'
  <2> SUFFICES ASSUME FieldsCounted' PROVE FailureIsTold'
    OBVIOUS
  <2>1. FieldsCounted
    BY <1>1 DEF FieldsCounted
  <2>2. count \in Nat /\ count # 0
    BY <1>2, <2>1
  <2>3. errors' = [i \in 1 .. count |-> "schema"]
    BY <2>2 DEF SchemaMisfit, Handler
  <2>4. "schema" \in ToSet(errors)' /\ Len(errors') = count
    <3> HIDE DEF count
    <3> QED BY <2>2, <2>3 DEF ToSet
  <2>5. (Cardinality(Misplaced(cfg.fields, Target.columns)))' = count
    BY <1>3
  <2> HIDE DEF count
  <2> QED BY <1>1, <2>4, <2>5 DEF FailureIsTold
<1> QED BY <1>1, <1>4 DEF LogInv, Phases, CleanLog, ImportLog

(* An import logs its errors; the one it throws is among them, and if it   *)
(* returns all of them have been let pass.                                 *)
LEMMA ImportKeepsLog ==
    ASSUME LogInv, ImportStep
    PROVE  LogInv'
<1>1. pc = "importing" /\ errors \in Seq(ImportErrors) /\ (emitted <=> errors # <<>>)
  BY DEF LogInv, ImportLog, ImportStep, ImportError, ImportReturns, ImportThrows
<1>2. ASSUME NEW reason \in ImportErrors, ImportError(reason)
      PROVE  LogInv'
  <2>1. errors' \in Seq(ImportErrors) /\ errors' # <<>> /\ emitted' = TRUE
    BY <1>1, <1>2 DEF ImportError
  <2>2. pc' = "importing"
    BY <1>2 DEF ImportError
  <2> QED BY <2>1, <2>2 DEF LogInv, Phases, CleanLog, ImportLog, FailureIsTold
<1>3. CASE ImportReturns
  <2>1. /\ pc' = "ended" /\ ended' = [exit |-> ExitOk, reason |-> "completed"]
        /\ errors' = errors /\ cfg' = cfg /\ emitted' = FALSE
    BY <1>3 DEF ImportReturns, EndsWith
  <2>2. ToSet(errors) \subseteq ImportErrors
    BY <1>1 DEF ToSet
  <2>3. ToSet(errors) \subseteq {"batch"}
    BY <1>3, <2>2 DEF ImportReturns, Stopped, ImportErrors
  <2>4. errors # <<>> => GoesOn
    <3>1. errors # <<>> => errors[1] \in ToSet(errors)
      BY <1>1 DEF ToSet
    <3> QED BY <1>3, <3>1 DEF ImportReturns, Stopped
  <2>5. GoesOn' <=> GoesOn
    BY <2>1 DEF GoesOn, EffectivePolicy, InsertModeUsed
  <2>6. FailureIsTold'
    BY <2>1, <2>3, <2>4, <2>5 DEF FailureIsTold, ExitOk, ExitFailure
  <2> QED BY <2>1, <2>6 DEF LogInv, Phases, CleanLog, ImportLog
<1>4. CASE ImportThrows
  <2>1. errors # <<>>
    BY <1>4, <1>1 DEF ImportThrows, Stopped, ToSet
  <2>2. /\ pc' = "ended" /\ ended' = [exit |-> ExitFailure, reason |-> Head(errors)]
        /\ errors' = errors /\ emitted' = FALSE
    BY <1>1, <1>4, <2>1 DEF ImportThrows, Throws, EndsWith, Handler
  <2>3. Head(errors) \in ToSet(errors) /\ Head(errors) \in ImportErrors
    BY <1>1, <2>1 DEF ToSet
  <2>4. FailureIsTold'
    BY <2>2, <2>3 DEF FailureIsTold, ImportErrors
  <2> QED BY <2>2, <2>4 DEF LogInv, Phases, CleanLog, ImportLog
<1> QED BY <1>2, <1>3, <1>4 DEF ImportStep

LEMMA LogStep ==
    ASSUME LogInv, [Next]_vars
    PROVE  LogInv'
<1>1. CASE UNCHANGED vars
  <2>1. GoesOn' <=> GoesOn
    BY <1>1 DEF vars, GoesOn, EffectivePolicy, InsertModeUsed
  <2>2. Misplaced(cfg.fields, Target.columns)' = Misplaced(cfg.fields, Target.columns)
    BY <1>1 DEF vars, Target, Targets
  <2>3. FieldsCounted' <=> FieldsCounted
    BY <1>1 DEF vars, FieldsCounted
  <2> QED BY <1>1, <2>1, <2>2, <2>3
          DEF vars, logVars, LogInv, CleanLog, ImportLog, FailureIsTold
<1>2. CASE Drafts \/ Judges
  BY <1>2 DEF Drafts, Judges, logVars, LogInv, CleanLog, ImportLog, FailureIsTold
<1>3. CASE RunBegun
  <2>1. ASSUME NEW n \in RowOptions, RunBegins(n)
        PROVE  LogInv'
    BY <2>1 DEF RunBegins, LogInv, Phases, CleanLog, ImportLog, FailureIsTold
  <2>2. ASSUME NEW n \in RowOptions, RunMisused(n)
        PROVE  LogInv'
    BY <2>2, NothingToTell DEF RunMisused, EndsWith, ExitUsage, ExitFailure
  <2>3. CASE RunRefused \/ NoWorkspace
    <3>1. pc' = "ended" /\ UNCHANGED logVars /\ ended'.reason \in {"refused", "workspace"}
      BY <2>3 DEF RunRefused, NoWorkspace, EndsWith
    <3> QED BY <3>1, NothingToTell
  <2> QED BY <1>3, <2>1, <2>2, <2>3 DEF RunBegun
<1>4. CASE FileStep
  <2>1. errors = <<>> /\ emitted = FALSE
    BY <1>4 DEF FileStep, EstimateFails, NotOpened, OpenFile, WriteRow, GeneratorThrows,
                FinishFile, Kill, LogInv, CleanLog
  <2>2. CASE EstimateFails
    BY <2>1, <2>2, ToldOnce DEF EstimateFails
  <2>3. ASSUME NEW reason \in {"declined", "open"}, NotOpened(reason)
        PROVE  LogInv'
    BY <2>1, <2>3, ToldOnce DEF NotOpened
  <2>4. CASE OpenFile \/ WriteRow
    BY <2>1, <2>4 DEF OpenFile, WriteRow, logVars, LogInv, Phases, CleanLog, ImportLog,
       FailureIsTold
  <2>5. CASE GeneratorThrows
    BY <2>1, <2>5, ToldOnce DEF GeneratorThrows
  <2>6. CASE FinishFile
    <3>1. CASE Throws("flush")
      BY <2>1, <3>1, ToldOnce
    <3>2. CASE EndsWith(ExitOk, "completed") /\ UNCHANGED logVars
      <4>1. pc' = "ended" /\ ended' = [exit |-> ExitOk, reason |-> "completed"]
            /\ errors' = <<>> /\ emitted' = FALSE
        BY <2>1, <3>2 DEF EndsWith, logVars
      <4>2. FailureIsTold'
        BY <4>1 DEF FailureIsTold, ToSet, ExitOk, ExitFailure
      <4> QED BY <4>1, <4>2 DEF LogInv, Phases, CleanLog, ImportLog
    <3> QED BY <2>6, <3>1, <3>2 DEF FinishFile
  <2>7. CASE Kill
    BY <2>7, NothingToTell DEF Kill, EndsWith, Killed, ExitFailure
  <2> QED BY <1>4, <2>2, <2>3, <2>4, <2>5, <2>6, <2>7 DEF FileStep
<1>5. CASE ConnectStep
  <2>1. errors = <<>> /\ emitted = FALSE
    BY <1>5 DEF ConnectStep, NoConnection, NoTable, NoColumn, SchemaMisfit, DeleteFails,
                NoUpsertKey, StartImport, SetUpFails, LogInv, CleanLog
  <2>2. CASE NoConnection \/ NoTable \/ NoColumn \/ DeleteFails \/ NoUpsertKey
    <3>1. PICK reason \in {"connection", "metadata", "column", "delete", "upsert key"} :
              SetUpFails(reason)
      BY <2>2 DEF NoConnection, NoTable, NoColumn, DeleteFails, NoUpsertKey
    <3> QED BY <2>1, <3>1, ToldOnce DEF SetUpFails
  <2>3. CASE SchemaMisfit
    BY <2>1, <2>3, MisfitsTold
  <2>4. CASE StartImport
    BY <2>1, <2>4 DEF StartImport, logVars, LogInv, Phases, CleanLog, ImportLog, FailureIsTold
  <2> QED BY <1>5, <2>2, <2>3, <2>4 DEF ConnectStep
<1>6. CASE ImportStep
  BY <1>6, ImportKeepsLog
<1> QED BY <1>1, <1>2, <1>3, <1>4, <1>5, <1>6, StepKinds

LEMMA LogInvariant == Spec => []LogInv
  BY InitialLog, LogStep, PTL DEF Spec

(***************************************************************************)
(* What a run has made sure of, and what a check has found out, stay true. *)
(***************************************************************************)
LEMMA RunStep ==
    ASSUME LogInv, RunInv, [Next]_vars
    PROVE  RunInv'
<1> USE DEF Phases, NotEnded
<1>1. CASE UNCHANGED vars
  <2>1. SetUp' <=> SetUp
    BY <1>1, SameSetUp DEF vars
  <2> QED BY <1>1, <2>1 DEF vars, fileVars, RunInv, HasRead, Running, ChosenOutput, HasTried,
                            HasMatched, QuietIsClean, QuietIsTrue
<1>2. CASE Drafts \/ Judges
  BY <1>2 DEF Drafts, Judges, RunInv, HasRead, Running, ChosenOutput, HasTried, HasMatched,
              QuietIsClean, QuietIsTrue
<1>3. CASE RunBegun
  <2>1. pc = "idle" /\ UNCHANGED <<document, verdict>> /\ ended = NotEnded
    BY <1>3 DEF RunBegun, RunRefused, NoWorkspace, RunMisused, RunBegins, RunStarts, fileVars,
                RunInv
  <2>2. ASSUME NEW n \in RowOptions, RunBegins(n)
        PROVE  RunInv'
    <3>1. /\ Accepted(document, "Require")
          /\ cfg' = Overridden(GenerationConfig(document), n, "output")
          /\ pc' = (IF cfg'.type = "database" THEN "connecting" ELSE "estimating")
          /\ ended' = ended
      BY <2>2 DEF RunBegins
    <3>2. /\ cfg'.fields = FieldSpecs(document)
          /\ cfg'.database = DatabaseOutput(document.root)
          /\ cfg'.type = OutputType(document.root)
      BY <3>1, WhatIsRead
    <3> QED BY <2>1, <3>1, <3>2 DEF RunInv, HasRead, Running, ChosenOutput, HasTried,
                                    HasMatched, QuietIsClean, QuietIsTrue
  <2>3. ASSUME pc' = "ended", ended'.reason \in {"refused", "usage", "workspace"}
        PROVE  RunInv'
    BY <2>1, <2>3 DEF RunInv, HasRead, Running, ChosenOutput, HasTried, HasMatched,
                      QuietIsClean, QuietIsTrue
  <2>4. CASE RunRefused \/ NoWorkspace \/ \E n \in RowOptions : RunMisused(n)
    BY <2>3, <2>4 DEF RunRefused, NoWorkspace, RunMisused, EndsWith
  <2> QED BY <1>3, <2>2, <2>4 DEF RunBegun
<1>4. CASE FileStep \/ ConnectStep \/ ImportStep
  <2>1. Running /\ UNCHANGED <<document, verdict, cfg>>
    BY <1>4 DEF FileStep, EstimateFails, NotOpened, OpenFile, WriteRow, GeneratorThrows,
                FinishFile, Kill, ConnectStep, NoConnection, NoTable, NoColumn, SchemaMisfit,
                DeleteFails, NoUpsertKey, StartImport, SetUpFails, ImportStep, ImportError,
                ImportReturns, ImportThrows, fileVars, Running
  <2>2. ASSUME pc' = "ended", verdict = "quiet" => ended'.reason # "row"
        PROVE  RunInv'
    BY <2>1, <2>2 DEF RunInv, HasRead, Running, ChosenOutput, HasTried, HasMatched,
                      QuietIsClean, QuietIsTrue
  <2>3. ASSUME pc' = pc, ended' = ended
        PROVE  RunInv'
    <3>1. SetUp' <=> SetUp
      BY <2>1, SameSetUp
    <3> QED BY <2>1, <2>3, <3>1 DEF RunInv, HasRead, Running, ChosenOutput, HasTried,
                                    HasMatched, QuietIsClean, QuietIsTrue
  <2>4. CASE EstimateFails
    <3>1. verdict # "quiet"
      BY <2>1, <2>4 DEF EstimateFails, RunInv, HasRead, QuietIsClean
    <3> QED BY <2>2, <2>4, <3>1 DEF EstimateFails, Throws, EndsWith
  <2>5. ASSUME NEW reason, reason # "row", Throws(reason) \/ LogsAndThrows(reason)
        PROVE  RunInv'
    <3>1. pc' = "ended" /\ ended' = [exit |-> ExitFailure, reason |-> reason]
      BY <2>5 DEF Throws, LogsAndThrows, EndsWith
    <3>2. ended'.reason # "row"
      BY <2>5, <3>1
    <3> QED BY <2>2, <3>1, <3>2
  <2>6. CASE OpenFile
    BY <2>1, <2>6 DEF OpenFile, RunInv, HasRead, Running, ChosenOutput, HasTried, HasMatched,
                      QuietIsClean, QuietIsTrue
  <2>7. CASE FileStep
    <3>1. ASSUME NEW reason \in {"declined", "open"}, NotOpened(reason)
          PROVE  RunInv'
      BY <2>5, <3>1 DEF NotOpened
    <3>2. CASE WriteRow
      BY <2>3, <3>2 DEF WriteRow
    <3>3. CASE GeneratorThrows
      BY <2>5, <3>3 DEF GeneratorThrows
    <3>4. CASE FinishFile
      BY <2>2, <2>5, <3>4 DEF FinishFile, EndsWith
    <3>5. CASE Kill
      BY <2>2, <3>5 DEF Kill, EndsWith
    <3> QED BY <2>4, <2>6, <2>7, <3>1, <3>2, <3>3, <3>4, <3>5 DEF FileStep
  <2>8. CASE ConnectStep
    <3>1. ASSUME NEW reason, reason # "row", SetUpFails(reason)
          PROVE  RunInv'
      BY <2>5, <3>1 DEF SetUpFails
    <3>2. CASE NoConnection \/ NoTable \/ NoColumn \/ DeleteFails \/ NoUpsertKey
      BY <3>1, <3>2 DEF NoConnection, NoTable, NoColumn, DeleteFails, NoUpsertKey
    <3>3. CASE SchemaMisfit
      BY <2>2, <3>3 DEF SchemaMisfit, EndsWith
    <3>4. CASE StartImport
      <4>1. pc = "connecting" /\ pc' = "importing" /\ SetUp /\ ended' = ended
        BY <3>4 DEF StartImport
      <4>2. SetUp'
        BY <2>1, <4>1, SameSetUp
      <4> QED BY <2>1, <4>1, <4>2 DEF RunInv, HasRead, Running, ChosenOutput, HasTried,
                                      HasMatched, QuietIsClean, QuietIsTrue
    <3> QED BY <2>8, <3>2, <3>3, <3>4 DEF ConnectStep
  <2>9. CASE ImportStep
    <3>1. ASSUME NEW reason \in ImportErrors, ImportError(reason)
          PROVE  RunInv'
      BY <2>3, <3>1 DEF ImportError
    <3>2. CASE ImportReturns
      BY <2>2, <3>2 DEF ImportReturns, EndsWith
    <3>3. CASE ImportThrows
      <4>1. errors \in Seq(ImportErrors) /\ errors # <<>>
        BY <3>3 DEF ImportThrows, Stopped, ToSet, LogInv, ImportLog
      <4>2. Head(errors) # "row"
        BY <4>1 DEF ImportErrors
      <4> QED BY <2>5, <3>3, <4>2 DEF ImportThrows
    <3> QED BY <2>9, <3>1, <3>2, <3>3 DEF ImportStep
  <2> QED BY <1>4, <2>7, <2>8, <2>9
<1> QED BY <1>1, <1>2, <1>3, <1>4, StepKinds

LEMMA RunInvariant == Spec => []RunInv
  BY InitialRun, RunStep, InitialLog, LogStep, PTL DEF Spec

(* A run that is refused, or whose rows cannot be generated, leaves the    *)
(* output file of an earlier run alone, and a table is emptied only for an *)
(* import whose columns have been found to fit.                            *)
THEOREM RefusedRunKeepsDataHolds == Spec => RefusedRunKeepsData
<1> DEFINE Keeps ==
       /\ disk' # disk => Accepted(document, "Require") /\ PreviewRowWorks(cfg.fields)
       /\ cleared' # cleared => Accepted(document, "Require") /\ SetUp
<1>1. ASSUME RunInv, [Next]_vars
      PROVE  [Keeps]_vars
  <2>1. CASE FileStep
    <3>1. cleared' = cleared
      BY <2>1 DEF FileStep, EstimateFails, NotOpened, OpenFile, WriteRow, GeneratorThrows,
                  FinishFile, Kill, outVars
    <3>2. disk' # disk => Running /\ PreviewRowWorks(cfg.fields)
      BY <1>1, <2>1 DEF FileStep, EstimateFails, NotOpened, OpenFile, WriteRow,
                        GeneratorThrows, FinishFile, Kill, outVars, Running, RunInv, HasTried
    <3> QED BY <1>1, <3>1, <3>2 DEF RunInv, HasRead
  <2>2. CASE ConnectStep
    <3>1. disk' = disk /\ (cleared' # cleared => Running /\ SetUp)
      BY <2>2 DEF ConnectStep, NoConnection, NoTable, NoColumn, SchemaMisfit, DeleteFails,
                  NoUpsertKey, StartImport, SetUpFails, outVars, Running
    <3> QED BY <1>1, <3>1 DEF RunInv, HasRead
  <2>3. CASE ImportStep
    BY <2>3 DEF ImportStep, ImportError, ImportReturns, ImportThrows, outVars
  <2>4. CASE Drafts \/ Judges \/ RunBegun
    BY <2>4 DEF Drafts, Judges, RunBegun, RunRefused, NoWorkspace, RunMisused, RunBegins,
                RunStarts, outVars
  <2> QED BY <1>1, <2>1, <2>2, <2>3, <2>4, StepKinds
<1>2. RunInv /\ [Next]_vars => [Keeps]_vars
  BY <1>1
<1>3. Spec => [][Keeps]_vars
  <2> HIDE DEF Keeps
  <2> QED BY <1>2, RunInvariant, PTL DEF Spec
<1> QED BY <1>3 DEF RefusedRunKeepsData

(***************************************************************************)
(* What a check tells of the run.                                          *)
(***************************************************************************)
(* A rule that overrides the one row of a preview overrides every row of a *)
(* run, unless its quota overflows.                                        *)
LEMMA PreviewIsEnough ==
    ASSUME NEW specs, NEW rows, PreviewRowWorks(specs), QuotaIsKept(rows)
    PROVE  RowsWork(specs, rows)
BY DEF PreviewRowWorks, FirstRowWorks, EveryRowOverridden, RowsWork

(* The type of the output is one of the two.                               *)
LEMMA OutputTypeShape ==
    ASSUME NEW root
    PROVE  OutputType(root) \in OutputTypes
<1> DEFINE p == Append(OutputPath, "type")
<1>1. OutputType(root) =
         IF Has(root, p) /\ Fits(OneOf(OutputTypes), root[p]) THEN Reading(root[p]) ELSE "file"
  BY DEF OutputType, Read, TypeKind
<1>2. Fits(OneOf(OutputTypes), root[p]) => Reading(root[p]) \in OutputTypes
  BY DEF Fits, OneOf, Kind, Reading, OutputTypes
<1> QED BY <1>1, <1>2 DEF OutputTypes

(* A document in which check finds nothing has all that run demands, but   *)
(* for the choice of the output.                                           *)
LEMMA DatabaseDemands ==
    ASSUME NEW root, DatabaseIssues(root, "Allow") = {}
    PROVE  DatabaseIssues(root, "Require") = {}
<1> DEFINE lacking == {j \in {"connection", "table"} : DatabaseOutput(root)[j] = ""}
           demands == {Demanded("Allow", Append(DatabasePath, k)) : k \in lacking}
<1>1. Has(root, DatabasePath) /\ IsObject(root, DatabasePath)
  BY DEF DatabaseIssues, Demanded
<1>2. UNION demands = {}
  BY <1>1 DEF DatabaseIssues
<1>3. lacking = {}
  <2> SUFFICES ASSUME NEW k \in lacking PROVE FALSE
    OBVIOUS
  <2>1. Demanded("Allow", Append(DatabasePath, k)) \in demands
    OBVIOUS
  <2>2. Demanded("Allow", Append(DatabasePath, k)) # {}
    BY DEF Demanded
  <2> HIDE DEF demands
  <2> QED BY <1>2, <2>1, <2>2
<1> QED BY <1>1, <1>2, <1>3 DEF DatabaseIssues

LEMMA FileDemands ==
    ASSUME NEW root, FileIssues(root, "Allow") = {}, Has(root, Append(FilePath, "format"))
    PROVE  FileIssues(root, "Require") = {}
<1>1. Has(root, FilePath) /\ IsObject(root, FilePath)
  BY DEF FileIssues, Demanded
<1> QED BY <1>1 DEF FileIssues, IssueIf, When

LEMMA CleanIsAccepted ==
    ASSUME Issues(document, "Allow") = {}, OutputIsChosen
    PROVE  Accepted(document, "Require")
<1> DEFINE root == document.root
<1>1. root[<<>>].type = "object"
  BY DEF Issues
<1>2. /\ UnknownKeys(root, <<>>, {"$schema", "rows", "output", "fields"}) = {}
      /\ RowsIssues(root, "Allow") = {}
      /\ OutputIssues(root, "Allow") = {}
      /\ FieldsIssues(document) = {}
  BY <1>1 DEF Issues
<1>3. RowsIssues(root, "Require") = {}
  BY <1>2 DEF RowsIssues, Demanded
<1>4. OutputIssues(root, "Require") = {}
  <2>1. Has(root, OutputPath) /\ IsObject(root, OutputPath)
    BY <1>2 DEF OutputIssues, Demanded
  <2>2. /\ UnknownKeys(root, OutputPath, {"type", "file", "database"}) = {}
        /\ Misfits(root, OutputPath, TypeKind) = {}
        /\ (IF OutputType(root) = "database" THEN DatabaseIssues(root, "Allow")
            ELSE FileIssues(root, "Allow")) = {}
    BY <1>2, <2>1 DEF OutputIssues
  <2>3. IssueIf("Require" = "Require" /\ ~Has(root, <<"output", "type">>),
                <<"output", "type">>) = {}
    BY DEF OutputIsChosen, IssueIf, When
  <2>4. (IF OutputType(root) = "database" THEN DatabaseIssues(root, "Require")
         ELSE FileIssues(root, "Require")) = {}
    BY <2>2, DatabaseDemands, FileDemands, OutputTypeShape DEF OutputTypes, OutputIsChosen
  <2> QED BY <2>1, <2>2, <2>3, <2>4 DEF OutputIssues
<1>5. Issues(document, "Require") = {}
  BY <1>1, <1>2, <1>3, <1>4 DEF Issues
<1> QED BY <1>5 DEF Accepted

(* Of a document that check passes without a word, run accepts what names  *)
(* its output, and no run of it fails for the construction of a generator, *)
(* nor for a missing option of a context, however many rows it has short   *)
(* of those whose quota overflows: only one rule for all rows passes the   *)
(* trial of one row, and that rule then overrides every row of the run.    *)
THEOREM CheckForetellsRunHolds == Spec => []CheckForetellsRun
<1>1. RunInv => CheckForetellsRun
  <2> SUFFICES ASSUME RunInv, verdict = "quiet"
               PROVE  /\ pc = "idle" /\ OutputIsChosen => Accepted(document, "Require")
                      /\ pc = "importing" => Constructs(cfg.fields)
                      /\ pc = "importing" /\ QuotaIsKept(cfg.rows) =>
                            RowsWork(cfg.fields, cfg.rows)
                      /\ ended.reason # "row"
    BY DEF CheckForetellsRun
  <2>1. OutputIsChosen => Accepted(document, "Require")
    BY CleanIsAccepted DEF RunInv, QuietIsClean
  <2>2. pc = "importing" => PreviewRowWorks(cfg.fields)
    BY DEF RunInv, QuietIsClean, HasRead, Running
  <2>3. PreviewRowWorks(cfg.fields) => Constructs(cfg.fields)
    BY DEF PreviewRowWorks
  <2>4. PreviewRowWorks(cfg.fields) /\ QuotaIsKept(cfg.rows) => RowsWork(cfg.fields, cfg.rows)
    BY PreviewIsEnough
  <2> QED BY <2>1, <2>2, <2>3, <2>4 DEF RunInv, QuietIsTrue
<1> QED BY <1>1, RunInvariant, PTL

(***************************************************************************)
(* The settings of an import.                                              *)
(***************************************************************************)
(* The key of a member of an object is the last element of its path.       *)
LEMMA MemberKeys ==
    ASSUME NEW root, NEW S, NEW path \in Seq(S), NEW k \in S, Has(root, Append(path, k))
    PROVE  k \in Keys(root, path)
<1> DEFINE p == Append(path, k)
<1>1. /\ p \in Seq(S) /\ p # <<>> /\ Len(p) = Len(path) + 1 /\ p[Len(path) + 1] = k
      /\ \A i \in 1 .. Len(path) : p[i] = path[i]
  BY AppendProperties
<1> HIDE DEF p
<1>2. Last(p) = k
  BY <1>1 DEF Last
<1>3. Front(p) = path
  BY <1>1 DEF Front
<1>4. p \in {q \in DOMAIN root \ {<<>>} : Front(q) = path}
  BY <1>1, <1>3 DEF Has, p
<1> QED BY <1>2, <1>4 DEF Keys

(* Where nothing misfits, what is written fits.                            *)
LEMMA WrittenFits ==
    ASSUME NEW root, NEW S, NEW path \in Seq(S), NEW kinds,
           Misfits(root, path, kinds) = {}, NEW k \in DOMAIN kinds, k \in S,
           Has(root, Append(path, k))
    PROVE  Fits(kinds[k], root[Append(path, k)])
<1> SUFFICES ASSUME ~Fits(kinds[k], root[Append(path, k)])
             PROVE  FALSE
  OBVIOUS
<1>1. k \in Keys(root, path)
  BY MemberKeys
<1>2. Issue(Append(path, k)) \in Misfits(root, path, kinds)
  BY <1>1 DEF Misfits
<1> QED BY <1>2

(* The settings of a document that the reader has nothing against.         *)
LEMMA DatabaseHasNoMisfit ==
    ASSUME NEW root, \A issue \in DatabaseIssues(root, "Require") : issue.warning
    PROVE  /\ Misfits(root, DatabasePath, DatabaseKinds) = {}
           /\ Misfits(root, AdvancedPath, AdvancedKinds) = {}
<1>1. Has(root, DatabasePath) /\ IsObject(root, DatabasePath)
  BY DEF DatabaseIssues, Demanded, Issue
<1>2. /\ Misfits(root, DatabasePath, DatabaseKinds) \subseteq DatabaseIssues(root, "Require")
      /\ Misfits(root, AdvancedPath, AdvancedKinds) \subseteq DatabaseIssues(root, "Require")
  BY <1>1 DEF DatabaseIssues
<1>3. ASSUME NEW path, NEW kinds, NEW issue \in Misfits(root, path, kinds)
      PROVE  ~issue.warning
  BY <1>3 DEF Misfits, Issue
<1> QED BY <1>2, <1>3

LEMMA AcceptedDatabase ==
    ASSUME NEW doc, Accepted(doc, "Require"), OutputType(doc.root) = "database"
    PROVE  \A issue \in DatabaseIssues(doc.root, "Require") : issue.warning
<1> DEFINE root == doc.root
<1>1. root[<<>>].type = "object"
  BY DEF Accepted, Issues, Issue
<1>2. OutputIssues(root, "Require") \subseteq Issues(doc, "Require")
  BY <1>1 DEF Issues
<1>3. \A issue \in OutputIssues(root, "Require") : issue.warning
  BY <1>2 DEF Accepted
<1>4. Has(root, OutputPath) /\ IsObject(root, OutputPath)
  BY <1>3 DEF OutputIssues, Demanded, Issue
<1>5. DatabaseIssues(root, "Require") \subseteq OutputIssues(root, "Require")
  BY <1>4 DEF OutputIssues
<1> QED BY <1>3, <1>5

(* The words the paths of the settings are made of.                        *)
SettingWords == {"output", "database", "advanced"} \cup DOMAIN DatabaseKinds

LEMMA SettingPaths == DatabasePath \in Seq(SettingWords) /\ AdvancedPath \in Seq(SettingWords)
<1> {"output", "database", "advanced"} \subseteq SettingWords
  BY DEF SettingWords
<1> HIDE DEF SettingWords
<1>1. \A a, b, c \in SettingWords : <<a, b>> \in Seq(SettingWords) /\ <<a, b, c>> \in Seq(SettingWords)
  OBVIOUS
<1> QED BY <1>1 DEF DatabasePath, AdvancedPath

(* The keys of the settings that "advanced" repeats.                       *)
LEMMA SettingKeys ==
    ASSUME NEW k \in DOMAIN AdvancedKinds
    PROVE  /\ k \in SettingWords
           /\ k \in DOMAIN DatabaseKinds /\ DatabaseKinds[k] = AdvancedKinds[k]
           /\ k \notin DOMAIN DatabaseDefaults
           /\ \A mode \in DatabaseModes : k \in DOMAIN Presets[mode]
<1>1. k \in {"insert_mode", "batch_size", "queue_size", "threads", "rate_limit_rows_per_sec"}
  BY DEF AdvancedKinds
<1>2. k \in DOMAIN DatabaseKinds /\ DatabaseKinds[k] = AdvancedKinds[k]
  BY DEF DatabaseKinds, ++
<1>3. k \notin DOMAIN DatabaseDefaults
  BY <1>1 DEF DatabaseDefaults
<1>4. \A mode \in DatabaseModes : k \in DOMAIN Presets[mode]
  <2> SUFFICES ASSUME NEW mode \in DatabaseModes PROVE k \in DOMAIN Presets[mode]
    OBVIOUS
  <2>1. CASE mode = "fast"
    BY <1>1, <2>1 DEF Presets
  <2>2. CASE mode = "balanced"
    BY <1>1, <2>2 DEF Presets
  <2>3. CASE mode = "safe"
    BY <1>1, <2>3 DEF Presets
  <2> QED BY <2>1, <2>2, <2>3 DEF DatabaseModes
<1> QED BY <1>2, <1>3, <1>4 DEF SettingWords

(* The mode that chooses the presets.                                      *)
ModeOf(root) ==
    IF Has(root, Append(DatabasePath, "mode")) THEN root[Append(DatabasePath, "mode")].text
    ELSE "balanced"

LEMMA ModeRead ==
    ASSUME NEW root, Misfits(root, DatabasePath, DatabaseKinds) = {}
    PROVE  /\ Read(root, DatabasePath, [mode |-> OneOf(DatabaseModes)], DatabaseDefaults).mode
                 = ModeOf(root)
           /\ ModeOf(root) \in DatabaseModes
<1> DEFINE p == Append(DatabasePath, "mode")
<1>1. "mode" \in DOMAIN DatabaseKinds /\ DatabaseKinds["mode"] = OneOf(DatabaseModes)
  BY DEF DatabaseKinds, AdvancedKinds, ++
<1>2. DatabasePath \in Seq(SettingWords)
  BY SettingPaths
<1>3. Has(root, p) => Fits(OneOf(DatabaseModes), root[p])
  <2>1. "mode" \in SettingWords
    BY <1>1 DEF SettingWords
  <2> QED BY <1>1, <1>2, <2>1, WrittenFits
<1>4. Has(root, p) => Reading(root[p]) = root[p].text /\ root[p].text \in DatabaseModes
  BY <1>3 DEF Fits, OneOf, Kind, Reading, DatabaseModes
<1>5. Read(root, DatabasePath, [mode |-> OneOf(DatabaseModes)], DatabaseDefaults).mode
         = IF Has(root, p) /\ Fits(OneOf(DatabaseModes), root[p]) THEN Reading(root[p])
           ELSE DatabaseDefaults["mode"]
  BY DEF Read
<1> QED BY <1>3, <1>4, <1>5 DEF ModeOf, DatabaseDefaults, DatabaseModes

(* Each setting is the one of "advanced", else that of the database, else  *)
(* that of the mode, and what is counted is at least 1.                    *)
LEMMA SettingsRead ==
    ASSUME NEW root, NEW k \in DOMAIN AdvancedKinds,
           Misfits(root, DatabasePath, DatabaseKinds) = {},
           Misfits(root, AdvancedPath, AdvancedKinds) = {}
    PROVE  /\ DatabaseOutput(root)[k] =
                 IF Has(root, Append(AdvancedPath, k))
                 THEN Reading(root[Append(AdvancedPath, k)])
                 ELSE IF Has(root, Append(DatabasePath, k))
                      THEN Reading(root[Append(DatabasePath, k)])
                      ELSE Presets[ModeOf(root)][k]
           /\ k \in {"batch_size", "queue_size", "threads"} => DatabaseOutput(root)[k] >= 1
<1> DEFINE defaults == DatabaseDefaults ++ Presets[ModeOf(root)]
           own == Read(root, DatabasePath, DatabaseKinds, defaults)
           advanced == Read(root, AdvancedPath, AdvancedKinds, own)
           a == Append(AdvancedPath, k)
           d == Append(DatabasePath, k)
<1>1. DatabasePath \in Seq(SettingWords) /\ AdvancedPath \in Seq(SettingWords)
  BY SettingPaths
<1>2. DatabaseOutput(root) = advanced ++ own
  BY ModeRead DEF DatabaseOutput
<1>3. DatabaseOutput(root)[k] = advanced[k]
  BY <1>2 DEF ++, Read
<1>4. /\ advanced[k] = IF Has(root, a) THEN Reading(root[a]) ELSE own[k]
      /\ Has(root, a) => Fits(AdvancedKinds[k], root[a])
  <2>1. Has(root, a) => Fits(AdvancedKinds[k], root[a])
    BY <1>1, SettingKeys, WrittenFits
  <2> HIDE DEF own
  <2> QED BY <2>1 DEF Read
<1>5. /\ own[k] = IF Has(root, d) THEN Reading(root[d]) ELSE defaults[k]
      /\ Has(root, d) => Fits(AdvancedKinds[k], root[d])
  <2>1. k \in SettingWords /\ k \in DOMAIN DatabaseKinds /\ DatabaseKinds[k] = AdvancedKinds[k]
    BY SettingKeys
  <2>2. Has(root, d) => Fits(DatabaseKinds[k], root[d])
    BY <1>1, <2>1, WrittenFits
  <2> HIDE DEF defaults
  <2> QED BY <2>1, <2>2 DEF Read
<1>6. ModeOf(root) \in DatabaseModes
  BY ModeRead
<1>7. defaults[k] = Presets[ModeOf(root)][k]
  BY <1>6, SettingKeys DEF ++
<1>8. ASSUME k \in {"batch_size", "queue_size", "threads"}
      PROVE  DatabaseOutput(root)[k] >= 1
  <2>1. AdvancedKinds[k] = AtLeast(1)
    BY <1>8 DEF AdvancedKinds
  <2>2. ASSUME NEW v, Fits(AtLeast(1), v)
        PROVE  Reading(v) >= 1
    BY <2>2 DEF Fits, AtLeast, Kind, Reading
  <2>3. Presets[ModeOf(root)][k] >= 1
    BY <1>6, <1>8 DEF DatabaseModes, Presets
  <2> HIDE DEF defaults, own, advanced, a, d
  <2> QED BY <1>3, <1>4, <1>5, <1>7, <2>1, <2>2, <2>3
<1> HIDE DEF defaults, own, advanced
<1> QED BY <1>3, <1>4, <1>5, <1>7, <1>8

(* What a run uses is what is written: of each setting of the import the   *)
(* one under "advanced", else the one of the database, else that of the    *)
(* mode; and no run has an empty batch, an empty queue or no thread.       *)
THEOREM SettingsAsWrittenHolds == Spec => []SettingsAsWritten
<1>1. RunInv => SettingsAsWritten
  <2> SUFFICES ASSUME RunInv, pc \in {"connecting", "importing"}
               PROVE  /\ \A k \in DOMAIN AdvancedKinds : cfg.database[k] = InEffect(k)
                      /\ \A k \in {"batch_size", "queue_size", "threads"} :
                             cfg.database[k] >= 1
    BY DEF SettingsAsWritten
  <2> DEFINE root == document.root
  <2>1. /\ Accepted(document, "Require") /\ OutputType(root) = "database"
        /\ cfg.database = DatabaseOutput(root)
    BY DEF RunInv, HasRead, Running, ChosenOutput
  <2>2. \A issue \in DatabaseIssues(root, "Require") : issue.warning
    BY <2>1, AcceptedDatabase
  <2>3. /\ Misfits(root, DatabasePath, DatabaseKinds) = {}
        /\ Misfits(root, AdvancedPath, AdvancedKinds) = {}
    BY <2>2, DatabaseHasNoMisfit
  <2>4. ASSUME NEW k \in DOMAIN AdvancedKinds
        PROVE  cfg.database[k] = InEffect(k)
    BY <2>1, <2>3, SettingsRead DEF InEffect, ModeOf
  <2>5. ASSUME NEW k \in {"batch_size", "queue_size", "threads"}
        PROVE  cfg.database[k] >= 1
    <3>1. k \in DOMAIN AdvancedKinds
      BY DEF AdvancedKinds
    <3> QED BY <2>1, <2>3, <3>1, SettingsRead
  <2> QED BY <2>4, <2>5
<1> QED BY <1>1, RunInvariant, PTL

(***************************************************************************)
(* The schema and the reader.                                              *)
(***************************************************************************)
(* What matches a kind of the schema fits it for the reader, if it is no   *)
(* number that an int could not hold.                                      *)
LEMMA MatchesFits ==
    ASSUME NEW kind, NEW v, Matches(kind, v), Plain(v), kind.type # "number"
    PROVE  Fits(kind, v)
  BY DEF Matches, Fits, Plain, IsNumber

(* An object of a shape has no other members, and none that misfits, where *)
(* the reader knows what the shape has.                                    *)
LEMMA ShapeIsRead ==
    ASSUME NEW obj, IsTree(obj), NEW path, NEW shape, HasShape(obj, path, shape),
           NEW known, DOMAIN shape.properties \subseteq known
    PROVE  UnknownKeys(obj, path, known) = {}
<1> SUFFICES ASSUME NEW k \in Keys(obj, path) \ known PROVE FALSE
  BY DEF UnknownKeys
<1>1. Has(obj, path)
  BY TreeKeys
<1> QED BY <1>1 DEF HasShape

LEMMA ShapeFits ==
    ASSUME NEW obj, IsTree(obj), NEW path, NEW shape, HasShape(obj, path, shape),
           \A p \in DOMAIN obj : Plain(obj[p]), NEW kinds,
           \A k \in DOMAIN kinds \cap DOMAIN shape.properties :
               kinds[k] = shape.properties[k] /\ kinds[k].type # "number"
    PROVE  Misfits(obj, path, kinds) = {}
<1> SUFFICES ASSUME NEW k \in DOMAIN kinds \cap Keys(obj, path),
                    ~Fits(kinds[k], obj[Append(path, k)])
             PROVE  FALSE
  BY DEF Misfits
<1>1. Has(obj, path) /\ Append(path, k) \in DOMAIN obj
  BY TreeKeys DEF Has
<1>2. k \in DOMAIN shape.properties /\ Matches(shape.properties[k], obj[Append(path, k)])
  BY <1>1 DEF HasShape
<1> QED BY <1>1, <1>2, MatchesFits

(* A field that the schema admits is collected, and the reader has nothing *)
(* against it.                                                             *)
LEMMA FieldIsRead ==
    ASSUME NEW field, IsTree(field), FieldAdmitted(field), Generators # {},
           Keys(field, <<>>) \cap {"supports_unique", "supports_group"} = {}
    PROVE  Collected(field) /\ FieldIssues(field) = {}
<1> DEFINE g == field[<<"generator">>].text
<1>1. Has(field, <<>>)
  BY DEF IsTree, Has
<1>2. field[<<>>].type = "object"
  BY <1>1 DEF FieldAdmitted, HasShape, IsObject
<1>3. /\ Keys(field, <<>>) \subseteq DOMAIN FieldShape.properties
      /\ FieldShape.required \subseteq Keys(field, <<>>)
  BY <1>1 DEF FieldAdmitted, HasShape
<1>4. ASSUME NEW k \in Keys(field, <<>>)
      PROVE  /\ Has(field, <<k>>)
             /\ Matches(FieldShape.properties[k], field[<<k>>])
  <2>1. Append(<<>>, k) = <<k>>
    OBVIOUS
  <2>2. Has(field, Append(<<>>, k))
    BY TreeKeys
  <2>3. Matches(FieldShape.properties[k], field[Append(<<>>, k)])
    BY <1>1 DEF FieldAdmitted, HasShape
  <2> QED BY <2>1, <2>2, <2>3
<1>5. {"name", "generator", "config"} \subseteq Keys(field, <<>>)
  BY <1>3 DEF FieldShape, Shape
<1>6. IsText(field, <<"name">>)
  <2>1. FieldShape.properties["name"].type = "string"
    BY DEF FieldShape, Shape, AnyText, Kind
  <2>2. Has(field, <<"name">>) /\ Matches(FieldShape.properties["name"], field[<<"name">>])
    BY <1>4, <1>5
  <2> QED BY <2>1, <2>2 DEF IsText, Matches
<1>7. IsText(field, <<"generator">>) /\ g \in Generators
  <2>1. FieldShape.properties["generator"] = OneOf(Generators)
    BY DEF FieldShape, Shape
  <2>2. Has(field, <<"generator">>) /\ Matches(OneOf(Generators), field[<<"generator">>])
    BY <1>4, <1>5, <2>1
  <2> QED BY <2>2 DEF IsText, Matches, OneOf, Kind
<1>8. IsObject(field, ConfigPath)
  <2>1. FieldShape.properties["config"].type = "object"
    BY DEF FieldShape, Shape, Nested, Kind
  <2>2. Has(field, <<"config">>) /\ Matches(FieldShape.properties["config"], field[<<"config">>])
    BY <1>4, <1>5
  <2> QED BY <2>1, <2>2 DEF IsObject, Matches, ConfigPath
<1>9. Collected(field)
  BY <1>2, <1>6, <1>7, <1>8 DEF Collected, FieldBasics, KnownGenerator
<1>10. ASSUME NEW k, NEW type, Has(field, <<k>>),
              k \in {"unique", "group", "default_value"},
              FieldShape.properties[k].type = type, type \notin {"integer", "number"}
       PROVE  field[<<k>>].type = type
  BY <1>4, <1>10, TopKeys DEF Matches
<1>11. /\ Has(field, <<"unique">>) => field[<<"unique">>].type = "boolean"
       /\ Has(field, <<"group">>) => field[<<"group">>].type = "string"
       /\ Has(field, <<"default_value">>) => field[<<"default_value">>].type = "object"
  <2>1. /\ FieldShape.properties["unique"].type = "boolean"
        /\ FieldShape.properties["group"].type = "string"
        /\ FieldShape.properties["default_value"].type = "object"
    BY DEF FieldShape, Shape, Boolean, AnyText, Nested, Kind
  <2> QED BY <1>10, <2>1
<1>12. Keys(field, <<>>) \cap Restrictions(g) = {}
  BY DEF FieldAdmitted, GeneratorConstraint
<1>13. /\ ~Catalog[g].supports_unique => ~Has(field, <<"unique">>)
       /\ ~Catalog[g].supports_data_linkage => ~Has(field, <<"group">>)
  BY <1>12, TopKeys DEF Restrictions
<1>14. Keys(field, <<>>) \ KnownFieldKeys = {}
  BY <1>3 DEF FieldShape, Shape, KnownFieldKeys
<1>15. Keys(field, ConfigPath) \ DOMAIN Catalog[g].config_template = {}
  <2>1. DOMAIN ConfigShape(g).properties = ConfigParams(g)
    BY DEF ConfigShape, Shape
  <2>2. HasShape(field, ConfigPath, ConfigShape(g))
    BY DEF FieldAdmitted, GeneratorConstraint
  <2> QED BY <1>8, <2>1, <2>2 DEF HasShape, ConfigParams, IsObject
<1>16. FieldDetails(field) = {}
  BY <1>11, <1>13, <1>14, <1>15 DEF FieldDetails, When
<1> QED BY <1>2, <1>9, <1>16 DEF FieldIssues, Collected

(* What check lets pass is no more than a warning.                         *)
LEMMA AllowedIsWarning ==
    ASSUME NEW path, NEW issue \in Demanded("Allow", path)
    PROVE  issue.warning
<1>1. issue = [warning |-> "Allow" = "Allow", path |-> path]
  BY DEF Demanded
<1>2. issue.warning = ("Allow" = "Allow")
  BY <1>1
<1> QED BY <1>2

(* Of the output of a document that the schema admits, the reader finds at *)
(* most that something is missing, which check lets pass.                  *)
LEMMA DatabaseIsRead ==
    ASSUME NEW root, IsTree(root), \A p \in DOMAIN root : Plain(root[p]), OutputAdmitted(root)
    PROVE  \A issue \in DatabaseIssues(root, "Allow") : issue.warning
<1>1. HasShape(root, DatabasePath, DatabaseShape) /\ HasShape(root, AdvancedPath, AdvancedShape)
  BY DEF OutputAdmitted
<1>2. CASE ~Has(root, DatabasePath)
  BY <1>2, AllowedIsWarning DEF DatabaseIssues
<1>3. CASE Has(root, DatabasePath)
  <2>1. IsObject(root, DatabasePath)
    BY <1>1, <1>3 DEF HasShape
  <2>2. UnknownKeys(root, DatabasePath, DOMAIN DatabaseKinds \cup {"advanced"}) = {}
    <3>1. DOMAIN DatabaseShape.properties \subseteq DOMAIN DatabaseKinds \cup {"advanced"}
      BY DEF DatabaseShape, Shape, DatabaseKinds, ++
    <3> QED BY <1>1, <3>1, ShapeIsRead
  <2>3. Misfits(root, DatabasePath, DatabaseKinds) = {}
    <3>1. ASSUME NEW k \in DOMAIN DatabaseKinds \cap DOMAIN DatabaseShape.properties
          PROVE  DatabaseKinds[k] = DatabaseShape.properties[k] /\ DatabaseKinds[k].type # "number"
      <4>1. k \in {"connection", "table", "mode", "write_mode", "transaction_mode",
                   "error_policy"}
        BY <3>1 DEF DatabaseShape, Shape, DatabaseKinds, AdvancedKinds, ++
      <4>2. /\ DatabaseKinds["connection"] = NonEmpty /\ DatabaseKinds["table"] = NonEmpty
            /\ DatabaseKinds["mode"] = OneOf(DatabaseModes)
            /\ DatabaseKinds["write_mode"] = OneOf(WriteModes)
            /\ DatabaseKinds["transaction_mode"] = OneOf(TransactionModes)
            /\ DatabaseKinds["error_policy"] = OneOf(ErrorPolicies)
        BY DEF DatabaseKinds, AdvancedKinds, ++
      <4>3. /\ DatabaseShape.properties["connection"] = NonEmpty
            /\ DatabaseShape.properties["table"] = NonEmpty
            /\ DatabaseShape.properties["mode"] = OneOf(DatabaseModes)
            /\ DatabaseShape.properties["write_mode"] = OneOf(WriteModes)
            /\ DatabaseShape.properties["transaction_mode"] = OneOf(TransactionModes)
            /\ DatabaseShape.properties["error_policy"] = OneOf(ErrorPolicies)
        BY DEF DatabaseShape, Shape, DatabaseModes, WriteModes, TransactionModes,
           ErrorPolicies
      <4>4. NonEmpty.type # "number" /\ \A names : OneOf(names).type # "number"
        BY DEF NonEmpty, OneOf, Kind
      <4> QED BY <4>1, <4>2, <4>3, <4>4
    <3> QED BY <1>1, <3>1, ShapeFits
  <2>4. ~(Has(root, AdvancedPath) /\ ~IsObject(root, AdvancedPath))
    BY <1>1 DEF HasShape
  <2>5. UnknownKeys(root, AdvancedPath, DOMAIN AdvancedKinds) = {}
    <3>1. DOMAIN AdvancedShape.properties \subseteq DOMAIN AdvancedKinds
      BY DEF AdvancedShape, Shape, AdvancedKinds
    <3> QED BY <1>1, <3>1, ShapeIsRead
  <2>6. Misfits(root, AdvancedPath, AdvancedKinds) = {}
    <3>1. ASSUME NEW k \in DOMAIN AdvancedKinds \cap DOMAIN AdvancedShape.properties
          PROVE  AdvancedKinds[k] = AdvancedShape.properties[k] /\ AdvancedKinds[k].type # "number"
      BY <3>1 DEF AdvancedShape, Shape, AdvancedKinds, AtLeast, OneOf, Kind, InsertModes
    <3> QED BY <1>1, <3>1, ShapeFits
  <2>7. IssueIf(Has(root, AdvancedPath) /\ ~IsObject(root, AdvancedPath), AdvancedPath) = {}
    BY <2>4 DEF IssueIf, When
  <2>8. DatabaseIssues(root, "Allow") =
           UNION {Demanded("Allow", Append(DatabasePath, k)) :
                     k \in {j \in {"connection", "table"} : DatabaseOutput(root)[j] = ""}}
    BY <1>3, <2>1, <2>2, <2>3, <2>5, <2>6, <2>7 DEF DatabaseIssues
  <2> QED BY <2>8, AllowedIsWarning
<1> QED BY <1>2, <1>3

(* The format that is read is the one the schema has looked at.            *)
LEMMA FormatIsRead ==
    ASSUME NEW root, IsTree(root), \A p \in DOMAIN root : Plain(root[p]),
           HasShape(root, FilePath, FileShape), Has(root, FilePath)
    PROVE  Format(root) = root[Append(FilePath, "format")].text /\ Format(root) \in OutputFormats
<1> DEFINE p == Append(FilePath, "format")
<1>1. "format" \in Keys(root, FilePath)
  BY DEF HasShape, FileShape, Shape
<1>2. Has(root, p)
  BY <1>1, TreeKeys
<1>3. FileShape.properties["format"] = OneOf(OutputFormats)
  BY DEF FileShape, Shape, OutputFormats
<1>4. Matches(OneOf(OutputFormats), root[p])
  BY <1>1, <1>3 DEF HasShape
<1>5. Fits(OneOf(OutputFormats), root[p])
  BY <1>2, <1>4, MatchesFits DEF Has, OneOf, Kind
<1>6. root[p].type = "string" /\ root[p].text \in OutputFormats
  BY <1>5 DEF Fits, OneOf, Kind, OutputFormats
<1>7. Format(root) = Reading(root[p])
  BY <1>2, <1>5 DEF Format, Read, FormatKind
<1> QED BY <1>6, <1>7 DEF Reading

(* The schema and the reader have the same options for each format.        *)
LEMMA SameOptions ==
    ASSUME NEW format \in OutputFormats
    PROVE  /\ DOMAIN OptionShape(format).properties = DOMAIN OptionKinds(format)
           /\ \A k \in DOMAIN OptionKinds(format) :
                 /\ OptionKinds(format)[k] = OptionShape(format).properties[k]
                 /\ OptionKinds(format)[k].type # "number"
<1> USE DEF Shape, Boolean, OneOf, AnyText, NonEmpty, Kind, LineEndings
<1>1. CASE format \in {"csv", "Tab-Delimited"}
  BY <1>1 DEF OptionShape, OptionKinds, CsvShape, DelimitedOptions
<1>2. CASE format = "json"
  BY <1>2 DEF OptionShape, OptionKinds
<1>3. CASE format = "sql"
  BY <1>3 DEF OptionShape, OptionKinds
<1>4. CASE format = "Custom"
  <2>1. OptionKinds(format) = [delimiter |-> NonEmpty, quote |-> AnyText] ++ DelimitedOptions
    BY <1>4 DEF OptionKinds
  <2>2. OptionShape(format).properties =
           [delimiter |-> NonEmpty, quote |-> AnyText, header |-> Boolean,
            line_ending |-> OneOf({"LF", "CRLF"})]
    BY <1>4 DEF OptionShape
  <2>3. ASSUME NEW k \in {"delimiter", "quote", "header", "line_ending"}
        PROVE  /\ OptionKinds(format)[k] = OptionShape(format).properties[k]
               /\ OptionKinds(format)[k].type # "number"
    <3>1. /\ OptionKinds(format)["delimiter"] = NonEmpty
          /\ OptionKinds(format)["quote"] = AnyText
          /\ OptionKinds(format)["header"] = Boolean
          /\ OptionKinds(format)["line_ending"] = OneOf({"LF", "CRLF"})
      BY <2>1 DEF DelimitedOptions, ++
    <3>2. /\ NonEmpty.type # "number" /\ AnyText.type # "number" /\ Boolean.type # "number"
          /\ OneOf({"LF", "CRLF"}).type # "number"
      OBVIOUS
    <3> QED BY <2>2, <3>1, <3>2, SMTT(30)
  <2>4. DOMAIN OptionKinds(format) = {"delimiter", "quote", "header", "line_ending"}
    BY <2>1 DEF DelimitedOptions, ++
  <2> QED BY <2>2, <2>3, <2>4
<1> QED BY <1>1, <1>2, <1>3, <1>4 DEF OutputFormats

LEMMA FileIsRead ==
    ASSUME NEW root, IsTree(root), \A p \in DOMAIN root : Plain(root[p]), OutputAdmitted(root)
    PROVE  \A issue \in FileIssues(root, "Allow") : issue.warning
<1>1. HasShape(root, FilePath, FileShape)
  BY DEF OutputAdmitted, FileAdmitted
<1>2. CASE ~Has(root, FilePath)
  BY <1>2, AllowedIsWarning DEF FileIssues
<1>3. CASE Has(root, FilePath)
  <2> DEFINE format == Format(root)
  <2>1. format = root[Append(FilePath, "format")].text /\ format \in OutputFormats
    BY <1>1, <1>3, FormatIsRead
  <2>2. HasShape(root, OptionsPath, OptionShape(format))
    BY <1>3, <2>1 DEF OutputAdmitted, FileAdmitted
  <2>3. IsObject(root, FilePath)
    BY <1>1, <1>3 DEF HasShape
  <2>4. UnknownKeys(root, FilePath, {"format", "options"}) = {}
    <3>1. DOMAIN FileShape.properties \subseteq {"format", "options"}
      BY DEF FileShape, Shape
    <3> QED BY <1>1, <3>1, ShapeIsRead
  <2>5. Misfits(root, FilePath, FormatKind) = {}
    <3>1. ASSUME NEW k \in DOMAIN FormatKind \cap DOMAIN FileShape.properties
          PROVE  FormatKind[k] = FileShape.properties[k] /\ FormatKind[k].type # "number"
      BY <3>1 DEF FileShape, Shape, FormatKind, OneOf, Kind, OutputFormats
    <3> QED BY <1>1, <3>1, ShapeFits
  <2>6. ~(Has(root, OptionsPath) /\ ~IsObject(root, OptionsPath))
    BY <2>2 DEF HasShape
  <2>7. UnknownKeys(root, OptionsPath, DOMAIN OptionKinds(format)) = {}
    BY <2>1, <2>2, SameOptions, ShapeIsRead
  <2>8. Misfits(root, OptionsPath, OptionKinds(format)) = {}
    BY <2>1, <2>2, SameOptions, ShapeFits
  <2> QED BY <1>3, <2>3, <2>4, <2>5, <2>6, <2>7, <2>8 DEF FileIssues, IssueIf, When
<1> QED BY <1>2, <1>3

LEMMA OutputIsRead ==
    ASSUME NEW root, IsTree(root), \A p \in DOMAIN root : Plain(root[p]), OutputAdmitted(root)
    PROVE  \A issue \in OutputIssues(root, "Allow") : issue.warning
<1>1. HasShape(root, OutputPath, OutputShape)
  BY DEF OutputAdmitted
<1>2. CASE ~Has(root, OutputPath)
  BY <1>2, AllowedIsWarning DEF OutputIssues
<1>3. CASE Has(root, OutputPath)
  <2>1. IsObject(root, OutputPath)
    BY <1>1, <1>3 DEF HasShape
  <2>2. UnknownKeys(root, OutputPath, {"type", "file", "database"}) = {}
    <3>1. DOMAIN OutputShape.properties \subseteq {"type", "file", "database"}
      BY DEF OutputShape, Shape
    <3> QED BY <1>1, <3>1, ShapeIsRead
  <2>3. Misfits(root, OutputPath, TypeKind) = {}
    <3>1. ASSUME NEW k \in DOMAIN TypeKind \cap DOMAIN OutputShape.properties
          PROVE  TypeKind[k] = OutputShape.properties[k] /\ TypeKind[k].type # "number"
      BY <3>1 DEF OutputShape, Shape, TypeKind, OneOf, Kind, OutputTypes
    <3> QED BY <1>1, <3>1, ShapeFits
  <2> QED BY <1>3, <2>1, <2>2, <2>3, DatabaseIsRead, FileIsRead DEF OutputIssues, IssueIf, When
<1> QED BY <1>2, <1>3

(* So it is with the whole document.                                       *)
LEMMA AdmittedIsAccepted ==
    ASSUME NEW doc, IsDocument(doc), SchemaAdmits(doc), Generators # {},
           \A p \in DOMAIN doc.root : Plain(doc.root[p]),
           \A i \in DOMAIN doc.fields :
               Keys(doc.fields[i], <<>>) \cap {"supports_unique", "supports_group"} = {}
    PROVE  Accepted(doc, "Allow")
<1> DEFINE root == doc.root
<1>1. IsTree(root) /\ Has(root, <<>>)
  BY DEF IsDocument, IsTree, Has
<1>2. HasShape(root, <<>>, RootShape)
  BY DEF SchemaAdmits
<1>3. root[<<>>].type = "object"
  BY <1>1, <1>2 DEF HasShape, IsObject
<1>4. UnknownKeys(root, <<>>, {"$schema", "rows", "output", "fields"}) = {}
  <2>1. DOMAIN RootShape.properties \subseteq {"$schema", "rows", "output", "fields"}
    BY DEF RootShape, Shape, ++, At
  <2> QED BY <1>1, <1>2, <2>1, ShapeIsRead
<1>5. \A issue \in RowsIssues(root, "Allow") : issue.warning
  <2>1. ASSUME NEW k \in DOMAIN RowsKind \cap DOMAIN RootShape.properties
        PROVE  RowsKind[k] = RootShape.properties[k] /\ RowsKind[k].type # "number"
    <3>1. k = "rows" /\ RowsKind[k] = AtLeast(1)
      BY <2>1 DEF RowsKind
    <3>2. RootShape.properties["rows"] = AtLeast(1)
      BY DEF RootShape, Shape, ++, At
    <3> QED BY <3>1, <3>2 DEF AtLeast, Kind
  <2>2. Misfits(root, <<>>, RowsKind) = {}
    BY <1>1, <1>2, <2>1, ShapeFits
  <2> QED BY <2>2, AllowedIsWarning DEF RowsIssues
<1>6. \A issue \in OutputIssues(root, "Allow") : issue.warning
  BY <1>1, OutputIsRead DEF SchemaAdmits
<1>7. FieldsIssues(doc) = {}
  <2>1. Has(root, FieldsPath) /\ root[FieldsPath].type = "array"
    <3>1. "fields" \in Keys(root, <<>>)
      BY <1>1, <1>2 DEF HasShape, RootShape, Shape
    <3>2. Append(<<>>, "fields") = FieldsPath
      BY DEF FieldsPath
    <3>3. RootShape.properties["fields"].type = "array"
      BY DEF RootShape, Shape, ++, At, ListOf, Kind
    <3>4. Matches(RootShape.properties["fields"], root[FieldsPath])
      BY <1>1, <1>2, <3>1, <3>2 DEF HasShape
    <3> QED BY <1>1, <3>1, <3>2, <3>3, <3>4, TreeKeys DEF Matches
  <2>2. ASSUME NEW i \in DOMAIN doc.fields
        PROVE  Collected(doc.fields[i]) /\ FieldIssues(doc.fields[i]) = {}
    BY FieldIsRead DEF IsDocument, SchemaAdmits
  <2>3. 1 \in DOMAIN doc.fields
    BY DEF IsDocument, SchemaAdmits
  <2>4. IssueIf(\A i \in DOMAIN doc.fields : ~Collected(doc.fields[i]), FieldsPath) = {}
    BY <2>2, <2>3 DEF IssueIf, When
  <2>5. UNION {{Issue(FieldsPath \o <<ToString(i)>> \o p) : p \in FieldIssues(doc.fields[i])} :
                  i \in DOMAIN doc.fields} = {}
    BY <2>2
  <2> QED BY <2>1, <2>4, <2>5 DEF FieldsIssues
<1>8. Issues(doc, "Allow") = RowsIssues(root, "Allow") \cup OutputIssues(root, "Allow")
  BY <1>3, <1>4, <1>7 DEF Issues
<1> QED BY <1>5, <1>6, <1>8 DEF Accepted

(***************************************************************************)
(* The tokens of a file.                                                   *)
(***************************************************************************)
Words == {"row", "header", "create table", "[", ",", "]"}
Tokens == Words \X Nat

(* What the first n rows of a file consist of.                             *)
Nth(k) == IF k % 2 = 1 THEN RowToken((k + 1) \div 2) ELSE Mark(",")
ArrayLength(n) == IF n = 0 THEN 0 ELSE 2 * n - 1
RowPart(file, n) ==
    IF IsArray(file) THEN [k \in 1 .. ArrayLength(n) |-> Nth(k)]
    ELSE [k \in 1 .. n |-> RowToken(k)]

LEMMA RowIsToken ==
    ASSUME NEW n \in Nat
    PROVE  RowToken(n) \in Tokens
  BY DEF Tokens, Words, RowToken

LEMMA MarksAreTokens ==
    ASSUME NEW text \in Words \ {"row"}
    PROVE  Mark(text) \in Tokens /\ Mark(text)[1] # "row"
  BY DEF Tokens, Words, Mark

LEMMA CommaIsToken == Mark(",") \in Tokens
  BY DEF Tokens, Words, Mark

LEMMA NthIsToken ==
    ASSUME NEW k \in Nat
    PROVE  Nth(k) \in Tokens
<1>1. (k + 1) \div 2 \in Nat
  OBVIOUS
<1>2. RowToken((k + 1) \div 2) \in Tokens
  BY <1>1, RowIsToken
<1>3. Nth(k) \in {RowToken((k + 1) \div 2), Mark(",")}
  BY Zenon DEF Nth
<1> QED BY <1>2, <1>3, CommaIsToken, Zenon

LEMMA RowPartShape ==
    ASSUME NEW file, NEW n \in Nat
    PROVE  /\ RowPart(file, n) \in Seq(Tokens)
           /\ Len(RowPart(file, n)) = IF IsArray(file) THEN ArrayLength(n) ELSE n
<1>1. CASE IsArray(file)
  <2> DEFINE m == ArrayLength(n)
  <2>1. m \in Nat
    BY DEF ArrayLength
  <2>2. RowPart(file, n) = [k \in 1 .. m |-> Nth(k)]
    BY <1>1, Zenon DEF RowPart
  <2> HIDE DEF m
  <2>3. RowPart(file, n) \in Seq(Tokens) /\ Len(RowPart(file, n)) = m
    BY <2>1, <2>2, NthIsToken
  <2> QED BY <1>1, <2>3, Zenon DEF m
<1>2. CASE ~IsArray(file)
  <2>1. RowPart(file, n) = [k \in 1 .. n |-> RowToken(k)]
    BY <1>2, Zenon DEF RowPart
  <2>2. RowPart(file, n) \in Seq(Tokens) /\ Len(RowPart(file, n)) = n
    BY <2>1, RowIsToken
  <2> QED BY <1>2, <2>2, Zenon
<1> QED BY <1>1, <1>2, Zenon

LEMMA RowPartElement ==
    ASSUME NEW file, NEW n \in Nat, NEW k \in 1 .. Len(RowPart(file, n))
    PROVE  RowPart(file, n)[k] = IF IsArray(file) THEN Nth(k) ELSE RowToken(k)
<1>1. CASE IsArray(file)
  <2>1. k \in 1 .. ArrayLength(n)
    BY <1>1, RowPartShape
  <2> QED BY <1>1, <2>1, Zenon DEF RowPart
<1>2. CASE ~IsArray(file)
  <2>1. k \in 1 .. n
    BY <1>2, RowPartShape
  <2> QED BY <1>2, <2>1, Zenon DEF RowPart
<1> QED BY <1>1, <1>2, Zenon

LEMMA RowTokensShape ==
    ASSUME NEW file, NEW n \in Nat
    PROVE  /\ RowTokens(file, n) \in Seq(Tokens)
           /\ IsArray(file) /\ n # 0 =>
                 /\ Len(RowTokens(file, n)) = 2
                 /\ RowTokens(file, n)[1] = Mark(",")
                 /\ RowTokens(file, n)[2] = RowToken(n + 1)
           /\ ~(IsArray(file) /\ n # 0) =>
                 Len(RowTokens(file, n)) = 1 /\ RowTokens(file, n)[1] = RowToken(n + 1)
<1> DEFINE comma == Mark(",")
           row == RowToken(n + 1)
           tokens == RowTokens(file, n)
<1>1. comma \in Tokens
  BY CommaIsToken
<1>2. row \in Tokens
  BY RowIsToken
<1>3. n > 0 <=> n # 0
  OBVIOUS
<1>4. IsArray(file) /\ n # 0 => tokens = <<comma, row>>
  BY <1>3, Zenon DEF RowTokens
<1>5. ~(IsArray(file) /\ n # 0) => tokens = <<row>>
  BY <1>3, Zenon DEF RowTokens
<1> HIDE DEF comma, row, tokens
<1>6. CASE IsArray(file) /\ n # 0
  <2>0. tokens = <<comma, row>>
    BY <1>4, <1>6, Zenon
  <2>1. tokens \in Seq(Tokens) /\ Len(tokens) = 2 /\ tokens[1] = comma /\ tokens[2] = row
    BY <1>1, <1>2, <2>0
  <2> QED BY <1>6, <2>1, Zenon DEF comma, row, tokens
<1>7. CASE ~(IsArray(file) /\ n # 0)
  <2>0. tokens = <<row>>
    BY <1>5, <1>7, Zenon
  <2>1. tokens \in Seq(Tokens) /\ Len(tokens) = 1 /\ tokens[1] = row
    BY <1>2, <2>0
  <2> QED BY <1>7, <2>1, Zenon DEF comma, row, tokens
<1> QED BY <1>6, <1>7, Zenon

(* A row more.                                                             *)
LEMMA RowPartGrows ==
    ASSUME NEW file, NEW n \in Nat
    PROVE  RowPart(file, n + 1) = RowPart(file, n) \o RowTokens(file, n)
<1> DEFINE before == RowPart(file, n)
           after == RowPart(file, n + 1)
           more == RowTokens(file, n)
<1>0. n + 1 \in Nat /\ n + 1 # 0
  OBVIOUS
<1>1. before \in Seq(Tokens) /\ after \in Seq(Tokens) /\ more \in Seq(Tokens)
  BY <1>0, RowPartShape, RowTokensShape, Zenon
<1>2. /\ Len(before) = IF IsArray(file) THEN ArrayLength(n) ELSE n
      /\ Len(after) = IF IsArray(file) THEN ArrayLength(n + 1) ELSE n + 1
  BY <1>0, RowPartShape, Zenon
<1>3. \A k \in 1 .. Len(before) : before[k] = IF IsArray(file) THEN Nth(k) ELSE RowToken(k)
  BY RowPartElement, Zenon
<1>4. \A k \in 1 .. Len(after) : after[k] = IF IsArray(file) THEN Nth(k) ELSE RowToken(k)
  BY <1>0, RowPartElement, Zenon
<1>5. /\ IsArray(file) /\ n # 0 =>
            Len(more) = 2 /\ more[1] = Mark(",") /\ more[2] = RowToken(n + 1)
      /\ ~(IsArray(file) /\ n # 0) => Len(more) = 1 /\ more[1] = RowToken(n + 1)
  BY RowTokensShape, Zenon
<1> HIDE DEF before, after, more
<1>6. /\ before \o more \in Seq(Tokens) /\ Len(before \o more) = Len(before) + Len(more)
      /\ \A k \in 1 .. Len(before) + Len(more) :
             (before \o more)[k] = IF k <= Len(before) THEN before[k] ELSE more[k - Len(before)]
  BY <1>1, ConcatProperties
<1> SUFFICES ASSUME Len(after) = Len(before) + Len(more) =>
                       \A k \in Len(before) + 1 .. Len(after) : after[k] = more[k - Len(before)],
                    Len(after) = Len(before) + Len(more)
             PROVE  after = before \o more
  <2>1. CASE ~IsArray(file)
    <3>1. /\ Len(before) = n /\ Len(after) = n + 1 /\ Len(more) = 1 /\ more[1] = RowToken(n + 1)
      BY <1>2, <1>5, <2>1, Zenon
    <3>2. after[n + 1] = RowToken(n + 1)
      <4>1. n + 1 \in 1 .. Len(after)
        BY <3>1
      <4> QED BY <1>4, <2>1, <4>1, Zenon
    <3>3. ASSUME NEW k \in Len(before) + 1 .. Len(after)
          PROVE  k = n + 1 /\ k - Len(before) = 1
      BY <3>1
    <3>4. \A k \in Len(before) + 1 .. Len(after) : after[k] = more[k - Len(before)]
      BY <3>1, <3>2, <3>3
    <3> QED BY <3>1, <3>4 DEF before, after, more
  <2>2. CASE IsArray(file) /\ n = 0
    <3>1. /\ Len(before) = 0 /\ Len(after) = 1 /\ Len(more) = 1 /\ more[1] = RowToken(1)
      BY <1>2, <1>5, <2>2 DEF ArrayLength
    <3>2. after[1] = RowToken(1)
      <4>1. 1 \in 1 .. Len(after) /\ 1 % 2 = 1 /\ (1 + 1) \div 2 = 1
        BY <3>1
      <4>2. Nth(1) = RowToken(1)
        BY <4>1, Zenon DEF Nth
      <4> QED BY <1>4, <2>2, <4>1, <4>2, Zenon
    <3>3. ASSUME NEW k \in Len(before) + 1 .. Len(after)
          PROVE  k = 1 /\ k - Len(before) = 1
      BY <3>1
    <3>4. \A k \in Len(before) + 1 .. Len(after) : after[k] = more[k - Len(before)]
      BY <3>1, <3>2, <3>3
    <3> QED BY <3>1, <3>4 DEF before, after, more
  <2>3. CASE IsArray(file) /\ n # 0
    <3>1. /\ Len(before) = 2 * n - 1 /\ Len(after) = 2 * n + 1 /\ Len(more) = 2
      <4>1. /\ ArrayLength(n) = 2 * n - 1 /\ ArrayLength(n + 1) = 2 * (n + 1) - 1
        BY <1>0, <2>3, Zenon DEF ArrayLength
      <4>2. 2 * (n + 1) - 1 = 2 * n + 1
        OBVIOUS
      <4> QED BY <1>2, <1>5, <2>3, <4>1, <4>2, Zenon
    <3>2. after[2 * n] = more[1]
      <4>1. 2 * n \in 1 .. Len(after) /\ ~((2 * n) % 2 = 1)
        BY <2>3, <3>1
      <4>2. Nth(2 * n) = Mark(",")
        BY <4>1, Zenon DEF Nth
      <4> QED BY <1>4, <1>5, <2>3, <4>1, <4>2, Zenon
    <3>3. after[2 * n + 1] = more[2]
      <4>1. /\ 2 * n + 1 \in 1 .. Len(after) /\ (2 * n + 1) % 2 = 1
            /\ (2 * n + 1 + 1) \div 2 = n + 1
        BY <2>3, <3>1
      <4>2. Nth(2 * n + 1) = RowToken(n + 1)
        BY <4>1, Zenon DEF Nth
      <4> QED BY <1>4, <1>5, <2>3, <4>1, <4>2, Zenon
    <3>4. ASSUME NEW k \in Len(before) + 1 .. Len(after)
          PROVE  k \in {2 * n, 2 * n + 1}
      BY <3>1
    <3>5. 2 * n - Len(before) = 1 /\ 2 * n + 1 - Len(before) = 2
      BY <3>1
    <3>6. \A k \in Len(before) + 1 .. Len(after) : after[k] = more[k - Len(before)]
      BY <3>2, <3>3, <3>4, <3>5
    <3> QED BY <3>1, <3>6 DEF before, after, more
  <2> QED BY <2>1, <2>2, <2>3, Zenon
<1>7. \A k \in 1 .. Len(before) : after[k] = before[k]
  <2>1. \A k \in 1 .. Len(before) : k \in 1 .. Len(after)
    BY <1>1
  <2> QED BY <1>3, <1>4, <2>1, Zenon
<1>8. ASSUME NEW k \in 1 .. Len(after)
      PROVE  after[k] = (before \o more)[k]
  <2>1. CASE k <= Len(before)
    BY <1>1, <1>6, <1>7, <2>1
  <2>2. CASE ~(k <= Len(before))
    BY <1>1, <1>6, <2>2
  <2> QED BY <2>1, <2>2
<1> QED BY <1>1, <1>6, <1>8, SeqEqual

(* The rows of a file, put together.                                       *)
LEMMA RowsTogether ==
    ASSUME NEW file, NEW n \in Nat \ {0}
    PROVE  FlattenSeq([i \in 1 .. n |-> RowTokens(file, i - 1)]) = RowPart(file, n)
<1> DEFINE rows == [i \in 1 .. n |-> RowTokens(file, i - 1)]
           Solves(f) == f = [i \in 1 .. n |-> IF i = 1 THEN rows[i] ELSE f[i - 1] \o rows[i]]
           parts == [i \in 1 .. n |-> RowPart(file, i)]
<1>1. Len(rows) = n
  OBVIOUS
<1>2. RowPart(file, 1) = RowPart(file, 0) \o RowTokens(file, 0)
  <2>1. 0 \in Nat /\ 0 + 1 = 1
    OBVIOUS
  <2> QED BY <2>1, RowPartGrows, Zenon
<1>3. RowPart(file, 1) = RowTokens(file, 0)
  <2>1. RowPart(file, 0) \in Seq(Tokens) /\ Len(RowPart(file, 0)) = 0
    BY RowPartShape DEF ArrayLength
  <2>2. RowTokens(file, 0) \in Seq(Tokens)
    BY RowTokensShape
  <2> QED BY <1>2, <2>1, <2>2, EmptySeq
<1>4. \A i \in 1 .. n : rows[i] = RowTokens(file, i - 1)
  OBVIOUS
<1>5. ASSUME NEW i \in 1 .. n
      PROVE  RowPart(file, i) = IF i = 1 THEN rows[i] ELSE RowPart(file, i - 1) \o rows[i]
  <2>1. i - 1 \in Nat /\ (i - 1) + 1 = i /\ (i = 1 => i - 1 = 0)
    OBVIOUS
  <2>2. RowPart(file, i) = RowPart(file, i - 1) \o RowTokens(file, i - 1)
    BY <2>1, RowPartGrows, Zenon
  <2> HIDE DEF rows
  <2> QED BY <1>3, <1>4, <2>1, <2>2, Zenon
<1>6. Solves(parts)
  <2>1. ASSUME NEW i \in 1 .. n, i # 1
        PROVE  parts[i - 1] = RowPart(file, i - 1)
    BY <2>1
  <2>2. parts = [i \in 1 .. n |-> IF i = 1 THEN rows[i] ELSE parts[i - 1] \o rows[i]]
    <3> HIDE DEF rows
    <3> QED BY <1>5, <2>1
  <2> QED BY <2>2
<1> DEFINE flat == CHOOSE f : Solves(f)
<1>7. Solves(flat)
  <2> HIDE DEF Solves, parts
  <2> QED BY <1>6
<1>8. FlattenSeq(rows) = flat[n]
  <2> HIDE DEF rows
  <2> QED BY <1>1, Zenon DEF FlattenSeq
<1> HIDE DEF flat, rows, parts
<1>9. \A i \in 1 .. n : flat[i] = IF i = 1 THEN rows[i] ELSE flat[i - 1] \o rows[i]
  BY <1>7
<1> DEFINE T == {i \in 0 .. n : i = 0 \/ flat[i] = RowPart(file, i)}
<1>10. ASSUME NEW i \in 1 .. n, i - 1 \in T
       PROVE  i \in T
  <2>1. CASE i = 1
    <3>1. flat[i] = RowPart(file, i)
      BY <1>5, <1>9, <2>1, Zenon
    <3> QED BY <3>1
  <2>2. CASE i # 1
    <3>1. flat[i - 1] = RowPart(file, i - 1)
      BY <1>10, <2>2
    <3>2. flat[i] = RowPart(file, i)
      BY <1>5, <1>9, <2>2, <3>1, Zenon
    <3> QED BY <3>2
  <2> QED BY <2>1, <2>2
<1>11. 0 .. n \subseteq T
  <2>1. 0 \in T
    OBVIOUS
  <2> HIDE DEF T
  <2> QED BY <1>10, <2>1, UpTo
<1>12. flat[n] = RowPart(file, n)
  BY <1>11
<1> QED BY <1>8, <1>12 DEF rows

LEMMA EndsShape ==
    ASSUME NEW file
    PROVE  /\ Opening(file) \in Seq(Tokens) /\ Closing(file) \in Seq(Tokens)
           /\ Len(Opening(file)) \in {0, 1}
           /\ Len(Opening(file)) = 1 => Opening(file)[1][1] # "row"
           /\ IsArray(file) => Opening(file) = <<Mark("[")>> /\ Closing(file) = <<Mark("]")>>
           /\ ~IsArray(file) => Closing(file) = <<>>
<1> DEFINE start == Opening(file)
           stop == Closing(file)
           marks == {Mark("header"), Mark("["), Mark("create table"), Mark("]")}
<1>1. start = <<>> \/ \E m \in marks : start = <<m>>
  <2> DEFINE header == Mark("header")
             bracket == Mark("[")
             create == Mark("create table")
  <2>1. start \in {<<>>, <<header>>, <<bracket>>, <<create>>}
    <3> HIDE DEF header, bracket, create
    <3> QED BY DEF Opening, header, bracket, create
  <2> QED BY <2>1, Zenon
<1>2. stop = <<>> \/ \E m \in marks : stop = <<m>>
  BY Zenon DEF Closing
<1>3. ASSUME NEW m \in marks
      PROVE  m \in Tokens /\ m[1] # "row"
  <2>1. \A text \in {"header", "[", "create table", "]"} : text \in Words \ {"row"}
    BY DEF Words
  <2> QED BY <2>1, MarksAreTokens, Zenon
<1>4. /\ IsArray(file) => start = <<Mark("[")>> /\ stop = <<Mark("]")>>
      /\ ~IsArray(file) => stop = <<>>
  <2>1. IsArray(file) => ~(file.format \in Delimited /\ file.options.header)
    BY DEF IsArray, Delimited
  <2>2. IsArray(file) => file.format # "sql"
    BY DEF IsArray
  <2> QED BY <2>1, <2>2, Zenon DEF Opening, Closing
<1> HIDE DEF start, stop, marks
<1>5. start \in Seq(Tokens) /\ Len(start) \in {0, 1} /\ (Len(start) = 1 => start[1][1] # "row")
  <2>1. CASE start = <<>>
    BY <2>1
  <2>2. ASSUME NEW m \in marks, start = <<m>>
        PROVE  start \in Seq(Tokens) /\ Len(start) = 1 /\ start[1] = m /\ start[1][1] # "row"
    BY <1>3, <2>2
  <2> QED BY <1>1, <2>1, <2>2
<1>6. stop \in Seq(Tokens)
  <2>1. CASE stop = <<>>
    BY <2>1
  <2>2. ASSUME NEW m \in marks, stop = <<m>>
        PROVE  stop \in Seq(Tokens)
    BY <1>3, <2>2
  <2> QED BY <1>2, <2>1, <2>2
<1> QED BY <1>4, <1>5, <1>6, Zenon DEF start, stop

LEMMA InOrder ==
    ASSUME NEW c, NEW n,
           \A k \in DOMAIN c : c[k][1] = "row" => c[k][2] \in 1 .. n,
           \A m \in 1 .. n : \E k \in DOMAIN c : c[k][1] = "row" /\ c[k][2] = m,
           \A j, k \in DOMAIN c :
               c[j][1] = "row" /\ c[k][1] = "row" /\ j < k => c[j][2] < c[k][2]
    PROVE  RowsInOrder(c, n)
<1> DEFINE R == {k \in DOMAIN c : c[k][1] = "row"}
<1>1. {c[k][2] : k \in R} = 1 .. n
  OBVIOUS
<1>2. \A j, k \in R : j < k => c[j][2] < c[k][2]
  OBVIOUS
<1> QED BY <1>1, <1>2 DEF RowsInOrder

LEMMA ArrayInOrder ==
    ASSUME NEW c, NEW n \in Nat \ {0}, DOMAIN c = 1 .. 2 * n + 1,
           \A k \in 1 .. 2 * n + 1 :
               (c[k][1] = "row" <=> k % 2 = 0) /\ (k % 2 = 0 => c[k][2] = k \div 2)
    PROVE  RowsInOrder(c, n)
<1>2. ASSUME NEW k \in DOMAIN c, c[k][1] = "row"
      PROVE  k % 2 = 0 /\ c[k][2] = k \div 2 /\ k \div 2 \in 1 .. n
  <2>1. k \in 1 .. 2 * n + 1 /\ k % 2 = 0 /\ c[k][2] = k \div 2
    BY <1>2
  <2>2. k \div 2 \in 1 .. n
    BY <2>1
  <2> QED BY <2>1, <2>2
<1>3. ASSUME NEW m \in 1 .. n
      PROVE  \E k \in DOMAIN c : c[k][1] = "row" /\ c[k][2] = m
  <2>1. 2 * m \in 1 .. 2 * n + 1 /\ (2 * m) % 2 = 0 /\ (2 * m) \div 2 = m
    OBVIOUS
  <2>2. c[2 * m][1] = "row" /\ c[2 * m][2] = m
    BY <2>1
  <2> QED BY <2>1, <2>2
<1>4. ASSUME NEW j \in DOMAIN c, NEW k \in DOMAIN c,
             c[j][1] = "row", c[k][1] = "row", j < k
      PROVE  c[j][2] < c[k][2]
  <2>1. /\ j \in 1 .. 2 * n + 1 /\ k \in 1 .. 2 * n + 1 /\ j % 2 = 0 /\ k % 2 = 0
        /\ c[j][2] = j \div 2 /\ c[k][2] = k \div 2
    BY <1>2, <1>4
  <2>2. j \div 2 < k \div 2
    BY <1>4, <2>1
  <2> QED BY <2>1, <2>2
<1>5. \A k \in DOMAIN c : c[k][1] = "row" => c[k][2] \in 1 .. n
  BY <1>2
<1>6. \A m \in 1 .. n : \E k \in DOMAIN c : c[k][1] = "row" /\ c[k][2] = m
  BY <1>3
<1>7. \A j, k \in DOMAIN c :
           c[j][1] = "row" /\ c[k][1] = "row" /\ j < k => c[j][2] < c[k][2]
  BY <1>4
<1> QED BY <1>5, <1>6, <1>7, InOrder

LEMMA LinesInOrder ==
    ASSUME NEW c, NEW s \in Nat, NEW n \in Nat \ {0}, DOMAIN c = 1 .. s + n,
           \A k \in 1 .. s : c[k][1] # "row",
           \A k \in s + 1 .. s + n : c[k][1] = "row" /\ c[k][2] = k - s
    PROVE  RowsInOrder(c, n)
<1>1. ASSUME NEW k \in DOMAIN c, c[k][1] = "row"
      PROVE  c[k][2] = k - s /\ k - s \in 1 .. n
  BY <1>1
<1>2. ASSUME NEW m \in 1 .. n
      PROVE  \E k \in DOMAIN c : c[k][1] = "row" /\ c[k][2] = m
  <2>1. m + s \in s + 1 .. s + n /\ m + s \in DOMAIN c /\ (m + s) - s = m
    OBVIOUS
  <2> QED BY <2>1
<1>3. ASSUME NEW j \in DOMAIN c, NEW k \in DOMAIN c,
             c[j][1] = "row", c[k][1] = "row", j < k
      PROVE  c[j][2] < c[k][2]
  BY <1>1, <1>3
<1>5. \A k \in DOMAIN c : c[k][1] = "row" => c[k][2] \in 1 .. n
  BY <1>1
<1>6. \A m \in 1 .. n : \E k \in DOMAIN c : c[k][1] = "row" /\ c[k][2] = m
  BY <1>2
<1>7. \A j, k \in DOMAIN c :
           c[j][1] = "row" /\ c[k][1] = "row" /\ j < k => c[j][2] < c[k][2]
  BY <1>3
<1> QED BY <1>5, <1>6, <1>7, InOrder

(* A file that has been put together has every row once and in order, and  *)
(* the brackets and commas of an array.                                    *)
LEMMA WholeIsWhole ==
    ASSUME NEW file, NEW n \in Nat \ {0}
    PROVE  /\ WholeFile(file, n) = Opening(file) \o RowPart(file, n) \o Closing(file)
           /\ IsWholeFile(file, WholeFile(file, n), n)
<1> DEFINE start == Opening(file)
           rows == RowPart(file, n)
           stop == Closing(file)
           c == start \o rows \o stop
           s == Len(start)
           r == Len(rows)
<1>1. WholeFile(file, n) = c
  BY RowsTogether DEF WholeFile
<1>2. start \in Seq(Tokens) /\ rows \in Seq(Tokens) /\ stop \in Seq(Tokens)
  BY EndsShape, RowPartShape
<1>3. /\ c \in Seq(Tokens) /\ Len(c) = s + r + Len(stop)
      /\ \A k \in 1 .. s : c[k] = start[k]
      /\ \A k \in s + 1 .. s + r : c[k] = rows[k - s]
      /\ \A k \in s + r + 1 .. s + r + Len(stop) : c[k] = stop[k - (s + r)]
  <2> DEFINE most == start \o rows
  <2>1. /\ most \in Seq(Tokens) /\ Len(most) = s + r
        /\ \A k \in 1 .. s + r : most[k] = IF k <= s THEN start[k] ELSE rows[k - s]
    BY <1>2, ConcatProperties
  <2>2. /\ c \in Seq(Tokens) /\ Len(c) = Len(most) + Len(stop)
        /\ \A k \in 1 .. Len(most) + Len(stop) :
               c[k] = IF k <= Len(most) THEN most[k] ELSE stop[k - Len(most)]
    BY <1>2, <2>1, ConcatProperties
  <2>3. s \in Nat /\ r \in Nat /\ Len(stop) \in Nat
    BY <1>2
  <2> HIDE DEF c, most, s, r, start, rows, stop
  <2> QED BY <2>1, <2>2, <2>3, SMTT(30)
<1>0. c = Opening(file) \o RowPart(file, n) \o Closing(file)
  OBVIOUS
<1>4. CASE IsArray(file)
  <2>1. s = 1 /\ r = 2 * n - 1 /\ Len(stop) = 1 /\ start[1] = Mark("[") /\ stop[1] = Mark("]")
    <3>1. start = <<Mark("[")>> /\ stop = <<Mark("]")>>
      BY <1>4, EndsShape, Zenon
    <3>2. r = ArrayLength(n)
      BY <1>4, RowPartShape, Zenon
    <3>3. ArrayLength(n) = 2 * n - 1
      BY DEF ArrayLength
    <3> HIDE DEF start, stop, rows, r
    <3> QED BY <3>1, <3>2, <3>3
  <2>2. \A k \in 1 .. 2 * n - 1 : rows[k] = Nth(k)
    <3>1. \A k \in 1 .. r : rows[k] = Nth(k)
      BY <1>4, RowPartElement, Zenon
    <3> QED BY <2>1, <3>1, Zenon
  <2> HIDE DEF c, s, r, start, rows, stop
  <2>3. Len(c) = 2 * n + 1 /\ c[1] = Mark("[") /\ c[2 * n + 1] = Mark("]")
    <3>1. /\ 1 \in 1 .. s /\ 2 * n + 1 \in s + r + 1 .. s + r + Len(stop)
          /\ (2 * n + 1) - (s + r) = 1
      BY <2>1
    <3> QED BY <1>3, <2>1, <3>1
  <2>4. ASSUME NEW k \in 2 .. 2 * n
        PROVE  c[k] = IF k % 2 = 0 THEN RowToken(k \div 2) ELSE Mark(",")
    <3>1. k \in s + 1 .. s + r /\ k - s \in 1 .. 2 * n - 1 /\ k - s = k - 1
      BY <2>1
    <3>2. c[k] = Nth(k - 1)
      BY <1>3, <2>2, <3>1, Zenon
    <3>3. ((k - 1) % 2 = 1 <=> k % 2 = 0) /\ (k - 1) + 1 = k
      OBVIOUS
    <3> QED BY <3>2, <3>3, Zenon DEF Nth
  <2>5. ASSUME NEW k \in 1 .. 2 * n + 1
        PROVE  /\ c[k][1] = "row" <=> k % 2 = 0
               /\ k % 2 = 0 => c[k][2] = k \div 2
               /\ k \in 2 .. 2 * n => (k % 2 = 1 <=> c[k] = Mark(","))
    <3>0. /\ \A text : Mark(text)[1] = text
          /\ \A i : RowToken(i)[1] = "row" /\ RowToken(i)[2] = i
      BY DEF Mark, RowToken
    <3>1. k % 2 = 0 \/ k % 2 = 1
      OBVIOUS
    <3>2. CASE k \in {1, 2 * n + 1}
      <4>1. ~(k % 2 = 0) /\ k \notin 2 .. 2 * n
        BY <3>2
      <4>2. c[k][1] # "row"
        BY <2>3, <3>0, <3>2
      <4> QED BY <4>1, <4>2
    <3>3. CASE k \in 2 .. 2 * n
      <4>1. CASE k % 2 = 0
        <5>1. c[k] = RowToken(k \div 2)
          BY <2>4, <3>3, <4>1, Zenon
        <5>2. c[k] # Mark(",")
          <6>1. "," # "row"
            OBVIOUS
          <6> QED BY <3>0, <5>1, <6>1, Zenon
        <5>3. ~(k % 2 = 1)
          BY <4>1
        <5> QED BY <3>0, <4>1, <5>1, <5>2, <5>3, Zenon
      <4>2. CASE k % 2 = 1
        <5>1. ~(k % 2 = 0) /\ "," # "row"
          BY <4>2
        <5>2. c[k] = Mark(",")
          BY <2>4, <3>3, <5>1, Zenon
        <5> QED BY <3>0, <4>2, <5>1, <5>2, Zenon
      <4> QED BY <3>1, <4>1, <4>2
    <3>4. k \in {1, 2 * n + 1} \/ k \in 2 .. 2 * n
      OBVIOUS
    <3> QED BY <3>2, <3>3, <3>4, Zenon
  <2>6. WellFormed(file, c)
    <3>1. (2 * n + 1) % 2 = 1 /\ 2 * n + 1 >= 3 /\ (2 * n + 1) - 1 = 2 * n
      OBVIOUS
    <3>2. \A i \in 2 .. 2 * n : i \in 1 .. 2 * n + 1 /\ (i % 2 = 0 \/ i % 2 = 1)
      OBVIOUS
    <3> QED BY <2>3, <2>5, <3>1, <3>2 DEF WellFormed
  <2>7. RowsInOrder(c, n)
    <3>1. DOMAIN c = 1 .. 2 * n + 1
      BY <1>3, <2>3
    <3>2. \A k \in 1 .. 2 * n + 1 :
              (c[k][1] = "row" <=> k % 2 = 0) /\ (k % 2 = 0 => c[k][2] = k \div 2)
      BY <2>5
    <3> QED BY <3>1, <3>2, ArrayInOrder, Zenon
  <2> QED BY <1>0, <1>1, <2>6, <2>7, Zenon DEF IsWholeFile
<1>5. CASE ~IsArray(file)
  <2>1. s \in {0, 1} /\ r = n /\ stop = <<>> /\ \A k \in 1 .. s : start[k][1] # "row"
    BY <1>5, EndsShape, RowPartShape
  <2>2. \A k \in 1 .. n : rows[k] = <<"row", k>>
    BY <1>5 DEF RowPart, RowToken
  <2>3. Len(stop) = 0
    BY <2>1
  <2> HIDE DEF c, s, r, start, rows, stop
  <2>4. DOMAIN c = 1 .. s + n
    BY <1>3, <2>1, <2>3
  <2>5. /\ \A k \in 1 .. s : c[k][1] # "row"
        /\ \A k \in s + 1 .. s + n : c[k] = <<"row", k - s>>
    <3>1. \A k \in s + 1 .. s + n : k - s \in 1 .. n
      BY <2>1
    <3> QED BY <1>3, <2>1, <2>2, <3>1
  <2>9. RowsInOrder(c, n)
    <3>1. /\ \A k \in 1 .. s : c[k][1] # "row"
          /\ \A k \in s + 1 .. s + n : c[k][1] = "row" /\ c[k][2] = k - s
      BY <2>5
    <3>2. s \in Nat
      BY <2>1
    <3> QED BY <2>4, <3>1, <3>2, LinesInOrder, Zenon
  <2>10. WellFormed(file, c)
    BY <1>5, Zenon DEF WellFormed
  <2> QED BY <1>0, <1>1, <2>9, <2>10, Zenon DEF IsWholeFile
<1> QED BY <1>1, <1>4, <1>5

(***************************************************************************)
(* The types.                                                              *)
(***************************************************************************)
(* What is read of a document has finitely many fields.                    *)
Counted(fields) ==
    IsFiniteSet(DOMAIN fields) /\ Len(fields) \in Nat /\ DOMAIN fields = 1 .. Len(fields)

(* What may stand in a file, and in the error log.                         *)
Written == (Words \cup {"earlier"}) \X (0 .. MaxRows)
Reasons ==
    {"earlier", "row", "declined", "open", "generator", "flush", "connection", "metadata",
     "column", "schema", "delete", "upsert key", "batch", "worker"}

DocumentTypes ==
    /\ IsDocument(document) /\ origin \in Origins /\ edits \in 0 .. MaxEdits
    /\ verdict \in Verdicts
RunTypes ==
    /\ pc \in Phases
    /\ cfg.rows \in Nat /\ (pc \in {"estimating", "writing"} => cfg.rows <= MaxRows)
    /\ Counted(cfg.fields)
OutTypes ==
    /\ content \in Seq(Written) /\ disk \in Seq(Written)
    /\ good \in BOOLEAN /\ cleared \in BOOLEAN
    /\ generated \in 0 .. (IF pc \in {"writing", "ended"} THEN cfg.rows ELSE 0)
LogTypes ==
    /\ errors \in Seq(Reasons) /\ emitted \in BOOLEAN
    /\ (Len(errors) <= MaxErrors \/ Len(errors) <= Len(cfg.fields))
    /\ ended.exit \in {ExitOk, ExitUsage, ExitFailure, Killed}
TypeInv == DocumentTypes /\ RunTypes /\ OutTypes /\ LogTypes

(***************************************************************************)
(* What is read of a document.                                             *)
(***************************************************************************)
LEMMA NarrowedIsInt ==
    ASSUME NEW n \in Int
    PROVE  Narrowed(n) \in Int
<1> DEFINE m == 2 * (IntMax + 1)
           x == n + IntMax + 1
<1>1. m \in Nat \ {0} /\ x \in Int /\ IntMax \in Nat
  BY IntMaxAssumption
<1>2. \A a \in Int, b \in Nat \ {0} : a % b \in Int
  OBVIOUS
<1>3. x % m \in Int
  <2> HIDE DEF x, m
  <2> QED BY <1>1, <1>2
<1> QED BY <1>1, <1>3 DEF Narrowed

LEMMA RowsRead ==
    ASSUME NEW doc, IsDocument(doc)
    PROVE  GenerationConfig(doc).rows \in Nat \ {0}
<1> DEFINE root == doc.root
           p == Append(<<>>, "rows")
<1>1. GenerationConfig(doc).rows =
         IF Has(root, p) /\ Fits(AtLeast(1), root[p]) THEN Reading(root[p]) ELSE DefaultRows
  BY DEF GenerationConfig, Read, RowsKind
<1>2. CASE Has(root, p) /\ Fits(AtLeast(1), root[p])
  <2>1. IsValue(root[p])
    <3>1. IsTree(root) /\ p \in DOMAIN root
      BY <1>2 DEF IsDocument, Has
    <3> QED BY <3>1, TreeShape
  <2>2. Narrowed(root[p].num) \in Int
    BY <2>1, NarrowedIsInt DEF IsValue
  <2> DEFINE v == root[p]
  <2>3. v.type = "integer" /\ Narrowed(v.num) >= 1
    BY <1>2 DEF Fits, AtLeast, Kind
  <2>4. Reading(v) = Narrowed(v.num)
    BY <2>3 DEF Reading
  <2> QED BY <1>1, <1>2, <2>2, <2>3, <2>4
<1>3. CASE ~(Has(root, p) /\ Fits(AtLeast(1), root[p]))
  BY <1>1, <1>3 DEF DefaultRows
<1> QED BY <1>2, <1>3

LEMMA FieldsRead ==
    ASSUME NEW doc, IsDocument(doc)
    PROVE  Counted(FieldSpecs(doc))
  BY SpecsCounted DEF Counted

(***************************************************************************)
(* A document is one whoever writes it.                                    *)
(***************************************************************************)
LEMMA FormatsWritten ==
    ASSUME NEW format \in OutputFormats, NEW table \in TableNames
    PROVE  IsDocument(FileDocument(format, table))
  BY FileDocumentIsGood DEF WellWritten

LEMMA DatabaseWritten ==
    ASSUME NEW connection \in {Connection, Example}, NEW table \in TableNames
    PROVE  WellWritten(DatabaseDocument(connection, table))
<1> DEFINE fields == TemplateFields
           doc == [root |-> DatabaseRoot(connection, table), fields |-> fields]
<1>1. doc = DatabaseDocument(connection, table)
  BY DEF DatabaseDocument
<1>2. connection # "" /\ table # ""
  BY ConnectionAssumption, NamesAreGiven
<1>3. GoodFields(fields)
  BY TemplateIsGood
<1>4. doc = [root |-> DatabaseRoot(connection, table), fields |-> fields]
  OBVIOUS
<1>5. WrittenFor(doc, table)
  <2> HIDE DEF doc, fields
  <2> QED BY <1>2, <1>3, <1>4, DatabaseDocumentIsGood
<1> QED BY <1>1, <1>5 DEF WrittenFor

LEMMA InferredWritten ==
    ASSUME NEW table \in Tables, NEW generators \in GeneratorChoices(table)
    PROVE  WrittenFor(InferredDocument(Connection, table, generators), table.name)
<1> DEFINE fields == IF table.columns = <<>> THEN TemplateFields
                     ELSE InferredFields(table, generators)
           name == table.name
           doc == [root |-> DatabaseRoot(Connection, name), fields |-> fields]
<1>1. doc = InferredDocument(Connection, table, generators)
  BY DEF InferredDocument
<1>2. IsTable(table) /\ Connection # "" /\ name # ""
  BY TablesAssumption, ConnectionAssumption DEF IsTable
<1>3. GoodFields(fields)
  BY <1>2, InferredFieldsGood
<1>4. doc = [root |-> DatabaseRoot(Connection, name), fields |-> fields]
  OBVIOUS
<1>5. WrittenFor(doc, name)
  <2> HIDE DEF doc, fields, name
  <2> QED BY <1>2, <1>3, <1>4, DatabaseDocumentIsGood
<1> QED BY <1>1, <1>5

LEMMA EditIsTyped ==
    ASSUME TypeInv, NEW doc, IsDocument(doc), Edit(doc)
    PROVE  DocumentTypes'
<1>1. edits' = edits + 1 /\ edits < MaxEdits /\ edits \in Nat /\ MaxEdits \in Nat
  BY BoundsAssumption DEF Edit, TypeInv, DocumentTypes
<1>2. document' = doc /\ origin' = "author" /\ verdict' = "none"
  BY DEF Edit
<1> QED BY <1>1, <1>2 DEF DocumentTypes, Origins, Verdicts

LEMMA RootIsEdited ==
    ASSUME TypeInv, NEW changes \in RootEdits, EditRoot(changes)
    PROVE  DocumentTypes'
<1> DEFINE after[n \in 0 .. Len(changes)] ==
               IF n = 0 THEN document.root
               ELSE Changed(after[n - 1], changes[n][1], changes[n][2])
           t == after[Len(changes)]
           doc == [document EXCEPT !.root = t]
<1>1. Edit(doc)
  BY DEF EditRoot
<1>2. IsDocument(document)
  BY DEF TypeInv, DocumentTypes
<1>3. IsTree(t)
  <2>1. IsTree(document.root)
    BY <1>2 DEF IsDocument
  <2> QED BY <2>1, EditedRootIsTree
<1> HIDE DEF t, after
<1>4. doc = [root |-> t, fields |-> document.fields]
  BY <1>2 DEF IsDocument
<1>5. doc.root = t /\ doc.fields = document.fields
  BY <1>4
<1>6. IsDocument(doc)
  <2> HIDE DEF doc
  <2> QED BY <1>2, <1>3, <1>4, <1>5 DEF IsDocument
<1> HIDE DEF doc
<1> QED BY <1>1, <1>6, EditIsTyped

(* A document with one of its fields written anew.                         *)
LEMMA FieldIsWritten ==
    ASSUME NEW doc, IsDocument(doc), NEW i \in DOMAIN doc.fields, NEW field, IsTree(field)
    PROVE  IsDocument([doc EXCEPT !.fields[i] = field])
<1> DEFINE fields == [doc.fields EXCEPT ![i] = field]
           after == [root |-> doc.root, fields |-> fields]
<1>0. ASSUME NEW r, NEW f, NEW d, d = [root |-> r, fields |-> f]
      PROVE  [d EXCEPT !.fields[i] = field] = [root |-> r, fields |-> [f EXCEPT ![i] = field]]
  BY <1>0
<1>1. [doc EXCEPT !.fields[i] = field] = after
  <2>1. doc = [root |-> doc.root, fields |-> doc.fields]
    BY DEF IsDocument
  <2> QED BY <1>0, <2>1
<1>2. /\ doc.fields = [j \in 1 .. Len(doc.fields) |-> doc.fields[j]] /\ Len(doc.fields) \in Nat
      /\ DOMAIN doc.fields = 1 .. Len(doc.fields) /\ IsTree(doc.root)
      /\ \A j \in DOMAIN doc.fields : IsTree(doc.fields[j])
  BY DEF IsDocument
<1>3. /\ DOMAIN fields = 1 .. Len(doc.fields) /\ Len(fields) = Len(doc.fields)
      /\ fields = [j \in 1 .. Len(doc.fields) |-> fields[j]]
      /\ \A j \in 1 .. Len(doc.fields) : fields[j] = IF j = i THEN field ELSE doc.fields[j]
  BY <1>2
<1> HIDE DEF fields
<1>4. after.root = doc.root /\ after.fields = fields
      /\ after = [root |-> after.root, fields |-> after.fields]
  OBVIOUS
<1> HIDE DEF after
<1>5. \A j \in 1 .. Len(doc.fields) : IsTree(fields[j])
  BY <1>2, <1>3
<1>6. IsDocument(after)
  BY <1>2, <1>3, <1>4, <1>5 DEF IsDocument
<1> QED BY <1>1, <1>6

LEMMA FieldIsEdited ==
    ASSUME TypeInv, NEW e \in FieldEdits, EditField(e[1], e[2], e[3])
    PROVE  DocumentTypes'
<1> DEFINE i == e[1]
           field == Changed(document.fields[i], e[2], e[3])
           doc == [document EXCEPT !.fields[i] = field]
<1>1. i \in DOMAIN document.fields /\ Edit(doc)
  BY DEF EditField
<1>2. IsDocument(document)
  BY DEF TypeInv, DocumentTypes
<1>3. IsTree(field)
  <2>1. IsTree(document.fields[i])
    BY <1>1, <1>2 DEF IsDocument
  <2>2. IsChange(e[2], e[3])
    BY EditsAssumption
  <2> QED BY <2>1, <2>2, ChangedIsTree
<1>4. IsDocument(doc)
  <2> HIDE DEF field, i
  <2> QED BY <1>1, <1>2, <1>3, FieldIsWritten
<1> HIDE DEF doc
<1> QED BY <1>1, <1>4, EditIsTyped

LEMMA FieldIsSwapped ==
    ASSUME TypeInv, NEW e \in FieldSwaps, WriteField(e[1], e[2])
    PROVE  DocumentTypes'
<1> DEFINE i == e[1]
           field == e[2]
           doc == [document EXCEPT !.fields[i] = field]
<1>1. i \in DOMAIN document.fields /\ Edit(doc)
  BY DEF WriteField
<1>2. IsDocument(document)
  BY DEF TypeInv, DocumentTypes
<1>3. IsTree(field)
  BY EditsAssumption
<1>4. IsDocument(doc)
  <2> HIDE DEF field, i
  <2> QED BY <1>1, <1>2, <1>3, FieldIsWritten
<1> HIDE DEF doc
<1> QED BY <1>1, <1>4, EditIsTyped

LEMMA DocumentStep ==
    ASSUME TypeInv, [Next]_vars
    PROVE  DocumentTypes'
<1> USE DEF TypeInv, DocumentTypes, Origins, Verdicts
<1>1. CASE UNCHANGED fileVars
  BY <1>1 DEF fileVars
<1>2. ASSUME NEW format \in OutputFormats, NEW table \in TableNames, InitFile(format, table)
      PROVE  DocumentTypes'
  BY <1>2, FormatsWritten DEF InitFile, Write
<1>3. ASSUME NEW connection \in {Connection, Example}, NEW table \in TableNames,
             InitDatabase(connection, table)
      PROVE  DocumentTypes'
  BY <1>3, DatabaseWritten DEF InitDatabase, Write, WellWritten
<1>4. ASSUME NEW table \in Tables, NEW generators \in GeneratorChoices(table),
             InitFromTable(table, generators)
      PROVE  DocumentTypes'
  BY <1>4, InferredWritten DEF InitFromTable, Write, WrittenFor, WellWritten
<1>5. ASSUME NEW changes \in RootEdits, EditRoot(changes)
      PROVE  DocumentTypes'
  BY <1>5, RootIsEdited
<1>6. ASSUME NEW e \in FieldEdits, EditField(e[1], e[2], e[3])
      PROVE  DocumentTypes'
  BY <1>6, FieldIsEdited
<1>7. ASSUME NEW e \in FieldSwaps, WriteField(e[1], e[2])
      PROVE  DocumentTypes'
  BY <1>7, FieldIsSwapped
<1>8. CheckRefuses => DocumentTypes'
  BY DEF CheckRefuses, Check
<1>9. CheckPasses => DocumentTypes'
  BY DEF CheckPasses, Check
<1>10. RunBegun => UNCHANGED fileVars
  BY DEF RunBegun, RunRefused, NoWorkspace, RunMisused, RunBegins, RunStarts
<1>11. FileStep => UNCHANGED fileVars
  BY DEF FileStep, EstimateFails, NotOpened, OpenFile, WriteRow, GeneratorThrows, FinishFile, Kill
<1>12. ConnectStep => UNCHANGED fileVars
  BY DEF ConnectStep, NoConnection, NoTable, NoColumn, SchemaMisfit, DeleteFails, NoUpsertKey,
         SetUpFails, StartImport
<1>13. ImportStep => UNCHANGED fileVars
  BY DEF ImportStep, ImportError, ImportReturns, ImportThrows
<1>14. UNCHANGED vars => UNCHANGED fileVars
  BY DEF vars
<1> HIDE DEF TypeInv, DocumentTypes, Origins, Verdicts
<1> QED BY <1>1, <1>2, <1>3, <1>4, <1>5, <1>6, <1>7, <1>8, <1>9, <1>10, <1>11, <1>12, <1>13,
           <1>14, Zenon
        DEF Next, RunBegun, FileStep, ConnectStep, ImportStep

(***************************************************************************)
(* The run.                                                                *)
(***************************************************************************)
LEMMA InitialTypes == Init => TypeInv
<1> SUFFICES ASSUME Init PROVE TypeInv
  OBVIOUS
<1>1. DocumentTypes
  BY NoDocumentIsOne, BoundsAssumption DEF Init, DocumentTypes, Origins, Verdicts
<1>2. RunTypes
  <2>1. cfg.rows \in Nat
    BY NoDocumentIsOne, RowsRead DEF Init, NotRead
  <2>2. Counted(cfg.fields)
    <3>1. cfg.fields = FieldSpecs(NoDocument)
      BY DEF Init, NotRead, GenerationConfig
    <3> QED BY <3>1, NoDocumentIsOne, FieldsRead
  <2> QED BY <2>1, <2>2 DEF Init, RunTypes, Phases
<1>3. OutTypes
  <2>1. Mark("earlier") \in Written
    BY BoundsAssumption DEF Mark, Written
  <2>2. <<Mark("earlier")>> \in Seq(Written)
    <3> HIDE DEF Mark
    <3> QED BY <2>1
  <2>3. <<>> \in Seq(Written) /\ 0 \in 0 .. 0
    OBVIOUS
  <2> HIDE DEF Mark, Written
  <2> QED BY <2>2, <2>3 DEF Init, OutTypes, Earlier
<1>4. LogTypes
  <2>1. <<"earlier">> \in Seq(Reasons) /\ Len(<<"earlier">>) = 1
    BY DEF Reasons
  <2>2. 1 <= MaxErrors
    BY BoundsAssumption
  <2>3. ended.exit = ExitOk
    BY DEF Init, NotEnded
  <2>4. emitted \in BOOLEAN /\ errors = <<"earlier">>
    BY DEF Init
  <2> QED BY <2>1, <2>2, <2>3, <2>4 DEF LogTypes
<1> QED BY <1>1, <1>2, <1>3, <1>4 DEF TypeInv

LEMMA RunTypesStep ==
    ASSUME TypeInv, [Next]_vars
    PROVE  RunTypes'
<1> USE DEF Phases
<1>0. RunTypes
  BY DEF TypeInv
<1>1. CASE UNCHANGED vars \/ Drafts \/ Judges
  <2>1. UNCHANGED <<pc, cfg>>
    BY <1>1 DEF vars, Drafts, Judges
  <2> QED BY <1>0, <2>1 DEF RunTypes
<1>2. CASE RunBegun
  <2>1. CASE UNCHANGED cfg /\ pc' = "ended"
    BY <1>0, <2>1 DEF RunTypes
  <2>2. ASSUME NEW n \in RowOptions, RunBegins(n)
        PROVE  RunTypes'
    <3> DEFINE read == GenerationConfig(document)
    <3>1. IsDocument(document)
      BY DEF TypeInv, DocumentTypes
    <3>2. read.rows \in Nat \ {0}
      BY <3>1, RowsRead
    <3>3. Counted(read.fields)
      BY <3>1, FieldsRead DEF GenerationConfig
    <3>4. cfg'.rows = (IF n # 0 THEN n ELSE read.rows) /\ cfg'.fields = read.fields
      BY <2>2 DEF RunBegins, Overridden, GenerationConfig
    <3>5. n \in Int /\ n >= 0
      BY <2>2, OptionsAssumption DEF RunBegins
    <3>6. pc' \in {"connecting", "estimating"} /\ (pc' = "estimating" => cfg'.rows <= MaxRows)
      BY <2>2 DEF RunBegins
    <3> HIDE DEF read
    <3>7. cfg'.rows \in Nat
      BY <3>2, <3>4, <3>5
    <3> QED BY <3>3, <3>4, <3>6, <3>7 DEF RunTypes
  <2>3. ASSUME NEW n \in RowOptions, RunMisused(n)
        PROVE  RunTypes'
    BY <2>1, <2>3 DEF RunMisused, EndsWith
  <2>4. RunRefused \/ NoWorkspace => RunTypes'
    BY <2>1 DEF RunRefused, NoWorkspace, EndsWith
  <2> QED BY <1>2, <2>2, <2>3, <2>4 DEF RunBegun
<1>3. CASE FileStep
  <2>1. UNCHANGED cfg /\ pc \in {"estimating", "writing"} /\ pc' \in {"writing", "ended"}
    BY <1>3 DEF FileStep, EstimateFails, NotOpened, OpenFile, WriteRow, GeneratorThrows,
                FinishFile, Kill, Throws, EndsWith
  <2> QED BY <1>0, <2>1 DEF RunTypes
<1>4. CASE ConnectStep
  <2>1. UNCHANGED cfg /\ pc = "connecting" /\ pc' \in {"importing", "ended"}
    BY <1>4 DEF ConnectStep, NoConnection, NoTable, NoColumn, SchemaMisfit, DeleteFails,
                NoUpsertKey, SetUpFails, StartImport, LogsAndThrows, EndsWith
  <2> QED BY <1>0, <2>1 DEF RunTypes
<1>5. CASE ImportStep
  <2>1. UNCHANGED cfg /\ pc = "importing" /\ pc' \in {"importing", "ended"}
    BY <1>5 DEF ImportStep, ImportError, ImportReturns, ImportThrows, Throws, EndsWith
  <2> QED BY <1>0, <2>1 DEF RunTypes
<1> QED BY <1>1, <1>2, <1>3, <1>4, <1>5, StepKinds

(***************************************************************************)
(* The output.                                                             *)
(***************************************************************************)
LEMMA EndsWritten ==
    ASSUME NEW file
    PROVE  Opening(file) \in Seq(Written) /\ Closing(file) \in Seq(Written)
<1> DEFINE header == Mark("header")
           create == Mark("create table")
           open == Mark("[")
           close == Mark("]")
<1>1. {header, create, open, close} \subseteq Written
  <2>1. \A text \in {"header", "create table", "[", "]"} : text \in Words \cup {"earlier"}
    BY DEF Words
  <2>2. 0 \in 0 .. MaxRows
    BY BoundsAssumption
  <2>3. \A text \in {"header", "create table", "[", "]"} : Mark(text) \in Written
    BY <2>1, <2>2 DEF Mark, Written
  <2> QED BY <2>3
<1> HIDE DEF header, create, open, close
<1>2. <<>> \in Seq(Written) /\ \A m \in Written : <<m>> \in Seq(Written)
  OBVIOUS
<1>3. Opening(file) \in {<<>>, <<header>>, <<open>>, <<create>>}
  BY DEF Opening, header, open, create
<1>4. Closing(file) \in {<<>>, <<close>>}
  BY DEF Closing, close
<1> QED BY <1>1, <1>2, <1>3, <1>4, Zenon

LEMMA RowWritten ==
    ASSUME NEW file, NEW n \in Nat, n < MaxRows
    PROVE  RowTokens(file, n) \in Seq(Written)
<1> DEFINE comma == Mark(",")
           row == RowToken(n + 1)
<1>1. comma \in Written
  <2>1. "," \in Words \cup {"earlier"} /\ 0 \in 0 .. MaxRows
    BY BoundsAssumption DEF Words
  <2> QED BY <2>1 DEF Mark, Written
<1>2. row \in Written
  <2>1. "row" \in Words \cup {"earlier"} /\ n + 1 \in 0 .. MaxRows
    BY BoundsAssumption DEF Words
  <2> QED BY <2>1 DEF RowToken, Written
<1>3. RowTokens(file, n) \in {<<comma, row>>, <<row>>}
  BY Zenon DEF RowTokens
<1> HIDE DEF comma, row
<1>4. <<comma, row>> \in Seq(Written) /\ <<row>> \in Seq(Written)
  BY <1>1, <1>2
<1> QED BY <1>3, <1>4, Zenon

LEMMA PrefixWritten ==
    ASSUME NEW s \in Seq(Written), NEW p \in Prefixes(s)
    PROVE  p \in Seq(Written)
<1>1. PICK l \in 0 .. Len(s) : p = SubSeq(s, 1, l)
  BY DEF Prefixes
<1>2. \A i \in 1 .. l : i \in 1 .. Len(s)
  BY <1>1
<1> QED BY <1>1, <1>2, SubSeqProperties

LEMMA OutTypesStep ==
    ASSUME TypeInv, [Next]_vars
    PROVE  OutTypes'
<1>0. /\ OutTypes /\ content \in Seq(Written) /\ disk \in Seq(Written) /\ good \in BOOLEAN
      /\ cfg.rows \in Nat /\ (pc = "writing" => cfg.rows <= MaxRows) /\ MaxRows \in Nat
      /\ generated \in 0 .. (IF pc \in {"writing", "ended"} THEN cfg.rows ELSE 0)
  BY BoundsAssumption DEF TypeInv, OutTypes, RunTypes
<1>1. CASE UNCHANGED vars \/ Drafts \/ Judges
  <2>1. UNCHANGED <<pc, cfg, content, good, generated, disk, cleared>>
    BY <1>1 DEF vars, outVars, Drafts, Judges
  <2> QED BY <1>0, <2>1 DEF OutTypes
<1>2. CASE RunBegun
  <2>1. /\ pc = "idle" /\ UNCHANGED <<content, good, generated, disk, cleared>>
        /\ pc' = "ended" => UNCHANGED cfg
        /\ pc' \in {"ended", "estimating", "connecting"}
    BY <1>2 DEF RunBegun, RunRefused, NoWorkspace, RunMisused, RunBegins, RunStarts, EndsWith,
                outVars
  <2> QED BY <1>0, <2>1 DEF OutTypes
<1>3. CASE FileStep
  <2>1. CASE EstimateFails
    BY <1>0, <2>1 DEF EstimateFails, Throws, EndsWith, outVars, OutTypes
  <2>2. ASSUME NEW reason, NotOpened(reason)
        PROVE  OutTypes'
    BY <1>0, <2>2 DEF NotOpened, Throws, EndsWith, outVars, OutTypes
  <2>3. CASE OpenFile
    <3>1. Opening(cfg.file) \in Seq(Written) /\ <<>> \in Seq(Written)
      BY EndsWritten
    <3> QED BY <1>0, <2>3, <3>1 DEF OpenFile, OutTypes
  <2>4. CASE WriteRow
    <3> DEFINE tokens == RowTokens(cfg.file, generated)
    <3>1. generated \in Nat /\ generated < cfg.rows /\ generated < MaxRows
      BY <1>0, <2>4 DEF WriteRow
    <3>2. tokens \in Seq(Written)
      BY <3>1, RowWritten
    <3>3. content' \in {content, content \o tokens} /\ good' \in BOOLEAN
          /\ generated' = generated + 1 /\ UNCHANGED <<pc, cfg, disk, cleared>> /\ pc = "writing"
      BY <2>4 DEF WriteRow
    <3> HIDE DEF tokens
    <3>4. content \o tokens \in Seq(Written)
      BY <1>0, <3>2
    <3>5. content' \in Seq(Written)
      BY <1>0, <3>3, <3>4
    <3>6. generated' \in 0 .. cfg.rows
      BY <1>0, <3>1, <3>3
    <3> QED BY <1>0, <3>3, <3>5, <3>6 DEF OutTypes
  <2>5. CASE GeneratorThrows
    <3>1. disk' \in Seq(Written)
      <4>1. disk' \in {content} \cup Prefixes(content)
        BY <2>5 DEF GeneratorThrows, CloseStream
      <4> QED BY <1>0, <4>1, PrefixWritten
    <3>2. UNCHANGED <<cfg, content, good, generated, cleared>> /\ pc = "writing" /\ pc' = "ended"
      BY <2>5 DEF GeneratorThrows, Throws, EndsWith
    <3> QED BY <1>0, <3>1, <3>2 DEF OutTypes
  <2>6. CASE FinishFile
    <3> DEFINE end == Closing(cfg.file)
    <3>1. end \in Seq(Written)
      BY EndsWritten
    <3>2. /\ content' \in {content, content \o end} /\ good' \in {good, FALSE}
          /\ disk' \in {content'} \cup Prefixes(content')
          /\ UNCHANGED <<cfg, generated, cleared>> /\ pc = "writing" /\ pc' = "ended"
      BY <2>6 DEF FinishFile, Throws, EndsWith
    <3> HIDE DEF end
    <3>3. content' \in Seq(Written)
      <4>1. content \o end \in Seq(Written)
        BY <1>0, <3>1
      <4> QED BY <1>0, <3>2, <4>1
    <3>4. disk' \in Seq(Written)
      BY <3>2, <3>3, PrefixWritten
    <3> QED BY <1>0, <3>2, <3>3, <3>4 DEF OutTypes
  <2>7. CASE Kill
    <3>1. disk' \in Seq(Written)
      BY <1>0, <2>7, PrefixWritten DEF Kill
    <3> QED BY <1>0, <2>7, <3>1 DEF Kill, EndsWith, OutTypes
  <2> QED BY <1>3, <2>1, <2>2, <2>3, <2>4, <2>5, <2>6, <2>7 DEF FileStep
<1>4. CASE ConnectStep
  <2>1. /\ UNCHANGED <<cfg, content, good, generated, disk>>
        /\ pc = "connecting" /\ pc' \in {"importing", "ended"}
    BY <1>4 DEF ConnectStep, NoConnection, NoTable, NoColumn, SchemaMisfit, DeleteFails,
                NoUpsertKey, SetUpFails, StartImport, LogsAndThrows, EndsWith, outVars
  <2>2. cleared' \in BOOLEAN
    <3>1. StartImport => cleared' \in BOOLEAN
      BY DEF StartImport
    <3>2. ~StartImport => cleared' = cleared
      BY <1>4 DEF ConnectStep, NoConnection, NoTable, NoColumn, SchemaMisfit, DeleteFails,
                  NoUpsertKey, SetUpFails, outVars
    <3> QED BY <1>0, <3>1, <3>2 DEF OutTypes
  <2>3. generated' \in 0 .. (IF pc' \in {"writing", "ended"} THEN cfg'.rows ELSE 0)
    BY <1>0, <2>1
  <2> QED BY <1>0, <2>1, <2>2, <2>3 DEF OutTypes
<1>5. CASE ImportStep
  <2>1. /\ UNCHANGED <<cfg, content, good, generated, disk, cleared>>
        /\ pc = "importing" /\ pc' \in {"importing", "ended"}
    BY <1>5 DEF ImportStep, ImportError, ImportReturns, ImportThrows, Throws, EndsWith, outVars
  <2> QED BY <1>0, <2>1 DEF OutTypes
<1> QED BY <1>1, <1>2, <1>3, <1>4, <1>5, StepKinds

(***************************************************************************)
(* The log.                                                                *)
(***************************************************************************)
LEMMA LoggedOnce ==
    ASSUME TypeInv, LogInv, pc \in {"estimating", "writing", "connecting"}, UNCHANGED cfg,
           NEW reason \in Reasons, Throws(reason) \/ LogsAndThrows(reason)
    PROVE  LogTypes'
<1>1. errors = <<>> /\ emitted = FALSE
  BY DEF LogInv, CleanLog
<1>2. errors' = <<reason>> /\ emitted' = FALSE /\ ended'.exit = ExitFailure
  BY <1>1 DEF Throws, LogsAndThrows, Handler, EndsWith
<1>3. MaxErrors \in Nat \ {0}
  BY BoundsAssumption
<1>4. errors' \in Seq(Reasons) /\ Len(errors') <= MaxErrors
  <2>1. Len(<<reason>>) = 1 /\ 1 <= MaxErrors /\ <<reason>> \in Seq(Reasons)
    BY <1>3
  <2> QED BY <1>2, <2>1
<1> QED BY <1>2, <1>3, <1>4 DEF LogTypes

LEMMA MisfitsLogged ==
    ASSUME TypeInv, LogInv, SchemaMisfit
    PROVE  LogTypes'
<1> DEFINE wrong == Misplaced(cfg.fields, Target.columns)
           count == Cardinality(wrong)
<1>1. errors = <<>> /\ cfg' = cfg /\ emitted' = FALSE /\ ended'.exit = ExitFailure
  BY DEF SchemaMisfit, LogInv, CleanLog, Handler, EndsWith
<1>2. Counted(cfg.fields)
  BY DEF TypeInv, RunTypes
<1>3. count \in Nat /\ count <= Len(cfg.fields)
  <2>1. wrong \subseteq DOMAIN cfg.fields
    BY DEF Misplaced
  <2>2. IsFiniteSet(DOMAIN cfg.fields) /\ Cardinality(DOMAIN cfg.fields) = Len(cfg.fields)
    BY <1>2, FS_Interval DEF Counted
  <2> HIDE DEF wrong
  <2>3. IsFiniteSet(wrong) /\ Cardinality(wrong) <= Cardinality(DOMAIN cfg.fields)
    BY <2>1, <2>2, FS_Subset
  <2> QED BY <2>2, <2>3, FS_CardinalityType
<1>4. errors' = [i \in 1 .. count |-> "schema"]
  <2>1. errors' = errors \o [i \in 1 .. count |-> "schema"]
    BY DEF SchemaMisfit, Handler
  <2> HIDE DEF count
  <2> QED BY <1>1, <1>3, <2>1
<1> HIDE DEF count
<1>5. errors' \in Seq(Reasons) /\ Len(errors') = count
  <2>1. "schema" \in Reasons
    BY DEF Reasons
  <2> QED BY <1>3, <1>4, <2>1
<1> QED BY <1>1, <1>3, <1>5 DEF LogTypes

LEMMA LogTypesStep ==
    ASSUME TypeInv, LogInv, [Next]_vars
    PROVE  LogTypes'
<1>0. LogTypes /\ MaxErrors \in Nat \ {0}
  BY BoundsAssumption DEF TypeInv
<1> USE DEF ExitOk, ExitUsage, ExitFailure, Killed
<1>1. CASE UNCHANGED vars \/ Drafts \/ Judges
  <2>1. UNCHANGED <<cfg, errors, emitted, ended>>
    BY <1>1 DEF vars, logVars, Drafts, Judges
  <2> QED BY <1>0, <2>1 DEF LogTypes
<1>2. CASE RunBegun
  <2>1. ASSUME NEW n \in RowOptions, RunBegins(n)
        PROVE  LogTypes'
    <3>1. errors' = <<>> /\ emitted' = FALSE /\ UNCHANGED ended
      BY <2>1 DEF RunBegins
    <3>2. <<>> \in Seq(Reasons) /\ Len(<<>>) = 0 /\ 0 <= MaxErrors
      BY <1>0
    <3> QED BY <1>0, <3>1, <3>2 DEF LogTypes
  <2>2. CASE UNCHANGED cfg /\ UNCHANGED logVars /\ ended'.exit \in {ExitUsage, ExitFailure}
    BY <1>0, <2>2 DEF LogTypes, logVars
  <2>3. ASSUME NEW n \in RowOptions, RunMisused(n)
        PROVE  LogTypes'
    BY <2>2, <2>3 DEF RunMisused, EndsWith
  <2>4. RunRefused \/ NoWorkspace => LogTypes'
    BY <2>2 DEF RunRefused, NoWorkspace, EndsWith
  <2> QED BY <1>2, <2>1, <2>3, <2>4 DEF RunBegun
<1>3. CASE FileStep
  <2>0. pc \in {"estimating", "writing"} /\ UNCHANGED cfg
    BY <1>3 DEF FileStep, EstimateFails, NotOpened, OpenFile, WriteRow, GeneratorThrows,
                FinishFile, Kill
  <2>1. {"row", "declined", "open", "generator", "flush"} \subseteq Reasons
    BY DEF Reasons
  <2>2. CASE \E reason \in {"row", "declined", "open", "generator", "flush"} : Throws(reason)
    BY <2>0, <2>1, <2>2, LoggedOnce
  <2>3. CASE UNCHANGED logVars /\ (UNCHANGED ended \/ ended'.exit \in {ExitOk, Killed})
    BY <1>0, <2>0, <2>3 DEF LogTypes, logVars
  <2>4. EstimateFails \/ (\E reason \in {"declined", "open"} : NotOpened(reason))
        \/ GeneratorThrows => LogTypes'
    BY <2>2 DEF EstimateFails, NotOpened, GeneratorThrows
  <2>5. OpenFile \/ WriteRow \/ Kill => LogTypes'
    BY <2>3 DEF OpenFile, WriteRow, Kill, EndsWith, logVars
  <2>6. FinishFile => LogTypes'
    <3>1. FinishFile => Throws("flush") \/ (EndsWith(ExitOk, "completed") /\ UNCHANGED logVars)
      BY Zenon DEF FinishFile
    <3>2. EndsWith(ExitOk, "completed") => ended'.exit = ExitOk
      BY DEF EndsWith
    <3> QED BY <2>2, <2>3, <3>1, <3>2
  <2> QED BY <1>3, <2>4, <2>5, <2>6 DEF FileStep
<1>4. CASE ConnectStep
  <2>0. pc = "connecting" /\ UNCHANGED cfg
    BY <1>4 DEF ConnectStep, NoConnection, NoTable, NoColumn, SchemaMisfit, DeleteFails,
                NoUpsertKey, SetUpFails, StartImport
  <2>1. CASE NoConnection \/ NoTable \/ NoColumn \/ DeleteFails \/ NoUpsertKey
    <3>1. PICK reason \in {"connection", "metadata", "column", "delete", "upsert key"} :
              SetUpFails(reason)
      BY <2>1 DEF NoConnection, NoTable, NoColumn, DeleteFails, NoUpsertKey
    <3>2. reason \in Reasons
      BY DEF Reasons
    <3> QED BY <2>0, <3>1, <3>2, LoggedOnce DEF SetUpFails
  <2>2. CASE SchemaMisfit
    BY <2>2, MisfitsLogged
  <2>3. CASE StartImport
    BY <1>0, <2>3 DEF StartImport, logVars, LogTypes
  <2> QED BY <1>4, <2>1, <2>2, <2>3 DEF ConnectStep
<1>5. CASE ImportStep
  <2>1. ASSUME NEW reason \in ImportErrors, ImportError(reason)
        PROVE  LogTypes'
    <3>1. errors' = Append(errors, reason) /\ Len(errors) < MaxErrors /\ emitted' = TRUE
          /\ UNCHANGED ended
      BY <2>1 DEF ImportError
    <3>2. reason \in Reasons /\ errors \in Seq(Reasons)
      BY <1>0 DEF ImportErrors, Reasons, LogTypes
    <3>3. errors' \in Seq(Reasons) /\ Len(errors') <= MaxErrors
      BY <1>0, <3>1, <3>2
    <3> QED BY <1>0, <3>1, <3>3 DEF LogTypes
  <2>2. CASE ImportReturns
    BY <1>0, <2>2 DEF ImportReturns, EndsWith, LogTypes
  <2>3. CASE ImportThrows
    <3>1. pc = "importing" /\ errors \in Seq(ImportErrors) /\ (emitted <=> errors # <<>>)
      BY <2>3 DEF ImportThrows, LogInv, ImportLog
    <3>2. errors # <<>>
      BY <2>3, <3>1 DEF ImportThrows, Stopped, ToSet
    <3>3. UNCHANGED <<errors, cfg>> /\ emitted' = FALSE /\ ended'.exit = ExitFailure
      BY <2>3, <3>1, <3>2 DEF ImportThrows, Throws, EndsWith, Handler
    <3> QED BY <1>0, <3>3 DEF LogTypes
  <2> QED BY <1>5, <2>1, <2>2, <2>3 DEF ImportStep
<1> QED BY <1>1, <1>2, <1>3, <1>4, <1>5, StepKinds

LEMMA TypeInvariant == Spec => []TypeInv
<1>1. TypeInv /\ LogInv /\ [Next]_vars => TypeInv'
  BY DocumentStep, RunTypesStep, OutTypesStep, LogTypesStep DEF TypeInv
<1> QED BY <1>1, InitialTypes, LogInvariant, PTL DEF Spec

(* Every variable keeps its type, whatever the author writes: a document   *)
(* stays one, nothing but tokens of rows that were asked for is in the     *)
(* file, and no run generates more rows than it was asked for or logs more *)
(* than the errors of an import or the fields that misfit.                 *)
THEOREM TypeCorrect == Spec => []TypeOK
<1>1. TypeInv => TypeOK
  <2> SUFFICES ASSUME TypeInv PROVE TypeOK
    OBVIOUS
  <2>1. \A token \in ToSet(content) \cup ToSet(disk) : token[2] \in 0 .. MaxRows
    <3>1. content \in Seq(Written) /\ disk \in Seq(Written)
      BY DEF TypeInv, OutTypes
    <3>2. ToSet(content) \subseteq Written /\ ToSet(disk) \subseteq Written
      BY <3>1 DEF ToSet
    <3>3. \A token \in Written : token[2] \in 0 .. MaxRows
      BY DEF Written
    <3> QED BY <3>2, <3>3
  <2>2. Len(errors) <= Max({MaxErrors, Len(cfg.fields)})
    <3>1. Len(errors) \in Nat /\ MaxErrors \in Int /\ Len(cfg.fields) \in Int
          /\ (Len(errors) <= MaxErrors \/ Len(errors) <= Len(cfg.fields))
      BY BoundsAssumption DEF TypeInv, LogTypes, RunTypes, Counted
    <3>2. \A a, b \in Int : Max({a, b}) = (IF a <= b THEN b ELSE a)
      BY LeastOfTwo
    <3>3. Max({MaxErrors, Len(cfg.fields)}) = (IF MaxErrors <= Len(cfg.fields)
                                               THEN Len(cfg.fields) ELSE MaxErrors)
      BY <3>1, <3>2
    <3> QED BY <3>1, <3>3
  <2> QED BY <2>1, <2>2
          DEF TypeInv, DocumentTypes, RunTypes, OutTypes, LogTypes, TypeOK
<1> QED BY <1>1, TypeInvariant, PTL

(***************************************************************************)
(* The output file.                                                        *)
(***************************************************************************)
RowsWritten ==
    pc = "writing" /\ good => content = Opening(cfg.file) \o RowPart(cfg.file, generated)
FileInv ==
    /\ pc \in {"estimating", "writing"} => cfg.type # "database" /\ cfg.rows # 0
    /\ pc \in {"connecting", "importing"} => cfg.type = "database"
    /\ pc \in {"idle", "estimating"} => good /\ generated = 0 /\ ended = NotEnded
    /\ pc # "ended" => ended = NotEnded
    /\ RowsWritten /\ FinishedFileIsComplete

(* Until the stream fails the file begins with what opens it and has the   *)
(* rows generated so far.                                                  *)
LEMMA NoRowsYet ==
    ASSUME NEW file
    PROVE  Opening(file) = Opening(file) \o RowPart(file, 0)
<1>1. RowPart(file, 0) = <<>>
  <2>1. RowPart(file, 0) \in Seq(Tokens) /\ Len(RowPart(file, 0)) = 0
    BY RowPartShape DEF ArrayLength
  <2> QED BY <2>1
<1>2. Opening(file) \in Seq(Tokens)
  BY EndsShape
<1> QED BY <1>1, <1>2

LEMMA RowAdded ==
    ASSUME NEW file, NEW n \in Nat, NEW c, c = Opening(file) \o RowPart(file, n)
    PROVE  c \o RowTokens(file, n) = Opening(file) \o RowPart(file, n + 1)
<1> DEFINE a == Opening(file)
           b == RowPart(file, n)
           more == RowTokens(file, n)
           after == RowPart(file, n + 1)
<1>1. a \in Seq(Tokens) /\ b \in Seq(Tokens) /\ more \in Seq(Tokens)
  BY EndsShape, RowPartShape, RowTokensShape
<1>2. after = b \o more
  BY RowPartGrows
<1>3. c = a \o b
  OBVIOUS
<1> HIDE DEF a, b, more, after
<1>4. (a \o b) \o more = a \o (b \o more)
  BY <1>1
<1>5. c \o more = a \o after
  BY <1>2, <1>3, <1>4
<1> QED BY <1>5 DEF a, b, more, after

LEMMA InitialFile == Init => FileInv
  BY DEF Init, FileInv, NotEnded, RowsWritten, FinishedFileIsComplete

LEMMA FileInvStep ==
    ASSUME TypeInv, FileInv, [Next]_vars
    PROVE  FileInv'
<1> DEFINE Finished == [exit |-> ExitOk, reason |-> "completed"]
<1>0. NotEnded.reason = "running" /\ Finished.reason = "completed" /\ NotEnded # Finished
  BY DEF NotEnded
<1>1. CASE UNCHANGED vars \/ Drafts \/ Judges
  <2>1. UNCHANGED <<pc, cfg, content, good, generated, disk, ended>>
    BY <1>1 DEF vars, outVars, Drafts, Judges
  <2> QED BY <2>1 DEF FileInv, RowsWritten, FinishedFileIsComplete
<1>2. CASE RunBegun
  <2>1. ASSUME NEW n \in RowOptions, RunBegins(n)
        PROVE  FileInv'
    <3> DEFINE read == GenerationConfig(document)
    <3>1. IsDocument(document)
      BY DEF TypeInv, DocumentTypes
    <3>2. read.rows \in Nat \ {0}
      BY <3>1, RowsRead
    <3>3. cfg'.rows = IF n # 0 THEN n ELSE read.rows
      BY <2>1 DEF RunBegins, Overridden, GenerationConfig
    <3> HIDE DEF read
    <3>4. cfg'.rows # 0
      BY <3>2, <3>3
    <3>5. /\ pc = "idle" /\ UNCHANGED <<good, generated, ended>>
          /\ pc' = IF cfg'.type = "database" THEN "connecting" ELSE "estimating"
      BY <2>1 DEF RunBegins, RunStarts, outVars
    <3>6. ended = NotEnded /\ good /\ generated = 0
      BY <3>5 DEF FileInv
    <3> QED BY <1>0, <3>4, <3>5, <3>6 DEF FileInv, RowsWritten, FinishedFileIsComplete
  <2>2. ASSUME pc' = "ended", NEW reason, ended'.reason = reason, reason # "completed"
        PROVE  FileInv'
    <3>1. ended' # Finished
      BY <1>0, <2>2
    <3> QED BY <2>2, <3>1 DEF FileInv, RowsWritten, FinishedFileIsComplete
  <2>3. ASSUME NEW n \in RowOptions, RunMisused(n)
        PROVE  FileInv'
    BY <2>2, <2>3 DEF RunMisused, EndsWith
  <2>4. RunRefused \/ NoWorkspace => FileInv'
    BY <2>2 DEF RunRefused, NoWorkspace, EndsWith
  <2> QED BY <1>2, <2>1, <2>3, <2>4 DEF RunBegun
<1>3. ASSUME pc' = "ended", ended'.reason # "completed"
      PROVE  FileInv'
  <2>1. ended' # Finished
    BY <1>0, <1>3
  <2> QED BY <1>3, <2>1 DEF FileInv, RowsWritten, FinishedFileIsComplete
<1>4. ASSUME NEW reason, reason # "completed", Throws(reason) \/ LogsAndThrows(reason)
      PROVE  FileInv'
  <2>1. pc' = "ended" /\ ended' = [exit |-> ExitFailure, reason |-> reason]
    BY <1>4, Zenon DEF Throws, LogsAndThrows, EndsWith
  <2> QED BY <1>3, <1>4, <2>1
<1>5. CASE FileStep
  <2>1. EstimateFails \/ (\E reason \in {"declined", "open"} : NotOpened(reason))
        \/ GeneratorThrows => FileInv'
    BY <1>4 DEF EstimateFails, NotOpened, GeneratorThrows
  <2>2. Kill => FileInv'
    BY <1>3 DEF Kill, EndsWith
  <2>3. CASE OpenFile
    <3>1. /\ pc = "estimating" /\ pc' = "writing" /\ content' = Opening(cfg.file)
          /\ UNCHANGED <<cfg, good, generated, ended>>
      BY <2>3 DEF OpenFile
    <3>2. generated = 0 /\ good /\ ended = NotEnded /\ cfg.type # "database" /\ cfg.rows # 0
      BY <3>1 DEF FileInv
    <3>3. content' = Opening(cfg.file) \o RowPart(cfg.file, 0)
      BY <3>1, NoRowsYet
    <3> QED BY <1>0, <3>1, <3>2, <3>3 DEF FileInv, RowsWritten, FinishedFileIsComplete
  <2>4. CASE WriteRow
    <3>1. /\ pc = "writing" /\ pc' = "writing" /\ UNCHANGED <<cfg, ended>>
          /\ generated' = generated + 1
          /\ good' => good /\ content' = content \o RowTokens(cfg.file, generated)
      BY <2>4 DEF WriteRow
    <3>2. generated \in Nat
      BY <3>1 DEF TypeInv, OutTypes, RunTypes
    <3>3. ended = NotEnded /\ cfg.type # "database" /\ cfg.rows # 0
      BY <3>1 DEF FileInv
    <3>4. ASSUME good'
          PROVE  content' = Opening(cfg.file) \o RowPart(cfg.file, generated + 1)
      <4>1. content = Opening(cfg.file) \o RowPart(cfg.file, generated)
        BY <3>1, <3>4 DEF FileInv, RowsWritten
      <4> QED BY <3>1, <3>2, <3>4, <4>1, RowAdded
    <3> QED BY <1>0, <3>1, <3>3, <3>4 DEF FileInv, RowsWritten, FinishedFileIsComplete
  <2>5. CASE FinishFile
    <3> DEFINE file == cfg.file
               n == cfg.rows
    <3>1. /\ pc = "writing" /\ generated = n /\ UNCHANGED cfg /\ good' \in {good, FALSE}
          /\ content' = IF good THEN content \o Closing(file) ELSE content
          /\ good' => disk' = content'
      BY <2>5 DEF FinishFile
    <3>2. n \in Nat \ {0} /\ cfg.type # "database" /\ PreviewFile(cfg) = file
      BY <3>1 DEF TypeInv, RunTypes, FileInv, PreviewFile
    <3>3. CASE good'
      <4>1. good
        BY <3>1, <3>3
      <4>2. content = Opening(file) \o RowPart(file, n)
        BY <3>1, <4>1 DEF FileInv, RowsWritten
      <4>3. disk' = Opening(file) \o RowPart(file, n) \o Closing(file)
        BY <3>1, <3>3, <4>1, <4>2
      <4>4. disk' = WholeFile(file, n) /\ IsWholeFile(file, WholeFile(file, n), n)
        BY <3>2, <4>3, WholeIsWhole
      <4>5. Previewed(cfg, n) = WholeFile(file, n)
        BY <3>2 DEF Previewed
      <4>6. disk' = Previewed(cfg, n) /\ IsWholeFile(file, disk', n)
        BY <4>4, <4>5
      <4>7. pc' = "ended"
        BY <2>5 DEF FinishFile, Throws, EndsWith
      <4> QED BY <3>1, <4>6, <4>7 DEF FileInv, RowsWritten, FinishedFileIsComplete
    <3>4. CASE ~good'
      <4>1. Throws("flush")
        BY <2>5, <3>4 DEF FinishFile
      <4> QED BY <1>4, <4>1
    <3> QED BY <3>3, <3>4
  <2> QED BY <1>5, <2>1, <2>2, <2>3, <2>4, <2>5 DEF FileStep
<1>6. CASE ConnectStep
  <2>1. CASE NoConnection \/ NoTable \/ NoColumn \/ DeleteFails \/ NoUpsertKey
    <3>1. PICK reason \in {"connection", "metadata", "column", "delete", "upsert key"} :
              SetUpFails(reason)
      BY <2>1 DEF NoConnection, NoTable, NoColumn, DeleteFails, NoUpsertKey
    <3> QED BY <1>4, <3>1 DEF SetUpFails
  <2>2. CASE SchemaMisfit
    BY <1>3, <2>2 DEF SchemaMisfit, EndsWith
  <2>3. CASE StartImport
    <3>1. pc = "connecting" /\ pc' = "importing" /\ UNCHANGED <<cfg, ended>>
      BY <2>3 DEF StartImport
    <3>2. ended = NotEnded /\ cfg.type = "database"
      BY <3>1 DEF FileInv
    <3> QED BY <1>0, <3>1, <3>2 DEF FileInv, RowsWritten, FinishedFileIsComplete
  <2> QED BY <1>6, <2>1, <2>2, <2>3 DEF ConnectStep
<1>7. CASE ImportStep
  <2>1. /\ pc = "importing" /\ pc' \in {"importing", "ended"} /\ UNCHANGED cfg
        /\ pc' = "importing" => UNCHANGED ended
    BY <1>7 DEF ImportStep, ImportError, ImportReturns, ImportThrows, Throws, EndsWith
  <2>2. ended = NotEnded /\ cfg.type = "database"
    BY <2>1 DEF FileInv
  <2> QED BY <1>0, <2>1, <2>2 DEF FileInv, RowsWritten, FinishedFileIsComplete
<1> QED BY <1>1, <1>2, <1>5, <1>6, <1>7, StepKinds

LEMMA FileInvariant == Spec => []FileInv
  BY InitialFile, FileInvStep, TypeInvariant, PTL DEF Spec

(* A run that reports success has written the whole file: what the preview *)
(* of as many rows shows, every row once and in order, between the         *)
(* brackets and commas of its format.                                      *)
THEOREM FinishedFileIsCompleteHolds == Spec => []FinishedFileIsComplete
<1>1. FileInv => FinishedFileIsComplete
  BY DEF FileInv
<1> QED BY <1>1, FileInvariant, PTL

(* A run that fails once it has its logs leaves the reason in the error    *)
(* log, and logs no exception twice; a run that succeeds has logged only   *)
(* errors of batches that its policy let it skip.                          *)
THEOREM FailureIsToldHolds == Spec => []FailureIsTold
<1>1. TypeInv => FieldsCounted
  BY DEF TypeInv, RunTypes, Counted, FieldsCounted
<1>2. LogInv => (FieldsCounted => FailureIsTold)
  BY DEF LogInv
<1> QED BY <1>1, <1>2, LogInvariant, TypeInvariant, PTL

(* The reader accepts every document that the schema admits, if its whole  *)
(* numbers are written as integers that an int can hold and it has none of *)
(* the keys that only the schema knows.                                    *)
THEOREM SchemaImpliesCheckHolds == Spec => []SchemaImpliesCheck
<1>1. Generators # {}
  BY TemplatesAreUsable
<1>2. TypeInv => SchemaImpliesCheck
  BY <1>1, AdmittedIsAccepted DEF SchemaImpliesCheck, PlainNumbers, Plain, TypeInv, DocumentTypes
<1> QED BY <1>2, TypeInvariant, PTL

(***************************************************************************)
(* What init writes.                                                       *)
(***************************************************************************)
TemplateDocuments ==
    {FileDocument(format, table) : format \in OutputFormats, table \in TableNames}
    \cup {DatabaseDocument(connection, table) :
             connection \in {Connection, Example}, table \in TableNames}
InferredDocuments(table) ==
    {InferredDocument(Connection, table, generators) : generators \in GeneratorChoices(table)}
WrittenInv ==
    /\ origin = "template" => document \in TemplateDocuments
    /\ origin = "inference" => \E table \in Tables : document \in InferredDocuments(table)

(***************************************************************************)
(* What init writes is accepted, admitted and constructed.                 *)
(***************************************************************************)
LEMMA WellWrittenIsUsable ==
    ASSUME NEW doc, WellWritten(doc)
    PROVE  /\ SchemaAdmits(doc) /\ Accepted(doc, "Require")
           /\ \A i \in DOMAIN doc.fields : Collected(doc.fields[i])
<1> DEFINE root == doc.root
           fields == doc.fields
<1>1. IsDocument(doc) /\ Ready(root) /\ GoodFields(fields)
  BY DEF WellWritten
<1>2. DOMAIN fields = 1 .. Len(fields) /\ Len(fields) \in Nat \ {0}
  BY <1>1 DEF IsDocument, GoodFields
<1>3. ASSUME NEW i \in DOMAIN fields
      PROVE  /\ IsTree(fields[i]) /\ FieldAdmitted(fields[i])
             /\ Keys(fields[i], <<>>) \cap {"supports_unique", "supports_group"} = {}
  <2>1. PICK g \in Generators : MadeFor(fields[i], g)
    BY <1>1, <1>2 DEF GoodFields
  <2> DEFINE field == fields[i]
  <2> HIDE DEF field
  <2>2. MadeFor(field, g)
    BY <2>1 DEF field
  <2>3. /\ IsTree(field) /\ FieldAdmitted(field)
        /\ Keys(field, <<>>) \cap {"supports_unique", "supports_group"} = {}
    BY <2>2, MadeForIsRight
  <2> QED BY <2>3 DEF field
<1>4. fields # <<>>
  BY <1>2
<1>5. SchemaAdmits(doc)
  BY <1>1, <1>3, <1>4 DEF SchemaAdmits, Ready
<1>6. Generators # {}
  BY TemplatesAreUsable
<1>7. \A p \in DOMAIN root : Plain(root[p])
  BY <1>1 DEF Ready, PlainNumbers, Plain
<1>8. Accepted(doc, "Allow")
  BY <1>1, <1>3, <1>5, <1>6, <1>7, AdmittedIsAccepted
<1>9. Accepted(doc, "Require")
  BY <1>1, <1>8, AllowedIsRequired DEF Ready
<1>10. ASSUME NEW i \in DOMAIN fields
       PROVE  Collected(fields[i])
  BY <1>3, <1>6, FieldIsRead
<1> QED BY <1>5, <1>9, <1>10

(* The options of a field are the standard ones, where it has them.        *)
IsStandard(field) ==
    \A p \in OptionNames : Given(field, p) => Param(field, p) = StandardOptions[p]

LEMMA FittingIsStandard ==
    ASSUME NEW name, NEW g, NEW config, TemplateFits(g, config), NEW unique, NEW nth,
           NEW field, field = MadeField(name, g, config, unique, nth)
    PROVE  IsStandard(field)
<1>1. AreMembers(config)
  BY FitsAreMembers
<1>2. HasKeys(field, g, config)
  BY <1>1, KeysMade, Zenon
<1>3. HasBasics(field, name, g, config)
  BY <1>1, MadeFieldShape, Zenon
<1>4. IsTree(field)
  BY <1>1, MadeFieldShape, Zenon
<1>5. ASSUME NEW p \in OptionNames, Given(field, p)
      PROVE  Param(field, p) = StandardOptions[p]
  <2>1. IsPath(ConfigPath) /\ Append(ConfigPath, p) = <<"config", p>>
    BY ShortPaths DEF ConfigPath
  <2>2. p \in Keys(field, ConfigPath)
    BY <1>4, <1>5, <2>1, KeysOf DEF Given
  <2>3. p \in DOMAIN config
    BY <1>2, <2>2 DEF HasKeys
  <2>4. field[<<"config", p>>] = config[p]
    BY <1>3, <2>3 DEF HasBasics
  <2>5. Standard(p, config[p])
    BY <2>3, Zenon DEF TemplateFits, Fit
  <2> QED BY <2>4, <2>5 DEF Standard, Param
<1> QED BY <1>5 DEF IsStandard

(* Fields whose options are standard agree, and so does a field with       *)
(* itself.                                                                 *)
LEMMA StandardAgree ==
    ASSUME NEW specs,
           \A i, j \in DOMAIN specs : Linked(specs[i], specs[j]) =>
               i = j \/ (IsStandard(specs[i].raw) /\ IsStandard(specs[j].raw))
    PROVE  GroupsAgree(specs)
<1>1. ASSUME NEW i \in DOMAIN specs, NEW j \in DOMAIN specs, Linked(specs[i], specs[j]),
             NEW p \in OptionNames, Merges(specs[i], p), Merges(specs[j], p)
      PROVE  Merged(specs[i], p) = Merged(specs[j], p)
  <2>1. CASE i = j
    BY <2>1
  <2>2. CASE IsStandard(specs[i].raw) /\ IsStandard(specs[j].raw)
    <3>1. Given(specs[i].raw, p) /\ Given(specs[j].raw, p)
      BY <1>1 DEF Merges
    <3>2. Param(specs[i].raw, p) = Param(specs[j].raw, p)
      BY <2>2, <3>1 DEF IsStandard
    <3> QED BY <3>2 DEF Merged
  <2> QED BY <1>1, <2>1, <2>2
<1> QED BY <1>1 DEF GroupsAgree

(* The generators accept fields that were made for them and agree.         *)
LEMMA MadeConstruct ==
    ASSUME NEW doc, WellWritten(doc), GroupsAgree(FieldSpecs(doc))
    PROVE  Constructs(FieldSpecs(doc))
<1> DEFINE specs == FieldSpecs(doc)
<1>1. /\ DOMAIN specs = DOMAIN doc.fields
      /\ \A i \in DOMAIN doc.fields : specs[i] = FieldSpec(doc.fields[i])
  BY WellWrittenIsUsable, SpecsOf DEF WellWritten
<1>2. DOMAIN doc.fields = 1 .. Len(doc.fields)
  BY DEF WellWritten, IsDocument
<1>3. ASSUME NEW i \in DOMAIN doc.fields
      PROVE  FieldConstructs(specs[i].raw, specs[i].generator)
  <2> DEFINE field == doc.fields[i]
  <2>1. PICK g \in Generators : MadeFor(field, g)
    BY <1>2 DEF WellWritten, GoodFields
  <2>2. specs[i] = FieldSpec(field)
    BY <1>1
  <2> HIDE DEF field, specs
  <2>3. FieldConstructs(field, g) /\ field[<<"generator">>].text = g
    BY <2>1, MadeForIsRight
  <2>4. specs[i].raw = field /\ specs[i].generator = g
    BY <2>2, <2>3 DEF FieldSpec
  <2> QED BY <2>3, <2>4
<1> HIDE DEF specs
<1>4. \A i \in DOMAIN specs : FieldConstructs(specs[i].raw, specs[i].generator)
  BY <1>1, <1>3
<1> QED BY <1>4 DEF Constructs, specs

(***************************************************************************)
(* Inferred fields.                                                        *)
(***************************************************************************)
LEMMA InferredStandard ==
    ASSUME NEW table, IsTable(table), NEW generators \in GeneratorChoices(table),
           NEW i \in DOMAIN table.columns
    PROVE  IsStandard(InferredFields(table, generators)[i])
<1> DEFINE column == table.columns[i]
           g == generators[i]
           unique == column.auto_increment \/ {column.name} \in table.keys
           nth == NthWith(generators, i)
           field == InferredFields(table, generators)[i]
           config == Configured(column, g)
<1>1. IsColumn(column) /\ g \in Generators
  BY InferredFieldsAre DEF IsTable
<1>2. TemplateFits(g, config)
  BY <1>1, ConfiguredIsUsable
<1>3. field = InferredField(column, g, unique, nth)
  BY DEF InferredFields
<1>4. field = MadeField(column.name, g, config, unique, nth)
  BY <1>3, InferredIsMade
<1> HIDE DEF field, config, unique, nth, g
<1>5. IsStandard(field)
  BY <1>2, <1>4, FittingIsStandard, Zenon
<1> QED BY <1>5 DEF field, config, unique, nth, g

(***************************************************************************)
(* The fields of a template.                                               *)
(***************************************************************************)
LEMMA TemplateStandard == IsStandard(TemplateFields[2]) /\ IsStandard(TemplateFields[3])
<1>1. TemplateFits("company_name", Translated) /\ TemplateFits("industry", EnglishOnly)
  BY TemplatesAreUsable, TemplateIsUsable, SomeEntries
<1> DEFINE a == TemplateFields[2]
           b == TemplateFields[3]
<1>2. /\ a = MadeField("company_name", "company_name", Translated, FALSE, 1)
      /\ b = MadeField("industry", "industry", EnglishOnly, FALSE, 1)
  BY TemplateFieldsShape
<1> HIDE DEF a, b
<1>3. IsStandard(a) /\ IsStandard(b)
  BY <1>1, <1>2, FittingIsStandard, Zenon
<1> QED BY <1>3 DEF a, b

LEMMA TemplateModules ==
    /\ "sequence" \notin LinkedGenerators
    /\ Module("company_name") = "business" /\ Module("industry") = "business"
    /\ Module("email") = "person"
    /\ {"sequence", "company_name", "industry", "email"} \cap ComputerGenerators = {}
  BY DEF LinkedGenerators, Module, LocationGenerators, BusinessGenerators, ComputerGenerators,
         PaymentGenerators, PersonGenerators

LEMMA TemplateWorks ==
    ASSUME NEW doc, WellWritten(doc), doc.fields = TemplateFields, NEW rows
    PROVE  RowsWork(FieldSpecs(doc), rows)
<1> DEFINE specs == FieldSpecs(doc)
<1>1. /\ DOMAIN specs = DOMAIN doc.fields
      /\ \A i \in DOMAIN doc.fields : specs[i] = FieldSpec(doc.fields[i])
  BY WellWrittenIsUsable, SpecsOf DEF WellWritten
<1> HIDE DEF specs
<1>2. DOMAIN specs = {1, 2, 3, 4}
  BY <1>1, TemplateFieldsShape
<1>3. ASSUME NEW i \in {1, 2, 3, 4}
      PROVE  specs[i].raw = TemplateFields[i] /\ specs[i].generator = TemplateGenerators[i]
  <2> DEFINE field == TemplateFields[i]
             g == TemplateGenerators[i]
  <2>1. MadeFor(field, g) /\ g \in Generators
    BY TemplateFieldsAre, TemplateFieldsShape
  <2>2. specs[i] = FieldSpec(field)
    BY <1>1, <1>2
  <2> HIDE DEF field, g
  <2>3. field[<<"generator">>].text = g
    BY <2>1, MadeForIsRight
  <2>4. specs[i].raw = field /\ specs[i].generator = g
    BY <2>2, <2>3 DEF FieldSpec
  <2> QED BY <2>4 DEF field, g
<1>4. /\ specs[1].generator = "sequence" /\ specs[2].generator = "company_name"
      /\ specs[3].generator = "industry" /\ specs[4].generator = "email"
      /\ specs[2].raw = TemplateFields[2] /\ specs[3].raw = TemplateFields[3]
  BY <1>3 DEF TemplateGenerators
<1>5. ASSUME NEW i \in DOMAIN specs, NEW j \in DOMAIN specs, Linked(specs[i], specs[j])
      PROVE  i = j \/ (IsStandard(specs[i].raw) /\ IsStandard(specs[j].raw))
  <2>1. specs[i].generator # "sequence" /\ specs[j].generator # "sequence"
    BY <1>5, TemplateModules DEF Linked
  <2>2. Module(specs[i].generator) = Module(specs[j].generator)
    BY <1>5 DEF Linked
  <2>3. i \in {2, 3, 4} /\ j \in {2, 3, 4}
    BY <1>2, <1>4, <2>1
  <2>4. CASE i \in {2, 3} /\ j \in {2, 3}
    BY <1>4, <2>4, TemplateStandard
  <2>5. CASE i = 4 \/ j = 4
    <3>1. Module(specs[2].generator) = "business" /\ Module(specs[3].generator) = "business"
          /\ Module(specs[4].generator) = "person"
      BY <1>4, TemplateModules
    <3> QED BY <2>2, <2>3, <2>5, <3>1
  <2> QED BY <2>3, <2>4, <2>5
<1>6. GroupsAgree(specs)
  BY <1>5, StandardAgree
<1>7. Constructs(specs)
  BY <1>6, MadeConstruct DEF specs
<1>8. \A i \in DOMAIN specs : specs[i].generator \notin ComputerGenerators
  BY <1>2, <1>4, TemplateModules
<1> QED BY <1>7, <1>8 DEF RowsWork, NeedsContext, specs

LEMMA InferredConstructs ==
    ASSUME NEW table, IsTable(table), NEW generators \in GeneratorChoices(table),
           NEW doc, WellWritten(doc),
           doc.fields = IF table.columns = <<>> THEN TemplateFields
                        ELSE InferredFields(table, generators)
    PROVE  Constructs(FieldSpecs(doc))
<1>1. CASE table.columns = <<>>
  BY <1>1, TemplateWorks DEF RowsWork
<1>2. CASE table.columns # <<>>
  <2> DEFINE specs == FieldSpecs(doc)
             fields == InferredFields(table, generators)
  <2>1. /\ DOMAIN specs = DOMAIN doc.fields
        /\ \A i \in DOMAIN doc.fields : specs[i] = FieldSpec(doc.fields[i])
    BY WellWrittenIsUsable, SpecsOf DEF WellWritten
  <2>2. doc.fields = fields /\ DOMAIN fields = DOMAIN table.columns
    BY <1>2 DEF InferredFields
  <2>3. \A i \in DOMAIN table.columns : IsStandard(fields[i])
    BY InferredStandard
  <2> HIDE DEF specs, fields
  <2>4. \A i \in DOMAIN specs : specs[i].raw = fields[i]
    <3>1. ASSUME NEW i \in DOMAIN specs
          PROVE  specs[i].raw = fields[i]
      <4> DEFINE field == fields[i]
      <4>1. specs[i] = FieldSpec(field)
        BY <2>1, <2>2
      <4> HIDE DEF field
      <4>2. specs[i].raw = field
        BY <4>1 DEF FieldSpec
      <4> QED BY <4>2 DEF field
    <3> QED BY <3>1
  <2>5. \A i, j \in DOMAIN specs : IsStandard(specs[i].raw) /\ IsStandard(specs[j].raw)
    BY <2>1, <2>2, <2>3, <2>4
  <2>6. GroupsAgree(specs)
    BY <2>5, StandardAgree
  <2> QED BY <2>6, MadeConstruct DEF specs
<1> QED BY <1>1, <1>2

(***************************************************************************)
(* What init wrote is in the file until its author changes it.             *)
(***************************************************************************)
LEMMA InitialWriting == Init => WrittenInv
  BY DEF Init, WrittenInv

LEMMA WritingStep ==
    ASSUME WrittenInv, [Next]_vars
    PROVE  WrittenInv'
<1>1. CASE UNCHANGED <<document, origin>>
  BY <1>1 DEF WrittenInv, TemplateDocuments, InferredDocuments
<1>2. CASE origin' = "author"
  BY <1>2 DEF WrittenInv
<1>3. ASSUME document' \in TemplateDocuments, origin' = "template"
      PROVE  WrittenInv'
  BY <1>3 DEF WrittenInv
<1>4. ASSUME NEW format \in OutputFormats, NEW table \in TableNames, InitFile(format, table)
      PROVE  WrittenInv'
  <2>1. document' = FileDocument(format, table) /\ origin' = "template"
    BY <1>4 DEF InitFile, Write
  <2>2. document' \in TemplateDocuments
    BY <2>1 DEF TemplateDocuments
  <2> QED BY <1>3, <2>1, <2>2
<1>5. ASSUME NEW connection \in {Connection, Example}, NEW table \in TableNames,
             InitDatabase(connection, table)
      PROVE  WrittenInv'
  <2>1. document' = DatabaseDocument(connection, table) /\ origin' = "template"
    BY <1>5 DEF InitDatabase, Write
  <2>2. document' \in TemplateDocuments
    BY <2>1 DEF TemplateDocuments
  <2> QED BY <1>3, <2>1, <2>2
<1>6. ASSUME NEW table \in Tables, NEW generators \in GeneratorChoices(table),
             InitFromTable(table, generators)
      PROVE  WrittenInv'
  <2>1. document' = InferredDocument(Connection, table, generators) /\ origin' = "inference"
    BY <1>6 DEF InitFromTable, Write
  <2>2. document' \in InferredDocuments(table)
    BY <2>1 DEF InferredDocuments
  <2> QED BY <2>1, <2>2 DEF WrittenInv
<1>7. ASSUME NEW doc, Edit(doc)
      PROVE  WrittenInv'
  BY <1>2, <1>7 DEF Edit
<1>8. ASSUME NEW changes \in RootEdits, EditRoot(changes)
      PROVE  WrittenInv'
  BY <1>7, <1>8, Zenon DEF EditRoot
<1>9. ASSUME NEW e \in FieldEdits, EditField(e[1], e[2], e[3])
      PROVE  WrittenInv'
  BY <1>7, <1>9, Zenon DEF EditField
<1>10. ASSUME NEW e \in FieldSwaps, WriteField(e[1], e[2])
      PROVE  WrittenInv'
  BY <1>7, <1>10, Zenon DEF WriteField
<1>11. CheckRefuses \/ CheckPasses => UNCHANGED <<document, origin>>
  BY DEF CheckRefuses, CheckPasses, Check
<1>12. RunBegun => UNCHANGED <<document, origin>>
  BY DEF RunBegun, RunRefused, NoWorkspace, RunMisused, RunBegins, RunStarts, fileVars
<1>13. FileStep => UNCHANGED <<document, origin>>
  BY DEF FileStep, EstimateFails, NotOpened, OpenFile, WriteRow, GeneratorThrows, FinishFile, Kill,
         fileVars
<1>14. ConnectStep => UNCHANGED <<document, origin>>
  BY DEF ConnectStep, NoConnection, NoTable, NoColumn, SchemaMisfit, DeleteFails, NoUpsertKey,
         SetUpFails, StartImport, fileVars
<1>15. ImportStep => UNCHANGED <<document, origin>>
  BY DEF ImportStep, ImportError, ImportReturns, ImportThrows, fileVars
<1>16. UNCHANGED vars => UNCHANGED <<document, origin>>
  BY DEF vars, fileVars
<1> HIDE DEF WrittenInv
<1> QED BY <1>1, <1>4, <1>5, <1>6, <1>8, <1>9, <1>10, <1>11, <1>12, <1>13, <1>14, <1>15, <1>16,
           Zenon
        DEF Next, RunBegun, FileStep, ConnectStep, ImportStep

LEMMA WrittenInvariant == Spec => []WrittenInv
  BY InitialWriting, WritingStep, PTL DEF Spec

LEMMA TemplateIsUsed ==
    ASSUME NEW doc \in TemplateDocuments
    PROVE  WellWritten(doc) /\ \A rows : RowsWork(FieldSpecs(doc), rows)
<1>1. ASSUME NEW format \in OutputFormats, NEW table \in TableNames,
             doc = FileDocument(format, table)
      PROVE  WellWritten(doc) /\ doc.fields = TemplateFields
  <2>1. WellWritten(doc)
    BY <1>1, FileDocumentIsGood
  <2>2. doc.fields = TemplateFields
    BY <1>1 DEF FileDocument
  <2> QED BY <2>1, <2>2
<1>2. ASSUME NEW connection \in {Connection, Example}, NEW table \in TableNames,
             doc = DatabaseDocument(connection, table)
      PROVE  WellWritten(doc) /\ doc.fields = TemplateFields
  <2>1. WellWritten(doc)
    BY <1>2, DatabaseWritten
  <2>2. doc.fields = TemplateFields
    BY <1>2 DEF DatabaseDocument
  <2> QED BY <2>1, <2>2
<1>3. WellWritten(doc) /\ doc.fields = TemplateFields
  BY <1>1, <1>2 DEF TemplateDocuments
<1> QED BY <1>3, TemplateWorks

LEMMA InferredIsUsed ==
    ASSUME NEW table \in Tables, NEW doc \in InferredDocuments(table)
    PROVE  WellWritten(doc) /\ Constructs(FieldSpecs(doc))
<1>1. PICK generators \in GeneratorChoices(table) :
          doc = InferredDocument(Connection, table, generators)
  BY DEF InferredDocuments
<1>2. WellWritten(doc)
  BY <1>1, InferredWritten DEF WrittenFor
<1>3. doc.fields = IF table.columns = <<>> THEN TemplateFields
                   ELSE InferredFields(table, generators)
  BY <1>1 DEF InferredDocument
<1>4. IsTable(table)
  BY TablesAssumption
<1> QED BY <1>2, <1>3, <1>4, InferredConstructs

(* Every document that init writes is accepted by run, admitted by the     *)
(* schema and accepted by the generators, for every table of the database  *)
(* and every choice of generators for its columns; a template can also be  *)
(* generated as it is.                                                     *)
THEOREM InitIsUsableHolds == Spec => []InitIsUsable
<1>1. WrittenInv => InitIsUsable
  <2>1. ASSUME WrittenInv, origin = "template"
        PROVE  InitIsUsable
    <3>1. document \in TemplateDocuments
      BY <2>1 DEF WrittenInv
    <3>2. WellWritten(document) /\ \A rows : RowsWork(FieldSpecs(document), rows)
      BY <3>1, TemplateIsUsed
    <3>3. SchemaAdmits(document) /\ Accepted(document, "Require")
      BY <3>2, WellWrittenIsUsable
    <3>4. Constructs(FieldSpecs(document))
      BY <3>2 DEF RowsWork
    <3> QED BY <3>2, <3>3, <3>4 DEF InitIsUsable
  <2>2. ASSUME WrittenInv, origin = "inference"
        PROVE  InitIsUsable
    <3>1. PICK table \in Tables : document \in InferredDocuments(table)
      BY <2>2 DEF WrittenInv
    <3>2. WellWritten(document) /\ Constructs(FieldSpecs(document))
      BY <3>1, InferredIsUsed
    <3>3. SchemaAdmits(document) /\ Accepted(document, "Require")
      BY <3>2, WellWrittenIsUsable
    <3> QED BY <2>2, <3>2, <3>3 DEF InitIsUsable
  <2>3. ASSUME origin \notin {"template", "inference"}
        PROVE  InitIsUsable
    BY <2>3 DEF InitIsUsable
  <2> QED BY <2>1, <2>2, <2>3
<1> QED BY <1>1, WrittenInvariant, PTL

(* A field that init has inferred from the type of its column alone passes *)
(* the schema validator of the import, and every value it yields converts  *)
(* to the column: for every table and every column, unless its type is one *)
(* of bytes.  That names differ is needed: of two columns whose names      *)
(* differ in their case only, the validator takes the last one for both.   *)
THEOREM InferredFieldsFitHolds ==
    ASSUME NamesDiffer
    PROVE  Spec => []InferredFieldsFit
<1>1. WrittenInv => InferredFieldsFit
  <2>1. ASSUME WrittenInv, origin = "inference", NEW table \in Tables,
               table.name = DatabaseOutput(document.root).table, NEW i \in DOMAIN table.columns,
               NamedGenerators(table.columns[i]) = {}, Family(table.columns[i]) # "Binary"
        PROVE  /\ SchemaFits(<<FieldSpec(document.fields[i])>>, table.columns)
               /\ \A v \in Yields(document.fields[i]) : Converts(table.columns[i], v)
    <3>0. PICK t \in Tables : document \in InferredDocuments(t)
      BY <2>1 DEF WrittenInv
    <3>1. PICK generators \in GeneratorChoices(t) :
              document = InferredDocument(Connection, t, generators)
      BY <3>0 DEF InferredDocuments
    <3>2. WrittenFor(document, t.name)
      BY <3>1, InferredWritten
    <3>3. t = table
      BY <2>1, <3>2 DEF WrittenFor, NamesDiffer
    <3>4. table.columns # <<>>
      BY <2>1
    <3>5. document.fields = InferredFields(table, generators)
      BY <3>1, <3>3, <3>4 DEF InferredDocument
    <3>6. ColumnsDiffer(table) /\ generators \in GeneratorChoices(table)
      BY <3>1, <3>3 DEF NamesDiffer
    <3> DEFINE field == document.fields[i]
    <3>7. field = InferredFields(table, generators)[i]
      BY <3>5
    <3> HIDE DEF field
    <3>8. /\ SchemaFits(<<FieldSpec(field)>>, table.columns)
          /\ \A v \in Yields(field) : Converts(table.columns[i], v)
      BY <2>1, <3>6, <3>7, FieldFits
    <3> QED BY <3>8 DEF field
  <2> QED BY <2>1 DEF InferredFieldsFit
<1> QED BY <1>1, WrittenInvariant, PTL
=============================================================================
