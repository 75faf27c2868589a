-------------------------- MODULE MainWindowProofs --------------------------
(***************************************************************************)
(* Proofs about MainWindow for any passphrases, paths, key files and forms *)
(* and any number of phases and of changes by the user.                    *)
(***************************************************************************)
EXTENDS MainWindow, TLAPS, SequenceTheorems, FiniteSetTheorems

----------------------------------------------------------------------------
(* The values the variables may have. *)

EForms == EncryptForms \cup {DefaultEncryptForm}
DForms == DecryptForms \cup {DefaultDecryptForm}

\* Everything the fields and dialogs may say together.
Applications == {ApplyEncrypt(e) : e \in EForms} \cup {ApplyDecrypt(d) : d \in DForms}
OptionSet ==
    [mode : {"encrypt", "decrypt"}, input : Inputs \cup {""}, keyfiles : Seq(Keyfiles),
     form : {a.form : a \in Applications}, parse_errors : BOOLEAN]

\* What the preview thread is asked, what it posts, and what is cached of it.
Request(o) == [options |-> o, key |-> MakePreviewKey(o)]
PreviewEvent(o) == [type |-> "preview", key |-> MakePreviewKey(o), result |-> GeneratePreview(o)]
Entry(o) == [key |-> MakePreviewKey(o), result |-> GeneratePreview(o)]
Event == {[type |-> "progress"]} \cup {Done(ok) : ok \in BOOLEAN}
             \cup {PreviewEvent(o) : o \in OptionSet}

FieldsOK ==
    /\ input \in Inputs \cup {""} /\ keyfiles \in Seq(Keyfiles)
    /\ eform \in EForms /\ dform \in DForms
    /\ dialog = "advanced" => \E e \in EForms, d \in DForms : saved = <<e, d>>

PreviewOK ==
    /\ scan # << >> => \E o \in OptionSet : scan = <<Request(o)>>
    /\ cache # << >> => \E o \in OptionSet : cache = <<Entry(o)>>
    /\ events \in Seq(Event)

\* What was asked about o and answered covers all that needs confirmation.
Agreed(o, answers) ==
    /\ ValidOptions(o, supported)
    /\ \A q \in Questions(o, supported) : [question |-> q, options |-> o] \in answers

\* The worker runs agreed options, with a passphrase that was accepted.
JobOK ==
    job # << >> =>
        \E o \in OptionSet, p \in Usable, n \in 0..Phases :
            /\ job = <<Operation(ToCoreParams(o), p, n, job[1].confirmed)>>
            /\ Agreed(o, job[1].confirmed)

TypedInv == TypeOK /\ FieldsOK /\ PreviewOK /\ JobOK

----------------------------------------------------------------------------
(* onRun() and the modal dialogs. *)

\* While onRun() is under way nothing else is, the options are valid and do
\* not change, and what was confirmed was confirmed for them; the dialog of
\* advanced options excludes a run and an operation.
RunInv ==
    /\ run # "idle" =>
           /\ window \in {"open", "crashed"} /\ ~running
           /\ ValidOptions(Options, supported)
           /\ \A a \in asked : a = [question |-> a.question, options |-> Options]
    /\ run \in {"lock", "secrets"} => Agreed(Options, asked) /\ dialog = "none"
    /\ dialog = "advanced" => run = "idle" /\ ~running

(* The two threads, the events they post and the flags of the window. *)

\* Phases apart, no two events of a sequence have the same type.
PostedOnce(s) ==
    \A i, j \in DOMAIN s : s[i].type = s[j].type /\ s[i].type # "progress" => i = j

\* At most one outcome and at most one preview are posted, each after its
\* thread has ended.
EventsInv ==
    /\ PostedOnce(events)
    /\ Posted("done") => job = << >>
    /\ Posted("preview") => scan = << >>

FlagsInv ==
    /\ window # "gone" => /\ running <=> job # << >> \/ Posted("done")
                          /\ enabled = ~running
                          /\ toggle = (~running /\ ~previewRunning)
    /\ window \in {"open", "closing"} => (previewRunning <=> scan # << >> \/ Posted("preview"))
    /\ window = "closing" => ~running
    /\ window = "gone" => job = << >> /\ scan = << >> /\ events = << >>

\* Whatever is being previewed, posted or shown is of the current mode,
\* unless the mode was switched meanwhile.
ScanOfMode == scan # << >> => scan[1].options.mode = mode
PostedOfMode == \A i \in DOMAIN events : events[i].type = "preview" => events[i].result.says = mode
ShownOfMode == IsResult => shown[1].says = mode
ModeInv == ~crossed => ScanOfMode /\ PostedOfMode /\ ShownOfMode

WindowInv == TypedInv /\ RunInv /\ EventsInv /\ FlagsInv /\ SecretsTaken /\ ModeInv

----------------------------------------------------------------------------
(* Options and previews. *)

\* The options are what the fields say.
LEMMA OptionsTyped == TypeOK /\ FieldsOK => Options \in OptionSet
<1> SUFFICES ASSUME TypeOK, FieldsOK PROVE Options \in OptionSet
  OBVIOUS
<1>1. Applied \in Applications
  BY DEF FieldsOK, Applied, Applications
<1>2. Applied.parse_errors \in BOOLEAN
  <2>1. ApplyEncrypt(eform).parse_errors \in BOOLEAN /\ ApplyDecrypt(dform).parse_errors \in BOOLEAN
    BY DEF ApplyEncrypt, ApplyDecrypt
  <2> QED
    BY <2>1 DEF Applied
<1> QED
  BY <1>1, <1>2 DEF Options, OptionSet, TypeOK, FieldsOK

\* A preview is determined by the key it is stored under.
LEMMA SameKeySamePreview ==
    ASSUME NEW o, NEW p, MakePreviewKey(o) = MakePreviewKey(p)
    PROVE  GeneratePreview(o) = GeneratePreview(p)
<1>1. /\ o.mode = p.mode /\ o.input = p.input /\ Basenames(o.keyfiles) = Basenames(p.keyfiles)
      /\ o.form = p.form
  BY DEF MakePreviewKey
<1> QED
  BY <1>1 DEF GeneratePreview, CmdSummary

\* The shape of an event follows from its type.
LEMMA EventShapes ==
    ASSUME NEW e \in Event
    PROVE  /\ e.type \in {"progress", "done", "preview"}
           /\ e.type = "done" => e.ok \in BOOLEAN
           /\ e.type = "preview" => \E o \in OptionSet : e = PreviewEvent(o)
  BY DEF Event, Done, PreviewEvent

----------------------------------------------------------------------------
(* Types. *)

\* The window starts well typed.
LEMMA TypeInit == Init => TypedInv
<1> SUFFICES ASSUME Init PROVE TypedInv
  OBVIOUS
<1>1. TypeOK
  BY DEF Init, TypeOK
<1>2. FieldsOK
  <2>1. keyfiles \in Seq(Keyfiles)
    BY EmptySeq DEF Init
  <2> QED
    BY <2>1, Zenon DEF Init, FieldsOK, EForms, DForms
<1>3. PreviewOK /\ JobOK
  <2>1. events \in Seq(Event)
    BY EmptySeq DEF Init
  <2> QED
    BY <2>1, Zenon DEF Init, PreviewOK, JobOK
<1> QED
  BY <1>1, <1>2, <1>3 DEF TypedInv

\* A posted outcome finds no handler at work.
LEMMA OutcomeAlone ==
    ASSUME WindowInv, LoopRuns, events # << >>, Head(events).type = "done"
    PROVE  run = "idle" /\ running /\ dialog # "advanced" /\ job = << >>
<1>1. events \in Seq(Event)
  BY DEF WindowInv, TypedInv, PreviewOK
<1>2. 1 \in DOMAIN events /\ events[1] = Head(events)
  BY <1>1
<1>3. Posted("done")
  BY <1>2 DEF Posted
<1>4. running /\ job = << >>
  BY <1>3 DEF WindowInv, FlagsInv, EventsInv, LoopRuns
<1> QED
  BY <1>4 DEF WindowInv, RunInv

\* Dialogs, flags and phases keep their types.
LEMMA TypeStep == WindowInv /\ [Next]_vars => TypeOK'
<1> SUFFICES ASSUME WindowInv, [Next]_vars PROVE TypeOK'
  OBVIOUS
<1>0. TypeOK /\ RunInv /\ JobOK
  BY DEF WindowInv, TypedInv
<1> USE <1>0 DEF TypeOK, field_vars, run_vars, op_vars, preview_vars
<1>1. CASE TypeInput
  BY <1>1 DEF TypeInput, Edited, Counted, Ready, Kept
<1>2. CASE TypePassphrase
  BY <1>2 DEF TypePassphrase, Edited, Ready, Kept
<1>3. CASE TypeConfirmation
  BY <1>3 DEF TypeConfirmation, Edited, Ready, Kept
<1>4. CASE AddKeyfile
  BY <1>4 DEF AddKeyfile, Edited, Counted, Ready, Kept
<1>5. CASE RemoveKeyfile
  BY <1>5 DEF RemoveKeyfile, Edited, Counted, Ready, Kept
<1>6. CASE CheckLock
  BY <1>6 DEF CheckLock, Edited, Counted, Ready, Kept
<1>7. CASE SwitchMode
  BY <1>7 DEF SwitchMode, Edited, Counted, Ready
<1>8. CASE OpenAdvanced
  BY <1>8 DEF OpenAdvanced, Ready
<1>9. CASE EditAdvanced
  BY <1>9 DEF EditAdvanced, Alive
<1>10. CASE CloseAdvanced
  BY <1>10 DEF CloseAdvanced, Alive
<1>11. CASE Dismiss
  BY <1>11 DEF Dismiss, Alive
<1>12. CASE RunClicked
  BY <1>12 DEF RunClicked, Ready, AskNext, RunRest
<1>13. CASE Answer
  BY <1>13 DEF Answer, AskNext, RunRest, Alive
<1>14. CASE PreviewClicked
  BY <1>14 DEF PreviewClicked, Ready
<1>15. CASE CloseEvent
  BY <1>15 DEF CloseEvent, Ready
<1>16. CASE LockMemory
  BY <1>16 DEF LockMemory, RunRest, Alive
<1>17. CASE TakePassphrases
  <2>1. job' # << >> => job'[1].left \in 0..Phases
    <3>1. UNCHANGED job \/ StartOperation
      BY <1>17 DEF TakePassphrases
    <3>2. StartOperation => job'[1].left = Phases
      BY DEF StartOperation, Operation
    <3> QED
      BY <3>1, <3>2, PhasesAssumption
  <2> QED
    BY <1>17, <2>1 DEF TakePassphrases, RunRest, StartOperation, SetControlsEnabled
<1>18. CASE Report
  <2>1. job'[1].left \in 0..Phases
    BY <1>18, PhasesAssumption DEF Report, PhaseReported, Operation
  <2> QED
    BY <1>18, <2>1 DEF Report, PhaseReported, WorkerRest
<1>19. CASE FinishJob
  BY <1>19 DEF FinishJob, WorkerRest, Post, Alive
<1>20. CASE PreviewWork
  BY <1>20 DEF PreviewWork, Post, Alive
<1>21. CASE Dispatch
  <2>1. CASE OnProgress
    BY <1>21, <2>1 DEF Dispatch, OnProgress
  <2>2. ASSUME Head(events).type = "done", OnOperationFinished(Head(events).ok) PROVE TypeOK'
    <3>1. run = "idle"
      BY <1>21, <2>2, OutcomeAlone DEF Dispatch
    <3> QED
      BY <1>21, <2>2, <3>1 DEF Dispatch, OnOperationFinished, SetControlsEnabled
  <2>3. CASE OnPreviewFinished(Head(events))
    BY <1>21, <2>3 DEF Dispatch, OnPreviewFinished
  <2> QED
    BY <1>21, <2>1, <2>2, <2>3 DEF Dispatch
<1>22. CASE Destroy
  BY <1>22 DEF Destroy
<1>23. CASE UNCHANGED vars
  BY <1>23 DEF vars
<1> QED
  BY <1>1, <1>2, <1>3, <1>4, <1>5, <1>6, <1>7, <1>8, <1>9, <1>10, <1>11, <1>12, <1>13, <1>14,
     <1>15, <1>16, <1>17, <1>18, <1>19, <1>20, <1>21, <1>22, <1>23 DEF Next, User, Handler,
     Worker

\* The fields and what a dialog has saved of them keep their types.
LEMMA FieldsStep == WindowInv /\ [Next]_vars => FieldsOK'
<1> SUFFICES ASSUME WindowInv, [Next]_vars PROVE FieldsOK'
  OBVIOUS
<1>0. TypeOK /\ FieldsOK /\ RunInv
  BY DEF WindowInv, TypedInv
<1> USE <1>0 DEF FieldsOK, field_vars, run_vars, op_vars, preview_vars
<1>1. CASE TypeInput
  <2>1. input' \in Inputs \cup {""}
    BY <1>1 DEF TypeInput
  <2> QED
    BY <1>1, <2>1 DEF TypeInput, Counted, Edited
<1>2. CASE TypePassphrase
  BY <1>2 DEF TypePassphrase, Edited, Ready, Kept
<1>3. CASE TypeConfirmation
  BY <1>3 DEF TypeConfirmation, Edited, Ready, Kept
<1>4. CASE AddKeyfile
  <2>1. keyfiles' \in Seq(Keyfiles)
    <3>1. PICK k \in Keyfiles : keyfiles' = Append(keyfiles, k)
      BY <1>4 DEF AddKeyfile
    <3> QED
      BY <3>1, AppendProperties
  <2> QED
    BY <1>4, <2>1 DEF AddKeyfile, Counted, Edited
<1>5. CASE RemoveKeyfile
  <2>1. keyfiles' \in Seq(Keyfiles)
    <3>1. ASSUME NEW i \in DOMAIN keyfiles PROVE RemoveAt(keyfiles, i) \in Seq(Keyfiles)
      <4>1. /\ SubSeq(keyfiles, 1, i - 1) \in Seq(Keyfiles)
            /\ SubSeq(keyfiles, i + 1, Len(keyfiles)) \in Seq(Keyfiles)
        <5>1. /\ keyfiles \in Seq(Keyfiles) /\ Len(keyfiles) \in Nat /\ i \in 1..Len(keyfiles)
          BY LenProperties
        <5> HIDE <1>0
        <5> QED
          BY <5>1, SubSeqProperties
      <4> QED
        BY <4>1, ConcatProperties DEF RemoveAt
    <3>2. << >> \in Seq(Keyfiles)
      BY EmptySeq
    <3> QED
      BY <1>5, <3>1, <3>2, Zenon DEF RemoveKeyfile
  <2> QED
    BY <1>5, <2>1 DEF RemoveKeyfile, Counted, Edited
<1>6. CASE CheckLock
  BY <1>6 DEF CheckLock, Edited, Counted, Ready, Kept
<1>7. CASE SwitchMode
  BY <1>7 DEF SwitchMode, Edited, Counted, Ready
<1>8. CASE OpenAdvanced
  <2>1. saved' = <<eform, dform>>
    BY <1>8 DEF OpenAdvanced
  <2> QED
    BY <1>8, <2>1 DEF OpenAdvanced
<1>9. CASE EditAdvanced
  <2>1. eform' \in EForms /\ dform' \in DForms
    BY <1>9 DEF EditAdvanced, EForms, DForms
  <2> QED
    BY <1>9, <2>1 DEF EditAdvanced
<1>10. CASE CloseAdvanced
  <2>1. eform' \in EForms /\ dform' \in DForms
    <3>1. PICK e \in EForms, d \in DForms : saved = <<e, d>>
      BY <1>10 DEF CloseAdvanced
    <3> QED
      BY <1>10, <3>1 DEF CloseAdvanced
  <2> QED
    BY <1>10, <2>1 DEF CloseAdvanced
<1>11. CASE Dismiss
  BY <1>11 DEF Dismiss, Alive
<1>12. CASE RunClicked
  <2>1. dialog' # "advanced"
    BY <1>12 DEF RunClicked, AskNext, Ready
  <2> QED
    BY <1>12, <2>1 DEF RunClicked, RunRest
<1>13. CASE Answer
  <2>1. dialog' # "advanced"
    BY <1>13 DEF Answer, AskNext
  <2> QED
    BY <1>13, <2>1 DEF Answer, RunRest
<1>14. CASE PreviewClicked
  BY <1>14 DEF PreviewClicked, Ready
<1>15. CASE CloseEvent
  BY <1>15 DEF CloseEvent, Ready
<1>16. CASE LockMemory
  BY <1>16 DEF LockMemory, RunRest, Alive
<1>17. CASE TakePassphrases
  <2>1. dialog' = "advanced" => dialog = "advanced"
    BY <1>17 DEF TakePassphrases, StartOperation
  <2> QED
    BY <1>17, <2>1 DEF TakePassphrases, RunRest
<1>18. CASE Report
  BY <1>18 DEF Report, PhaseReported, WorkerRest, Post, Alive
<1>19. CASE FinishJob
  BY <1>19 DEF FinishJob, WorkerRest, Post, Alive
<1>20. CASE PreviewWork
  BY <1>20 DEF PreviewWork, Post, Alive
<1>21. CASE Dispatch
  <2>1. dialog' = "advanced" => dialog = "advanced"
    BY <1>21 DEF Dispatch, OnProgress, OnOperationFinished, OnPreviewFinished
  <2> QED
    BY <1>21, <2>1 DEF Dispatch
<1>22. CASE Destroy
  BY <1>22 DEF Destroy
<1>23. CASE UNCHANGED vars
  BY <1>23 DEF vars
<1> QED
  BY <1>1, <1>2, <1>3, <1>4, <1>5, <1>6, <1>7, <1>8, <1>9, <1>10, <1>11, <1>12, <1>13, <1>14,
     <1>15, <1>16, <1>17, <1>18, <1>19, <1>20, <1>21, <1>22, <1>23 DEF Next, User, Handler,
     Worker

\* What is posted, requested and cached keeps its shape: a preview is always
\* the one of the options in its key.
LEMMA PreviewStep == WindowInv /\ [Next]_vars => PreviewOK'
<1> SUFFICES ASSUME WindowInv, [Next]_vars PROVE PreviewOK'
  OBVIOUS
<1>0. PreviewOK /\ Options \in OptionSet
  BY OptionsTyped DEF WindowInv, TypedInv
<1>a. events \in Seq(Event)
  BY <1>0 DEF PreviewOK
<1>b. ASSUME NEW e \in Event, Post(e) PROVE events' \in Seq(Event)
  BY <1>a, <1>b, AppendProperties DEF Post
<1>c. [type |-> "progress"] \in Event /\ \A ok \in BOOLEAN : Done(ok) \in Event
  BY DEF Event
<1> DEFINE Untouched == UNCHANGED <<scan, cache, events>>
<1>d. Untouched => PreviewOK'
  BY <1>0 DEF PreviewOK
<1> HIDE DEF Untouched
<1>1. CASE \/ TypeInput \/ TypePassphrase \/ TypeConfirmation \/ AddKeyfile
           \/ RemoveKeyfile \/ CheckLock \/ SwitchMode \/ OpenAdvanced \/ EditAdvanced
           \/ CloseAdvanced \/ Dismiss \/ RunClicked \/ Answer \/ CloseEvent
           \/ LockMemory \/ TakePassphrases
  <2>1. Untouched
    BY <1>1 DEF Untouched, preview_vars, Counted, Edited, RunRest, TypeInput, TypePassphrase,
     TypeConfirmation, AddKeyfile, RemoveKeyfile, CheckLock, SwitchMode, OpenAdvanced,
     EditAdvanced, CloseAdvanced, Dismiss, RunClicked, Answer, CloseEvent, LockMemory,
     TakePassphrases
  <2> QED
    BY <1>d, <2>1
<1>2. CASE PreviewClicked
  <2>1. UNCHANGED scan \/ scan' = <<Request(Options)>>
    BY <1>2 DEF PreviewClicked, Request
  <2> QED
    BY <1>2, <1>0, <2>1 DEF PreviewClicked, PreviewOK
<1>3. CASE Report
  <2>1. events' \in Seq(Event)
    BY <1>3, <1>b, <1>c DEF Report
  <2> QED
    BY <1>3, <1>0, <2>1 DEF Report, WorkerRest, preview_vars, PreviewOK
<1>4. CASE FinishJob
  <2>1. events' \in Seq(Event)
    BY <1>4, <1>b, <1>c DEF FinishJob
  <2> QED
    BY <1>4, <1>0, <2>1 DEF FinishJob, WorkerRest, preview_vars, PreviewOK
<1>5. CASE PreviewWork
  <2>1. PICK o \in OptionSet : scan = <<Request(o)>>
    BY <1>5, <1>0 DEF PreviewWork, PreviewOK
  <2>2. scan[1].key = MakePreviewKey(o) /\ scan[1].options = o
    BY <2>1 DEF Request
  <2>3. UNCHANGED events \/ Post(PreviewEvent(o))
    BY <1>5, <2>2 DEF PreviewWork, PreviewEvent
  <2>4. PreviewEvent(o) \in Event
    BY DEF Event
  <2>5. events' \in Seq(Event)
    BY <1>a, <1>b, <2>3, <2>4
  <2> QED
    BY <1>5, <1>0, <2>5 DEF PreviewWork, PreviewOK
<1>6. CASE Dispatch
  <2>1. Head(events) \in Event /\ events' \in Seq(Event)
    BY <1>6, <1>a, HeadTailProperties DEF Dispatch
  <2>2. UNCHANGED cache \/ \E o \in OptionSet : cache' = <<Entry(o)>>
    <3>1. \/ OnProgress
          \/ OnOperationFinished(Head(events).ok)
          \/ Head(events).type = "preview" /\ OnPreviewFinished(Head(events))
      BY <1>6, Zenon DEF Dispatch
    <3>2. ASSUME Head(events).type = "preview", OnPreviewFinished(Head(events))
          PROVE  \E o \in OptionSet : cache' = <<Entry(o)>>
      <4>1. PICK o \in OptionSet : Head(events) = PreviewEvent(o)
        BY <2>1, <3>2, EventShapes
      <4>2. cache' = <<Entry(o)>>
        BY <3>2, <4>1 DEF OnPreviewFinished, CacheSet, PreviewEvent, Entry
      <4> QED
        BY <4>2
    <3> QED
      BY <3>1, <3>2 DEF OnProgress, OnOperationFinished
  <2> QED
    BY <1>6, <1>0, <2>1, <2>2 DEF Dispatch, PreviewOK
<1>7. CASE Destroy
  <2>1. events' \in Seq(Event)
    BY <1>7, EmptySeq DEF Destroy
  <2> QED
    BY <1>7, <1>0, <2>1 DEF Destroy, preview_vars, PreviewOK
<1>8. CASE UNCHANGED vars
  BY <1>8, <1>d DEF vars, preview_vars, Untouched
<1> QED
  BY <1>1, <1>2, <1>3, <1>4, <1>5, <1>6, <1>7, <1>8 DEF Next, User, Handler, Worker

\* Whether hardened extraction is supported does not change.
LEMMA SupportKept == [Next]_vars => UNCHANGED supported
  BY DEF Next, User, Handler, Worker, vars, Counted, Edited, RunRest, WorkerRest, TypeInput,
     TypePassphrase, TypeConfirmation, AddKeyfile, RemoveKeyfile, CheckLock, SwitchMode,
     OpenAdvanced, EditAdvanced, CloseAdvanced, Dismiss, RunClicked, Answer, PreviewClicked,
     CloseEvent, LockMemory, TakePassphrases, Report, FinishJob, PreviewWork, Dispatch, Destroy

\* Taking the passphrases either starts the operation or leaves all as it is.
LEMMA SecretsTakenOrNot ==
    TakePassphrases => \/ UNCHANGED <<enabled, running, job, toggle>>
                       \/ StartOperation /\ ~Refused(pass)
<1> SUFFICES ASSUME TakePassphrases
             PROVE  \/ UNCHANGED <<enabled, running, job, toggle>>
                    \/ StartOperation /\ ~Refused(pass)
  OBVIOUS
<1>1. ASSUME Refused(pass) \/ (mode = "encrypt" /\ Refused(confirmation))
      PROVE  UNCHANGED <<status, op_vars, toggle>>
  BY <1>1, Zenon DEF TakePassphrases
<1>2. ASSUME ~Refused(pass), ~(mode = "encrypt" /\ Refused(confirmation)),
             mode = "encrypt" /\ pass # confirmation
      PROVE  UNCHANGED <<dialog, op_vars, toggle>>
  BY <1>2, Zenon DEF TakePassphrases
<1>3. ASSUME ~Refused(pass), ~(mode = "encrypt" /\ Refused(confirmation)),
             ~(mode = "encrypt" /\ pass # confirmation)
      PROVE  StartOperation
  BY <1>3, Zenon DEF TakePassphrases
<1> QED
  BY <1>1, <1>2, <1>3 DEF op_vars

\* An operation is started with options that were agreed to, and a passphrase
\* that was accepted.
LEMMA JobStep == WindowInv /\ [Next]_vars => JobOK'
<1> SUFFICES ASSUME WindowInv, [Next]_vars PROVE JobOK'
  OBVIOUS
<1>0. JobOK /\ RunInv /\ Options \in OptionSet
  BY OptionsTyped DEF WindowInv, TypedInv
<1>a. UNCHANGED supported
  BY SupportKept
<1>b. UNCHANGED job => JobOK'
  <2> SUFFICES ASSUME UNCHANGED job, job # << >> PROVE JobOK'
    BY DEF JobOK
  <2> QED
    BY <1>0, <1>a DEF JobOK, Agreed
<1>1. CASE \/ TypeInput \/ TypePassphrase \/ TypeConfirmation \/ AddKeyfile
           \/ RemoveKeyfile \/ CheckLock \/ SwitchMode \/ OpenAdvanced \/ EditAdvanced
           \/ CloseAdvanced \/ Dismiss \/ RunClicked \/ Answer \/ PreviewClicked
           \/ CloseEvent \/ LockMemory \/ PreviewWork \/ Dispatch \/ Destroy
  <2>1. UNCHANGED job
    BY <1>1 DEF op_vars, Counted, Edited, RunRest, TypeInput, TypePassphrase, TypeConfirmation,
     AddKeyfile, RemoveKeyfile, CheckLock, SwitchMode, OpenAdvanced, EditAdvanced,
     CloseAdvanced, Dismiss, RunClicked, Answer, PreviewClicked, CloseEvent, LockMemory,
     PreviewWork, Dispatch, Destroy
  <2> QED
    BY <1>b, <2>1
<1>2. CASE TakePassphrases
  <2>1. UNCHANGED job \/ (StartOperation /\ ~Refused(pass))
    BY <1>2, SecretsTakenOrNot, Zenon
  <2>2. ASSUME StartOperation, ~Refused(pass) PROVE JobOK'
    <3>1. Agreed(Options, asked)
      BY <1>2, <1>0 DEF RunInv, TakePassphrases
    <3>2. job' = <<Operation(ToCoreParams(Options), pass, Phases, asked)>>
      BY <2>2 DEF StartOperation
    <3>3. job'[1].confirmed = asked
      BY <3>2 DEF Operation
    <3>4. pass \in Usable /\ Phases \in 0..Phases
      BY <2>2, PhasesAssumption DEF Refused
    <3> DEFINE o == Options
    <3>5. /\ o \in OptionSet /\ Agreed(o, asked)
          /\ job' = <<Operation(ToCoreParams(o), pass, Phases, asked)>>
      BY <1>0, <3>1, <3>2
    <3> HIDE DEF o
    <3> QED
      BY <3>3, <3>4, <3>5, <1>a DEF JobOK, Agreed
  <2> QED
    BY <1>b, <2>1, <2>2
<1>3. CASE Report
  <2>1. PICK o \in OptionSet, p \in Usable, n \in 0..Phases :
            /\ job = <<Operation(ToCoreParams(o), p, n, job[1].confirmed)>>
            /\ Agreed(o, job[1].confirmed)
    BY <1>3, <1>0 DEF Report, JobOK
  <2>2. job[1].options = ToCoreParams(o) /\ job[1].pass = p /\ job[1].left = n
    BY <2>1 DEF Operation
  <2>3. job' = <<Operation(ToCoreParams(o), p, n - 1, job[1].confirmed)>> /\ n > 0
    BY <1>3, <2>2 DEF Report, PhaseReported
  <2>4. job'[1].confirmed = job[1].confirmed /\ n - 1 \in 0..Phases
    BY <2>3, PhasesAssumption DEF Operation
  <2>5. Agreed(o, job[1].confirmed)'
    BY <1>a, <2>1, <2>4 DEF Agreed
  <2> QED
    BY <2>3, <2>4, <2>5 DEF JobOK
<1>4. CASE FinishJob
  BY <1>4 DEF FinishJob, JobOK
<1>5. CASE UNCHANGED vars
  BY <1>5, <1>b DEF vars, op_vars
<1> QED
  BY <1>1, <1>2, <1>3, <1>4, <1>5 DEF Next, User, Handler, Worker

----------------------------------------------------------------------------
(* onRun(). *)

\* While the fields are left alone the options stay.
LEMMA OptionsKept ==
    UNCHANGED <<mode, input, keyfiles, eform, dform>> => UNCHANGED Options
  BY DEF Options, Applied

\* The buttons that start something work only while no operation runs.
LEMMA ReadyIsFree == WindowInv /\ Ready /\ enabled => ~running
  BY DEF WindowInv, FlagsInv, Ready, TypedInv, TypeOK

\* onRun() goes on to the secrets only when all its questions are answered.
LEMMA AskedAgreed ==
    ASSUME NEW done, AskNext(done), ValidOptions(Options, supported),
           \A a \in done : a = [question |-> a.question, options |-> Options]
    PROVE  /\ dialog' # "advanced"
           /\ \/ run' = "confirm"
              \/ run' = "lock" /\ dialog' = "none" /\ Agreed(Options, done)
<1> DEFINE left == {q \in Questions(Options, supported) : ~\E a \in done : a.question = q}
<1>1. CASE left = {}
  <2>1. run' = "lock" /\ dialog' = "none"
    BY <1>1 DEF AskNext
  <2>2. ASSUME NEW q \in Questions(Options, supported)
        PROVE  [question |-> q, options |-> Options] \in done
    <3>1. PICK a \in done : a.question = q
      BY <1>1
    <3>2. a = [question |-> q, options |-> Options]
      BY <3>1
    <3> QED
      BY <3>2
  <2> QED
    BY <2>1, <2>2 DEF Agreed
<1>2. CASE left # {}
  <2>1. run' = "confirm"
    BY <1>2, Zenon DEF AskNext
  <2>2. dialog' \in {"overwrite", "portable"}
    BY <1>2 DEF AskNext
  <2> QED
    BY <2>1, <2>2
<1> QED
  BY <1>1, <1>2

\* onRun() works on valid options that do not change under it, with nothing
\* else under way, and takes secrets only for what was agreed to.
LEMMA RunStep == WindowInv /\ [Next]_vars => RunInv'
<1> SUFFICES ASSUME WindowInv, [Next]_vars PROVE RunInv'
  OBVIOUS
<1>0. RunInv /\ TypeOK
  BY DEF WindowInv, TypedInv
<1>a. UNCHANGED supported
  BY SupportKept
<1>b. ASSUME run' = "idle", dialog' # "advanced" PROVE RunInv'
  BY <1>b DEF RunInv
<1>c. ASSUME UNCHANGED <<mode, input, keyfiles, eform, dform>>, UNCHANGED <<run, asked, running>>,
             dialog' = dialog \/ dialog' = "none", window' = window \/ window' = "crashed"
      PROVE  RunInv'
  <2>1. UNCHANGED Options
    BY <1>c, OptionsKept
  <2> HIDE DEF Options
  <2> QED
    BY <1>0, <1>a, <1>c, <2>1 DEF RunInv, Agreed
<1>1. CASE \/ TypeInput \/ TypePassphrase \/ TypeConfirmation \/ AddKeyfile
           \/ RemoveKeyfile \/ CheckLock \/ SwitchMode
  BY <1>1, <1>b DEF Ready, Counted, Edited, run_vars, TypeInput, TypePassphrase, TypeConfirmation,
     AddKeyfile, RemoveKeyfile, CheckLock, SwitchMode
<1>2. CASE \/ Dismiss \/ Report \/ FinishJob \/ PreviewClicked \/ PreviewWork
  BY <1>2, <1>c DEF WorkerRest, field_vars, run_vars, op_vars, Dismiss, Report, FinishJob,
     PreviewClicked, PreviewWork
<1>3. CASE OpenAdvanced
  <2>1. run' = "idle" /\ ~running'
    BY <1>3, ReadyIsFree DEF OpenAdvanced, Ready, op_vars
  <2> QED
    BY <2>1 DEF RunInv
<1>4. CASE EditAdvanced
  <2>1. run' = "idle" /\ ~running'
    BY <1>4, <1>0 DEF EditAdvanced, RunInv, op_vars, run_vars
  <2> QED
    BY <2>1 DEF RunInv
<1>5. CASE CloseAdvanced
  BY <1>5, <1>0, <1>b DEF CloseAdvanced, RunInv
<1>6. CASE RunClicked
  <2>1. CASE ValidOptions(Options, supported)
    <3>1. AskNext({}) /\ asked' = {}
      BY <1>6, <2>1 DEF RunClicked
    <3>2. UNCHANGED <<mode, input, keyfiles, eform, dform>> /\ UNCHANGED <<running, window>>
      BY <1>6 DEF RunClicked, RunRest, field_vars, op_vars
    <3>3. UNCHANGED Options
      BY <3>2, OptionsKept
    <3>4. ~running /\ window = "open"
      BY <1>6, ReadyIsFree DEF RunClicked, Ready
    <3>5. /\ dialog' # "advanced"
          /\ run' = "confirm" \/ (run' = "lock" /\ dialog' = "none" /\ Agreed(Options, {}))
      BY <2>1, <3>1, AskedAgreed
    <3> HIDE DEF Options
    <3> QED
      BY <1>a, <2>1, <3>1, <3>2, <3>3, <3>4, <3>5 DEF RunInv, Agreed
  <2>2. CASE ~ValidOptions(Options, supported)
    BY <1>6, <1>b, <2>2 DEF RunClicked, Ready
  <2> QED
    BY <2>1, <2>2
<1>7. CASE Answer
  <2>1. run = "confirm" /\ UNCHANGED <<mode, input, keyfiles, eform, dform, running, window>>
    BY <1>7 DEF Answer, RunRest, field_vars, op_vars
  <2>2. UNCHANGED Options
    BY <2>1, OptionsKept
  <2>3. CASE asked' = asked \cup {[question |-> dialog, options |-> Options]} /\ AskNext(asked')
    <3>1. \A a \in asked' : a = [question |-> a.question, options |-> Options]
      BY <1>0, <2>1, <2>3 DEF RunInv
    <3>2. ValidOptions(Options, supported) /\ window \in {"open", "crashed"} /\ ~running
      BY <1>0, <2>1 DEF RunInv
    <3>3. /\ dialog' # "advanced"
          /\ run' = "confirm" \/ (run' = "lock" /\ dialog' = "none" /\ Agreed(Options, asked'))
      <4> DEFINE done == asked'
      <4>1. AskNext(done) /\ \A a \in done : a = [question |-> a.question, options |-> Options]
        BY <2>3, <3>1
      <4> HIDE DEF done
      <4>2. /\ dialog' # "advanced"
            /\ run' = "confirm" \/ (run' = "lock" /\ dialog' = "none" /\ Agreed(Options, done))
        BY <3>2, <4>1, AskedAgreed
      <4> QED
        BY <4>2 DEF done
    <3> HIDE DEF Options
    <3> QED
      BY <1>a, <2>1, <2>2, <3>1, <3>2, <3>3 DEF RunInv, Agreed
  <2>4. CASE run' = "idle" /\ dialog' = "none"
    BY <1>b, <2>4
  <2> QED
    BY <1>7, <2>3, <2>4 DEF Answer
<1>8. CASE CloseEvent
  BY <1>8, <1>b DEF CloseEvent, Ready, run_vars
<1>9. CASE LockMemory
  <2>1. UNCHANGED <<mode, input, keyfiles, eform, dform, running, window, dialog, asked>>
    BY <1>9 DEF LockMemory, RunRest, field_vars, op_vars
  <2>2. UNCHANGED Options
    BY <2>1, OptionsKept
  <2>3. run = "lock" /\ run' \in {"secrets", "idle"}
    BY <1>9 DEF LockMemory
  <2> HIDE DEF Options
  <2> QED
    BY <1>0, <1>a, <2>1, <2>2, <2>3 DEF RunInv, Agreed
<1>10. CASE TakePassphrases
  <2>1. dialog' \in {"none", "message"}
    BY <1>10, <1>0 DEF TakePassphrases, StartOperation, RunInv
  <2> QED
    BY <1>10, <1>b, <2>1 DEF TakePassphrases
<1>11. CASE Dispatch
  <2>1. \/ OnProgress \/ OnPreviewFinished(Head(events))
        \/ Head(events).type = "done" /\ OnOperationFinished(Head(events).ok)
    BY <1>11, Zenon DEF Dispatch
  <2>2. CASE OnProgress \/ OnPreviewFinished(Head(events))
    BY <1>11, <1>c, <2>2 DEF Dispatch, OnProgress, OnPreviewFinished, field_vars
  <2>3. ASSUME Head(events).type = "done", OnOperationFinished(Head(events).ok) PROVE RunInv'
    <3>1. run = "idle" /\ dialog # "advanced"
      BY <1>11, <2>3, OutcomeAlone DEF Dispatch
    <3> QED
      BY <1>11, <1>b, <2>3, <3>1 DEF Dispatch, OnOperationFinished
  <2> QED
    BY <2>1, <2>2, <2>3
<1>12. CASE Destroy
  <2>1. run = "idle"
    BY <1>12, <1>0 DEF Destroy, RunInv
  <2>2. UNCHANGED <<run, dialog, running>>
    BY <1>12 DEF Destroy, run_vars, op_vars
  <2> QED
    BY <1>0, <2>1, <2>2 DEF RunInv
<1>13. CASE UNCHANGED vars
  BY <1>13, <1>c DEF vars, field_vars, run_vars, op_vars
<1> QED
  BY <1>1, <1>2, <1>3, <1>4, <1>5, <1>6, <1>7, <1>8, <1>9, <1>10, <1>11, <1>12, <1>13 DEF Next,
     User, Handler, Worker

----------------------------------------------------------------------------
(* The events that the threads post. *)

\* What appending and taking an event does to the types that are posted.
LEMMA AppendedEvent ==
    ASSUME NEW s \in Seq(Event), NEW e \in Event
    PROVE  /\ \A t : (\E i \in DOMAIN Append(s, e) : Append(s, e)[i].type = t)
                        <=> (\E i \in DOMAIN s : s[i].type = t) \/ e.type = t
           /\ PostedOnce(s) /\ (\A i \in DOMAIN s : s[i].type = e.type => e.type = "progress")
                 => PostedOnce(Append(s, e))
<1> DEFINE r == Append(s, e)
<1>1. /\ Len(s) \in Nat /\ DOMAIN s = 1..Len(s) /\ DOMAIN r = 1..(Len(s) + 1)
      /\ \A i \in 1..Len(s) : r[i] = s[i]
      /\ r[Len(s) + 1] = e
  BY AppendProperties, LenProperties
<1> HIDE DEF r
<1>2. ASSUME NEW t
      PROVE  (\E i \in DOMAIN r : r[i].type = t)
                <=> (\E i \in DOMAIN s : s[i].type = t) \/ e.type = t
  <2>1. ASSUME NEW i \in DOMAIN r, r[i].type = t
        PROVE  (\E k \in DOMAIN s : s[k].type = t) \/ e.type = t
    <3>1. i \in 1..Len(s) \/ i = Len(s) + 1
      BY <1>1
    <3> QED
      BY <1>1, <2>1, <3>1
  <2>2. ASSUME NEW i \in DOMAIN s, s[i].type = t PROVE i \in DOMAIN r /\ r[i].type = t
    BY <1>1, <2>2
  <2>3. e.type = t => Len(s) + 1 \in DOMAIN r /\ r[Len(s) + 1].type = t
    BY <1>1
  <2> QED
    BY <2>1, <2>2, <2>3
<1>3. ASSUME PostedOnce(s), \A i \in DOMAIN s : s[i].type = e.type => e.type = "progress"
      PROVE  PostedOnce(r)
  <2> SUFFICES ASSUME NEW i \in DOMAIN r, NEW j \in DOMAIN r, r[i].type = r[j].type,
                      r[i].type # "progress"
               PROVE  i = j
    BY DEF PostedOnce
  <2>1. (i \in DOMAIN s \/ i = Len(s) + 1) /\ (j \in DOMAIN s \/ j = Len(s) + 1)
    BY <1>1
  <2>2. CASE i \in DOMAIN s /\ j \in DOMAIN s
    BY <1>1, <1>3, <2>2 DEF PostedOnce
  <2>3. CASE i \in DOMAIN s /\ j = Len(s) + 1
    BY <1>1, <1>3, <2>3
  <2>4. CASE i = Len(s) + 1 /\ j \in DOMAIN s
    BY <1>1, <1>3, <2>4
  <2> QED
    BY <2>1, <2>2, <2>3, <2>4
<1> QED
  BY <1>2, <1>3 DEF r

\* Taking the first event removes its type, unless it is a phase.
LEMMA TakenEvent ==
    ASSUME NEW s \in Seq(Event), s # << >>, PostedOnce(s)
    PROVE  /\ PostedOnce(Tail(s))
           /\ \A i \in DOMAIN Tail(s) : i + 1 \in DOMAIN s /\ Tail(s)[i] = s[i + 1]
           /\ \A t : t # "progress" =>
                 ((\E i \in DOMAIN Tail(s) : Tail(s)[i].type = t)
                     <=> (\E i \in DOMAIN s : s[i].type = t) /\ Head(s).type # t)
<1> DEFINE r == Tail(s)
<1>1. /\ Len(s) \in Nat \ {0} /\ DOMAIN s = 1..Len(s) /\ DOMAIN r = 1..(Len(s) - 1)
      /\ \A i \in 1..(Len(s) - 1) : r[i] = s[i + 1]
      /\ Head(s) = s[1]
  BY HeadTailProperties, LenProperties, EmptySeq
<1> HIDE DEF r
<1>2. \A i \in DOMAIN r : i + 1 \in DOMAIN s /\ r[i] = s[i + 1]
  BY <1>1
<1>3. PostedOnce(r)
  <2> SUFFICES ASSUME NEW i \in DOMAIN r, NEW j \in DOMAIN r, r[i].type = r[j].type,
                      r[i].type # "progress"
               PROVE  i = j
    BY DEF PostedOnce
  <2>1. i + 1 = j + 1
    BY <1>2 DEF PostedOnce
  <2> QED
    BY <1>1, <2>1
<1>4. ASSUME NEW t, t # "progress"
      PROVE  (\E i \in DOMAIN r : r[i].type = t)
                <=> (\E i \in DOMAIN s : s[i].type = t) /\ Head(s).type # t
  <2>1. ASSUME NEW i \in DOMAIN r, r[i].type = t
        PROVE  (\E k \in DOMAIN s : s[k].type = t) /\ Head(s).type # t
    <3>1. i + 1 \in DOMAIN s /\ s[i + 1].type = t /\ i + 1 # 1 /\ 1 \in DOMAIN s
      BY <1>1, <1>2, <2>1
    <3> QED
      BY <1>1, <1>4, <3>1 DEF PostedOnce
  <2>2. ASSUME NEW i \in DOMAIN s, s[i].type = t, Head(s).type # t
        PROVE  \E k \in DOMAIN r : r[k].type = t
    <3>1. i - 1 \in DOMAIN r /\ r[i - 1] = s[i]
      BY <1>1, <2>2
    <3> QED
      BY <2>2, <3>1
  <2> QED
    BY <2>1, <2>2
<1> QED
  BY <1>2, <1>3, <1>4 DEF r

\* The same for the queue of the event loop.
LEMMA PostedMore ==
    ASSUME WindowInv, NEW e \in Event, Post(e)
    PROVE  /\ \A t : Posted(t)' <=> Posted(t) \/ e.type = t
           /\ e.type = "progress" \/ ~Posted(e.type) => PostedOnce(events)'
<1>1. events \in Seq(Event) /\ PostedOnce(events) /\ events' = Append(events, e)
  BY DEF WindowInv, TypedInv, PreviewOK, EventsInv, Post
<1>2. \A t : Posted(t)' <=> Posted(t) \/ e.type = t
  <2>1. TAKE t
  <2>2. Posted(t)' <=> \E i \in DOMAIN Append(events, e) : Append(events, e)[i].type = t
    BY <1>1, Zenon DEF Posted
  <2>3. (\E i \in DOMAIN Append(events, e) : Append(events, e)[i].type = t)
           <=> (\E i \in DOMAIN events : events[i].type = t) \/ e.type = t
    BY <1>1, AppendedEvent
  <2> QED
    BY <2>2, <2>3 DEF Posted
<1>3. ASSUME e.type = "progress" \/ ~Posted(e.type) PROVE PostedOnce(Append(events, e))
  <2>1. \A i \in DOMAIN events : events[i].type = e.type => e.type = "progress"
    BY <1>3 DEF Posted
  <2> QED
    BY <1>1, <2>1, AppendedEvent, Zenon
<1>4. ASSUME PostedOnce(Append(events, e)) PROVE PostedOnce(events)'
  BY <1>1, <1>4, Zenon DEF PostedOnce
<1> QED
  BY <1>2, <1>3, <1>4

\* A turn of the event loop takes the first event, and its type with it.
LEMMA PostedLess ==
    ASSUME WindowInv, events # << >>, events' = Tail(events)
    PROVE  /\ \A t : t # "progress" => (Posted(t)' <=> Posted(t) /\ Head(events).type # t)
           /\ PostedOnce(events)' /\ Head(events) \in Event /\ Posted(Head(events).type)
<1>1. events \in Seq(Event) /\ PostedOnce(events)
  BY DEF WindowInv, TypedInv, PreviewOK, EventsInv
<1>2. \A t : t # "progress" => (Posted(t)' <=> Posted(t) /\ Head(events).type # t)
  BY <1>1, TakenEvent, Zenon DEF Posted
<1>3. PostedOnce(Tail(events))
  BY <1>1, TakenEvent, Zenon
<1>4. PostedOnce(events)'
  BY <1>3, Zenon DEF PostedOnce
<1>5. 1 \in DOMAIN events /\ events[1] = Head(events) /\ Head(events) \in Event
  BY <1>1, HeadTailProperties
<1> QED
  BY <1>2, <1>4, <1>5 DEF Posted

\* Each handler is run for its type of event.
LEMMA Dispatched ==
    Dispatch => \/ Head(events).type = "progress" /\ OnProgress
                \/ Head(events).type = "done" /\ OnOperationFinished(Head(events).ok)
                \/ Head(events).type = "preview" /\ OnPreviewFinished(Head(events))
  BY Zenon DEF Dispatch

\* An operation is started, and a preview made, when none is under way.
LEMMA StartsAlone ==
    ASSUME WindowInv
    PROVE  /\ TakePassphrases => window = "open" /\ ~running /\ job = << >> /\ ~Posted("done")
           /\ PreviewClicked => scan = << >> /\ ~Posted("preview")
  BY DEF WindowInv, TypedInv, TypeOK, RunInv, FlagsInv, TakePassphrases, Alive, PreviewClicked,
     Ready

\* The preview is taken from the cache, or requested from a thread.
LEMMA PreviewStarted ==
    PreviewClicked =>
        \/ /\ CacheHas(MakePreviewKey(Options)) /\ shown' = <<cache[1].result>>
           /\ UNCHANGED <<previewRunning, toggle, scan>>
        \/ /\ previewRunning' = TRUE /\ toggle' = FALSE
           /\ shown' = <<[says |-> "generating"]>> /\ scan' = <<Request(Options)>>
  BY Zenon DEF PreviewClicked, Request

\* The events a worker posts.
LEMMA PostedByWorker ==
    /\ [type |-> "progress"] \in Event
    /\ \A ok \in BOOLEAN : Done(ok) \in Event /\ Done(ok).type = "done"
    /\ \A o \in OptionSet : PreviewEvent(o) \in Event /\ PreviewEvent(o).type = "preview"
  BY DEF Event, Done, PreviewEvent

\* The preview thread posts the preview of the options it was given, or crashes.
LEMMA PreviewPosted ==
    WindowInv /\ PreviewWork =>
        \/ UNCHANGED events /\ window' = "crashed"
        \/ UNCHANGED window /\ \E o \in OptionSet : scan[1].options = o /\ Post(PreviewEvent(o))
<1> SUFFICES ASSUME WindowInv, PreviewWork
             PROVE  \/ UNCHANGED events /\ window' = "crashed"
                    \/ /\ UNCHANGED window
                       /\ \E o \in OptionSet : scan[1].options = o /\ Post(PreviewEvent(o))
  OBVIOUS
<1>1. PICK o \in OptionSet : scan = <<Request(o)>>
  BY DEF WindowInv, TypedInv, PreviewOK, PreviewWork
<1>2. scan[1].key = MakePreviewKey(o) /\ scan[1].options = o
  BY <1>1 DEF Request
<1>3. \/ Post(PreviewEvent(o)) /\ UNCHANGED window
      \/ window' = "crashed" /\ UNCHANGED events
  BY <1>2 DEF PreviewWork, PreviewEvent
<1> QED
  BY <1>2, <1>3

\* Of outcomes and previews at most one is posted, after its thread has ended.
LEMMA EventsStep == WindowInv /\ [Next]_vars => EventsInv'
<1> SUFFICES ASSUME WindowInv, [Next]_vars PROVE EventsInv'
  OBVIOUS
<1>0. EventsInv
  BY DEF WindowInv
<1>a. UNCHANGED events => (PostedOnce(events)' /\ \A t : Posted(t)' <=> Posted(t))
  BY <1>0 DEF EventsInv, PostedOnce, Posted
<1>1. CASE \/ TypeInput \/ TypePassphrase \/ TypeConfirmation \/ AddKeyfile
           \/ RemoveKeyfile \/ CheckLock \/ SwitchMode \/ OpenAdvanced \/ EditAdvanced
           \/ CloseAdvanced \/ Dismiss \/ RunClicked \/ Answer \/ CloseEvent
           \/ LockMemory
  <2>1. UNCHANGED <<job, scan, events>>
    BY <1>1 DEF op_vars, preview_vars, Counted, Edited, RunRest, TypeInput, TypePassphrase,
     TypeConfirmation, AddKeyfile, RemoveKeyfile, CheckLock, SwitchMode, OpenAdvanced,
     EditAdvanced, CloseAdvanced, Dismiss, RunClicked, Answer, CloseEvent, LockMemory
  <2> QED
    BY <1>0, <1>a, <2>1 DEF EventsInv
<1>2. CASE PreviewClicked
  <2>1. UNCHANGED <<events, job>> /\ ~Posted("preview")
    BY <1>2, StartsAlone DEF PreviewClicked, op_vars
  <2> QED
    BY <1>0, <1>a, <2>1 DEF EventsInv
<1>3. CASE TakePassphrases
  <2>1. UNCHANGED <<events, scan>> /\ ~Posted("done")
    BY <1>3, StartsAlone DEF TakePassphrases, RunRest, preview_vars
  <2> QED
    BY <1>0, <1>a, <2>1 DEF EventsInv
<1>4. CASE Report
  <2>1. job # << >> /\ UNCHANGED scan /\ Post([type |-> "progress"])
    BY <1>4 DEF Report, WorkerRest, preview_vars
  <2>2. /\ \A t : Posted(t)' <=> Posted(t) \/ "progress" = t
        /\ PostedOnce(events)'
    BY <2>1, PostedMore, PostedByWorker
  <2> QED
    BY <1>0, <2>1, <2>2 DEF EventsInv
<1>5. CASE FinishJob
  <2>1. PICK ok \in BOOLEAN : Post(Done(ok))
    BY <1>5 DEF FinishJob
  <2>2. job # << >> /\ job' = << >> /\ UNCHANGED scan
    BY <1>5 DEF FinishJob, WorkerRest, preview_vars
  <2>3. /\ \A t : Posted(t)' <=> Posted(t) \/ "done" = t
        /\ ~Posted("done") => PostedOnce(events)'
    BY <2>1, PostedMore, PostedByWorker, Zenon
  <2> QED
    BY <1>0, <2>2, <2>3 DEF EventsInv
<1>6. CASE PreviewWork
  <2>1. scan # << >> /\ scan' = << >> /\ UNCHANGED job
    BY <1>6 DEF PreviewWork, op_vars
  <2>2. CASE UNCHANGED events
    BY <1>0, <1>a, <2>1, <2>2 DEF EventsInv
  <2>3. ASSUME NEW o \in OptionSet, Post(PreviewEvent(o)) PROVE EventsInv'
    <3>1. /\ \A t : Posted(t)' <=> Posted(t) \/ "preview" = t
          /\ ~Posted("preview") => PostedOnce(events)'
      BY <2>3, PostedMore, PostedByWorker, Zenon
    <3> QED
      BY <1>0, <2>1, <3>1 DEF EventsInv
  <2> QED
    BY <1>6, <2>2, <2>3, PreviewPosted
<1>7. CASE Dispatch
  <2>1. UNCHANGED <<job, scan>>
    BY <1>7 DEF Dispatch
  <2>2. /\ PostedOnce(events)'
        /\ (Posted("done")' => Posted("done")) /\ (Posted("preview")' => Posted("preview"))
    BY <1>7, PostedLess DEF Dispatch
  <2> QED
    BY <1>0, <2>1, <2>2 DEF EventsInv
<1>8. CASE Destroy
  <2>1. events' = << >>
    BY <1>8 DEF Destroy
  <2> QED
    BY <2>1 DEF EventsInv, PostedOnce, Posted
<1>9. CASE UNCHANGED vars
  <2>1. UNCHANGED <<job, scan, events>>
    BY <1>9 DEF vars, op_vars, preview_vars
  <2> QED
    BY <1>0, <1>a, <2>1 DEF EventsInv
<1> QED
  BY <1>1, <1>2, <1>3, <1>4, <1>5, <1>6, <1>7, <1>8, <1>9 DEF Next, User, Handler, Worker

\* The flags of the window tell what the threads do.
LEMMA FlagsStep == WindowInv /\ [Next]_vars => FlagsInv'
<1> SUFFICES ASSUME WindowInv, [Next]_vars PROVE FlagsInv'
  OBVIOUS
<1>0. FlagsInv /\ TypeOK /\ EventsInv
  BY DEF WindowInv, TypedInv
<1>a. UNCHANGED events => \A t : Posted(t)' <=> Posted(t)
  BY DEF Posted
<1>b. {enabled, toggle, running, previewRunning} \subseteq BOOLEAN
  BY <1>0 DEF TypeOK
<1>c. ASSUME UNCHANGED <<enabled, toggle, running, job, previewRunning, scan, events, window>>
      PROVE  FlagsInv'
  BY <1>0, <1>a, <1>c DEF FlagsInv
<1>1. CASE \/ TypeInput \/ TypePassphrase \/ TypeConfirmation \/ AddKeyfile
           \/ RemoveKeyfile \/ CheckLock \/ SwitchMode \/ OpenAdvanced \/ EditAdvanced
           \/ CloseAdvanced \/ Dismiss \/ RunClicked \/ Answer \/ LockMemory
  BY <1>1, <1>c DEF op_vars, preview_vars, Counted, Edited, RunRest, TypeInput, TypePassphrase,
     TypeConfirmation, AddKeyfile, RemoveKeyfile, CheckLock, SwitchMode, OpenAdvanced,
     EditAdvanced, CloseAdvanced, Dismiss, RunClicked, Answer, LockMemory
<1>2. CASE PreviewClicked
  <2>1. /\ UNCHANGED <<enabled, running, job, events, window>>
        /\ window = "open" /\ ~previewRunning /\ toggle
    BY <1>2 DEF PreviewClicked, op_vars, Ready
  <2>2. CASE UNCHANGED <<previewRunning, toggle, scan>>
    BY <1>c, <2>1, <2>2
  <2>3. CASE previewRunning' = TRUE /\ toggle' = FALSE /\ scan' # << >>
    BY <1>0, <1>a, <1>b, <2>1, <2>3 DEF FlagsInv
  <2>4. \/ UNCHANGED <<previewRunning, toggle, scan>>
        \/ previewRunning' = TRUE /\ toggle' = FALSE /\ scan' # << >>
    BY <1>2, PreviewStarted
  <2> QED
    BY <2>2, <2>3, <2>4
<1>3. CASE CloseEvent
  <2>1. UNCHANGED <<enabled, toggle, running, job, previewRunning, scan, events>>
    BY <1>3 DEF CloseEvent, op_vars, preview_vars
  <2>2. UNCHANGED window \/ (window' = "closing" /\ ~running)
    BY <1>3 DEF CloseEvent
  <2>3. window = "open"
    BY <1>3 DEF CloseEvent, Ready
  <2> QED
    BY <1>0, <1>a, <2>1, <2>2, <2>3 DEF FlagsInv
<1>4. CASE TakePassphrases
  <2>1. /\ UNCHANGED <<previewRunning, scan, events, window>>
        /\ window = "open" /\ ~running /\ ~Posted("done")
    BY <1>4, StartsAlone DEF TakePassphrases, RunRest, preview_vars
  <2>2. CASE UNCHANGED <<enabled, running, job, toggle>>
    BY <1>c, <2>1, <2>2
  <2>3. CASE StartOperation
    <3>1. enabled' = FALSE /\ toggle' = FALSE /\ running' = TRUE /\ job' # << >>
      BY <2>3 DEF StartOperation, SetControlsEnabled
    <3> QED
      BY <1>0, <1>a, <1>b, <2>1, <3>1 DEF FlagsInv
  <2> QED
    BY <1>4, <2>2, <2>3, SecretsTakenOrNot
<1>5. CASE Report
  <2>1. /\ UNCHANGED <<enabled, toggle, running, previewRunning, scan, window>>
        /\ Post([type |-> "progress"]) /\ job # << >> /\ job' # << >>
    BY <1>5 DEF Report, PhaseReported, WorkerRest, preview_vars
  <2>2. \A t : Posted(t)' <=> Posted(t) \/ "progress" = t
    BY <2>1, PostedMore, PostedByWorker
  <2> QED
    BY <1>0, <2>1, <2>2 DEF FlagsInv
<1>6. CASE FinishJob
  <2>1. PICK ok \in BOOLEAN : Post(Done(ok))
    BY <1>6 DEF FinishJob
  <2>2. /\ UNCHANGED <<enabled, toggle, running, previewRunning, scan, window>>
        /\ job # << >> /\ job' = << >>
    BY <1>6 DEF FinishJob, WorkerRest, preview_vars
  <2>3. \A t : Posted(t)' <=> Posted(t) \/ "done" = t
    BY <2>1, PostedMore, PostedByWorker, Zenon
  <2> QED
    BY <1>0, <2>2, <2>3 DEF FlagsInv
<1>7. CASE PreviewWork
  <2>1. /\ UNCHANGED <<enabled, toggle, running, job, previewRunning>>
        /\ scan # << >> /\ scan' = << >> /\ window # "crashed"
    BY <1>7 DEF PreviewWork, op_vars, Alive
  <2>2. CASE UNCHANGED events /\ window' = "crashed"
    BY <1>0, <1>a, <2>1, <2>2 DEF FlagsInv
  <2>3. ASSUME NEW o \in OptionSet, Post(PreviewEvent(o)), UNCHANGED window PROVE FlagsInv'
    <3>1. \A t : Posted(t)' <=> Posted(t) \/ "preview" = t
      BY <2>3, PostedMore, PostedByWorker, Zenon
    <3> QED
      BY <1>0, <2>1, <2>3, <3>1 DEF FlagsInv
  <2> QED
    BY <1>7, <2>2, <2>3, PreviewPosted
<1>8. CASE Dispatch
  <2>1. UNCHANGED <<job, scan, window>> /\ window \in {"open", "closing"}
    BY <1>8 DEF Dispatch, LoopRuns
  <2>2. /\ \A t : t # "progress" => (Posted(t)' <=> Posted(t) /\ Head(events).type # t)
        /\ Posted(Head(events).type)
    BY <1>8, PostedLess DEF Dispatch
  <2>3. ASSUME Head(events).type = "progress", OnProgress PROVE FlagsInv'
    <3>1. UNCHANGED <<enabled, toggle, running, previewRunning>>
      BY <2>3 DEF OnProgress
    <3> QED
      BY <1>0, <2>1, <2>2, <2>3, <3>1 DEF FlagsInv
  <2>4. ASSUME Head(events).type = "done", OnOperationFinished(Head(events).ok) PROVE FlagsInv'
    <3>1. /\ running' = FALSE /\ enabled' = TRUE /\ toggle' = ~previewRunning
          /\ UNCHANGED previewRunning
      BY <2>4, <1>b DEF OnOperationFinished, SetControlsEnabled
    <3>2. ~Posted("done")' /\ (Posted("preview")' <=> Posted("preview")) /\ job = << >>
      BY <1>0, <2>2, <2>4 DEF EventsInv
    <3> QED
      BY <1>0, <1>b, <2>1, <3>1, <3>2 DEF FlagsInv
  <2>5. ASSUME Head(events).type = "preview", OnPreviewFinished(Head(events)) PROVE FlagsInv'
    <3>1. previewRunning' = FALSE /\ toggle' = ~running /\ UNCHANGED <<enabled, running>>
      BY <2>5 DEF OnPreviewFinished
    <3>2. ~Posted("preview")' /\ (Posted("done")' <=> Posted("done")) /\ scan = << >>
      BY <1>0, <2>2, <2>5 DEF EventsInv
    <3> QED
      BY <1>0, <1>b, <2>1, <3>1, <3>2 DEF FlagsInv
  <2> QED
    BY <1>8, <2>3, <2>4, <2>5, Dispatched
<1>9. CASE Destroy
  <2>1. window' = "gone" /\ job' = << >> /\ scan' = << >> /\ events' = << >>
    BY <1>9 DEF Destroy, op_vars, preview_vars
  <2> QED
    BY <2>1 DEF FlagsInv
<1>10. CASE UNCHANGED vars
  BY <1>10, <1>c DEF vars, op_vars, preview_vars
<1> QED
  BY <1>1, <1>2, <1>3, <1>4, <1>5, <1>6, <1>7, <1>8, <1>9, <1>10 DEF Next, User, Handler, Worker

----------------------------------------------------------------------------
(* Secrets, and the mode of previews. *)

\* A passphrase leaves its field before an operation runs with it.
LEMMA SecretsStep == WindowInv /\ [Next]_vars => SecretsTaken'
<1> SUFFICES ASSUME WindowInv, [Next]_vars PROVE SecretsTaken'
  OBVIOUS
<1>0. SecretsTaken /\ TypeOK
  BY DEF WindowInv, TypedInv
<1>a. job' # << >> => ~Refused(job[1].pass)'
  BY JobStep DEF JobOK, Operation, Refused
<1>b. ASSUME UNCHANGED <<mode, pass, confirmation, running>> PROVE SecretsTaken'
  BY <1>0, <1>a, <1>b DEF SecretsTaken
<1>1. CASE \/ TypeInput \/ AddKeyfile \/ RemoveKeyfile \/ CheckLock \/ OpenAdvanced
           \/ EditAdvanced \/ CloseAdvanced \/ Dismiss \/ RunClicked \/ Answer
           \/ PreviewClicked \/ CloseEvent \/ LockMemory \/ Report \/ FinishJob
           \/ PreviewWork \/ Destroy
  BY <1>1, <1>b DEF field_vars, op_vars, Counted, Edited, RunRest, WorkerRest, TypeInput,
     AddKeyfile, RemoveKeyfile, CheckLock, OpenAdvanced, EditAdvanced, CloseAdvanced, Dismiss,
     RunClicked, Answer, PreviewClicked, CloseEvent, LockMemory, Report, FinishJob, PreviewWork,
     Destroy
<1>2. CASE TypePassphrase
  <2>1. UNCHANGED <<mode, confirmation, running>> /\ ~running
    BY <1>2, ReadyIsFree DEF TypePassphrase, Edited, op_vars
  <2> QED
    BY <1>0, <1>a, <2>1 DEF SecretsTaken
<1>3. CASE TypeConfirmation
  <2>1. UNCHANGED <<mode, pass, running>> /\ ~running /\ mode = "encrypt"
    BY <1>3, ReadyIsFree DEF TypeConfirmation, Edited, op_vars
  <2> QED
    BY <1>0, <1>a, <2>1 DEF SecretsTaken
<1>4. CASE SwitchMode
  <2>1. /\ UNCHANGED <<pass, running>> /\ ~running
        /\ mode' = "decrypt" => confirmation' = ""
    BY <1>4, ReadyIsFree DEF SwitchMode, Counted, Edited, op_vars
  <2> QED
    BY <1>0, <1>a, <2>1 DEF SecretsTaken
<1>5. CASE TakePassphrases
  <2>1. UNCHANGED mode /\ pass' = "" /\ ~running /\ (mode = "decrypt" => confirmation = "")
    BY <1>5, <1>0, StartsAlone DEF TakePassphrases, SecretsTaken
  <2>2. confirmation' = IF mode = "encrypt" /\ ~Refused(pass) THEN "" ELSE confirmation
    BY <1>5 DEF TakePassphrases
  <2>3. running' => ~Refused(pass)
    BY <1>5, <2>1, SecretsTakenOrNot
  <2> QED
    BY <1>0, <1>a, <2>1, <2>2, <2>3 DEF SecretsTaken, TypeOK
<1>6. CASE Dispatch
  <2>1. UNCHANGED <<mode, pass, confirmation>> /\ (UNCHANGED running \/ running' = FALSE)
    BY <1>6, Dispatched DEF Dispatch, OnProgress, OnOperationFinished, OnPreviewFinished, field_vars
  <2> QED
    BY <1>0, <1>a, <1>b, <2>1 DEF SecretsTaken
<1>7. CASE UNCHANGED vars
  BY <1>7, <1>b DEF vars, field_vars, op_vars
<1> QED
  BY <1>1, <1>2, <1>3, <1>4, <1>5, <1>6, <1>7 DEF Next, User, Handler, Worker

\* A cached preview with the key of some options is the preview of them.
LEMMA CachedPreview ==
    ASSUME WindowInv, NEW o, CacheHas(MakePreviewKey(o))
    PROVE  cache[1].result = GeneratePreview(o)
<1>1. PICK p \in OptionSet : cache = <<Entry(p)>>
  BY DEF WindowInv, TypedInv, PreviewOK, CacheHas
<1>2. MakePreviewKey(p) = MakePreviewKey(o) /\ cache[1].result = GeneratePreview(p)
  BY <1>1 DEF CacheHas, Entry
<1> QED
  BY <1>2, SameKeySamePreview

\* What is previewed, posted and shown stays of the current mode.
LEMMA ModeStep == WindowInv /\ [Next]_vars => ModeInv'
<1> SUFFICES ASSUME WindowInv, [Next]_vars PROVE ModeInv'
  OBVIOUS
<1>0. /\ FlagsInv /\ TypeOK /\ events \in Seq(Event)
      /\ ~crossed => ScanOfMode /\ PostedOfMode /\ ShownOfMode
  BY DEF WindowInv, TypedInv, PreviewOK, ModeInv
<1>a. (~crossed' => ScanOfMode' /\ PostedOfMode' /\ ShownOfMode') => ModeInv'
  BY DEF ModeInv
<1>b. UNCHANGED <<scan, mode>> /\ ScanOfMode => ScanOfMode'
  BY DEF ScanOfMode
<1>c. UNCHANGED <<events, mode>> /\ PostedOfMode => PostedOfMode'
  BY DEF PostedOfMode
<1>d. UNCHANGED <<shown, mode>> /\ ShownOfMode => ShownOfMode'
  BY DEF ShownOfMode, IsResult
<1>e. ASSUME NEW e, Post(e), PostedOfMode, UNCHANGED mode,
             e.type = "preview" => e.result.says = mode
      PROVE  PostedOfMode'
  <2>1. /\ Len(events) \in Nat /\ DOMAIN events = 1..Len(events)
        /\ DOMAIN events' = 1..(Len(events) + 1) /\ events'[Len(events) + 1] = e
        /\ \A i \in 1..Len(events) : events'[i] = events[i]
    BY <1>0, <1>e, AppendProperties, LenProperties DEF Post
  <2> SUFFICES ASSUME NEW i \in DOMAIN events', events'[i].type = "preview"
               PROVE  events'[i].result.says = mode'
    BY DEF PostedOfMode
  <2>2. CASE i \in 1..Len(events)
    BY <1>e, <2>1, <2>2 DEF PostedOfMode
  <2>3. CASE i = Len(events) + 1
    BY <1>e, <2>1, <2>3
  <2> QED
    BY <2>1, <2>2, <2>3
<1>1. CASE \/ TypeInput \/ TypePassphrase \/ TypeConfirmation \/ AddKeyfile
           \/ RemoveKeyfile \/ CheckLock \/ OpenAdvanced \/ EditAdvanced
           \/ CloseAdvanced \/ Dismiss \/ RunClicked \/ Answer \/ CloseEvent
           \/ LockMemory \/ TakePassphrases
  <2>1. UNCHANGED <<mode, scan, events, shown, crossed>>
    BY <1>1 DEF field_vars, preview_vars, Kept, Counted, Edited, RunRest, TypeInput,
     TypePassphrase, TypeConfirmation, AddKeyfile, RemoveKeyfile, CheckLock, OpenAdvanced,
     EditAdvanced, CloseAdvanced, Dismiss, RunClicked, Answer, CloseEvent, LockMemory,
     TakePassphrases
  <2> QED
    BY <1>0, <1>a, <1>b, <1>c, <1>d, <2>1
<1>2. CASE SwitchMode
  <2>1. /\ window = "open" /\ crossed' = previewRunning /\ shown' = << >>
        /\ UNCHANGED <<scan, events>>
    BY <1>2 DEF SwitchMode, Counted, Edited, Ready
  <2>2. ASSUME ~crossed' PROVE scan = << >> /\ ~Posted("preview")
    BY <1>0, <2>1, <2>2 DEF FlagsInv
  <2>3. ASSUME ~crossed' PROVE ScanOfMode' /\ PostedOfMode'
    BY <2>1, <2>2, <2>3 DEF ScanOfMode, PostedOfMode, Posted
  <2>4. ShownOfMode'
    BY <2>1 DEF ShownOfMode, IsResult
  <2> QED
    BY <1>a, <2>3, <2>4
<1>3. CASE PreviewClicked
  <2>1. UNCHANGED <<mode, events, crossed>>
    BY <1>3 DEF PreviewClicked, field_vars
  <2>2. ASSUME CacheHas(MakePreviewKey(Options)), shown' = <<cache[1].result>>, UNCHANGED scan
        PROVE  ModeInv'
    <3>1. cache[1].result = GeneratePreview(Options)
      BY <2>2, CachedPreview
    <3>2. shown'[1].says = mode
      BY <2>2, <3>1 DEF GeneratePreview, Options
    <3>3. ShownOfMode'
      BY <2>1, <3>2 DEF ShownOfMode
    <3> QED
      BY <1>0, <1>a, <1>b, <1>c, <2>1, <2>2, <3>3
  <2>3. ASSUME shown' = <<[says |-> "generating"]>>, scan' = <<Request(Options)>> PROVE ModeInv'
    <3>1. ShownOfMode'
      BY <2>3 DEF ShownOfMode, IsResult
    <3>2. scan'[1].options = Options
      BY <2>3 DEF Request
    <3>3. ScanOfMode'
      BY <2>1, <3>2 DEF ScanOfMode, Options
    <3> QED
      BY <1>0, <1>a, <1>c, <2>1, <3>1, <3>3
  <2> QED
    BY <1>3, <2>2, <2>3, PreviewStarted
<1>4. CASE Report
  <2>1. UNCHANGED <<mode, scan, shown, crossed>> /\ Post([type |-> "progress"])
    BY <1>4 DEF Report, WorkerRest, field_vars, preview_vars
  <2>2. PostedOfMode => PostedOfMode'
    BY <1>e, <2>1
  <2> QED
    BY <1>0, <1>a, <1>b, <1>d, <2>1, <2>2
<1>5. CASE FinishJob
  <2>1. PICK ok \in BOOLEAN : Post(Done(ok))
    BY <1>5 DEF FinishJob
  <2>2. UNCHANGED <<mode, scan, shown, crossed>>
    BY <1>5 DEF FinishJob, WorkerRest, field_vars, preview_vars
  <2>3. PostedOfMode => PostedOfMode'
    BY <1>e, <2>1, <2>2, PostedByWorker
  <2> QED
    BY <1>0, <1>a, <1>b, <1>d, <2>2, <2>3
<1>6. CASE PreviewWork
  <2>1. UNCHANGED <<mode, shown, crossed>> /\ scan # << >> /\ scan' = << >>
    BY <1>6 DEF PreviewWork, field_vars
  <2>2. ScanOfMode'
    BY <2>1 DEF ScanOfMode
  <2>3. CASE UNCHANGED events
    BY <1>0, <1>a, <1>c, <1>d, <2>1, <2>2, <2>3
  <2>4. ASSUME NEW o \in OptionSet, scan[1].options = o, Post(PreviewEvent(o)), ~crossed
        PROVE  PostedOfMode'
    <3>1. PreviewEvent(o).result.says = mode
      BY <1>0, <2>1, <2>4 DEF ScanOfMode, PreviewEvent, GeneratePreview
    <3> QED
      BY <1>0, <1>e, <2>1, <2>4, <3>1
  <2> QED
    BY <1>6, <1>0, <1>a, <1>d, <2>1, <2>2, <2>3, <2>4, PreviewPosted
<1>7. CASE Dispatch
  <2>1. UNCHANGED <<mode, scan, crossed>> /\ events # << >> /\ events' = Tail(events)
    BY <1>7 DEF Dispatch, field_vars
  <2>2. /\ \A i \in DOMAIN events' : i + 1 \in DOMAIN events /\ events'[i] = events[i + 1]
        /\ 1 \in DOMAIN events /\ events[1] = Head(events)
    BY <1>0, <2>1, HeadTailProperties, LenProperties
  <2>3. PostedOfMode => PostedOfMode'
    BY <2>1, <2>2 DEF PostedOfMode
  <2>4. UNCHANGED shown \/ (Head(events).type = "preview" /\ shown' = <<Head(events).result>>)
    BY <1>7, Dispatched DEF OnProgress, OnOperationFinished, OnPreviewFinished
  <2>5. PostedOfMode /\ ShownOfMode => ShownOfMode'
    BY <1>d, <2>1, <2>2, <2>4 DEF PostedOfMode, ShownOfMode
  <2> QED
    BY <1>0, <1>a, <1>b, <2>1, <2>3, <2>5
<1>8. CASE Destroy
  <2>1. UNCHANGED <<mode, scan, shown, crossed>> /\ events' = << >>
    BY <1>8 DEF Destroy, field_vars, preview_vars
  <2>2. PostedOfMode'
    BY <2>1 DEF PostedOfMode
  <2> QED
    BY <1>0, <1>a, <1>b, <1>d, <2>1, <2>2
<1>9. CASE UNCHANGED vars
  <2>1. UNCHANGED <<mode, scan, events, shown, crossed>>
    BY <1>9 DEF vars, field_vars, preview_vars
  <2> QED
    BY <1>0, <1>a, <1>b, <1>c, <1>d, <2>1
<1> QED
  BY <1>1, <1>2, <1>3, <1>4, <1>5, <1>6, <1>7, <1>8, <1>9 DEF Next, User, Handler, Worker

----------------------------------------------------------------------------
(* The theorems. *)

\* The invariant holds at the start.
LEMMA WindowInit == Init => WindowInv
<1> SUFFICES ASSUME Init PROVE WindowInv
  OBVIOUS
<1>0. events = << >> /\ DOMAIN events = {}
  <2>1. events = << >>
    BY DEF Init
  <2>2. DOMAIN << >> = {}
    OBVIOUS
  <2> QED
    BY <2>1, <2>2
<1>1. TypedInv
  BY TypeInit
<1>2. RunInv /\ SecretsTaken
  BY DEF Init, RunInv, SecretsTaken
<1>3. ~Posted("done") /\ ~Posted("preview") /\ PostedOnce(events)
  BY <1>0 DEF Posted, PostedOnce
<1>4. EventsInv /\ FlagsInv
  BY <1>3 DEF Init, EventsInv, FlagsInv
<1>5. ModeInv
  BY <1>0 DEF Init, ModeInv, ScanOfMode, PostedOfMode, ShownOfMode, IsResult
<1> QED
  BY <1>1, <1>2, <1>4, <1>5 DEF WindowInv

\* The window, its modal dialogs, its two threads and the events between them
\* keep in step: the inductive invariant of MainWindow.
THEOREM WindowInvariant == Spec => []WindowInv
<1>1. Init => WindowInv
  BY WindowInit
<1>2. WindowInv /\ [Next]_vars => WindowInv'
  BY TypeStep, FieldsStep, PreviewStep, JobStep, RunStep, EventsStep, FlagsStep, SecretsStep,
     ModeStep, Zenon DEF WindowInv, TypedInv
<1> QED
  BY <1>1, <1>2, PTL DEF Spec

\* Every variable keeps its type; a question is on the screen exactly while
\* onRun() waits for its answer.
THEOREM TypeCorrect == Spec => []TypeOK
<1>1. WindowInv => TypeOK
  BY DEF WindowInv, TypedInv
<1> QED
  BY <1>1, WindowInvariant, PTL

\* m_operationRunning, m_previewRunning and the controls tell what the two
\* threads do, and onRun() and triggerPreview() start neither of them twice.
THEOREM FlagsTellTruth == Spec => []ControlsTellTruth
<1>1. WindowInv => ControlsTellTruth
  <2> SUFFICES ASSUME WindowInv, window = "open" PROVE ControlsTellTruth
    BY DEF ControlsTellTruth
  <2> DEFINE D == {i \in DOMAIN events : events[i].type = "done"}
  <2>1. Cardinality(D) <= 1
    <3>1. CASE D = {}
      BY <3>1, FS_EmptySet
    <3>2. ASSUME NEW i \in D PROVE D = {i}
      BY DEF WindowInv, EventsInv, PostedOnce
    <3>3. ASSUME NEW i \in D PROVE Cardinality(D) = 1
      <4>1. D = {i}
        BY <3>2
      <4> HIDE DEF D
      <4> QED
        BY <4>1, FS_Singleton
    <3> QED
      BY <3>1, <3>3
  <2>2. /\ running <=> job # << >> \/ Posted("done")
        /\ previewRunning <=> scan # << >> \/ Posted("preview")
        /\ enabled = ~running /\ toggle = (~running /\ ~previewRunning)
        /\ Posted("done") => job = << >>
    BY DEF WindowInv, FlagsInv, EventsInv
  <2> QED
    BY <2>1, <2>2 DEF ControlsTellTruth
<1> QED
  BY <1>1, WindowInvariant, PTL

\* closeEvent() never closes the window under an operation, and no outcome is
\* posted to a window that is closing or gone.
THEOREM CloseKeepsOutcomes == Spec => []CloseLosesNothing
<1>1. WindowInv => CloseLosesNothing
  BY DEF WindowInv, FlagsInv, CloseLosesNothing, Posted
<1> QED
  BY <1>1, WindowInvariant, PTL

\* onRun() starts only options that the core accepts, and that were confirmed
\* as they are run, whatever was edited, asked, cancelled or posted before.
THEOREM RunsAgreedOptions == Spec => []RunsAsAgreed
<1>1. WindowInv => RunsAsAgreed
  <2> SUFFICES ASSUME WindowInv, job # << >> PROVE RunsAsAgreed
    BY DEF RunsAsAgreed
  <2>1. PICK o \in OptionSet, p \in Usable, n \in 0..Phases :
            /\ job = <<Operation(ToCoreParams(o), p, n, job[1].confirmed)>>
            /\ Agreed(o, job[1].confirmed)
    BY DEF WindowInv, TypedInv, JobOK
  <2>2. job[1].options = ToCoreParams(o)
    BY <2>1 DEF Operation
  <2>3. ToCoreParams(o).mode = o.mode /\ ToCoreParams(o).form = o.form
    BY DEF ToCoreParams
  <2>4. o.mode \in {"encrypt", "decrypt"}
    BY DEF OptionSet
  <2>5. ASSUME NEW q \in Questions(o, supported)
        PROVE  \E a \in job[1].confirmed :
                   a.question = q /\ ToCoreParams(a.options) = ToCoreParams(o)
    <3>1. [question |-> q, options |-> o] \in job[1].confirmed
      BY <2>1 DEF Agreed
    <3> QED
      BY <3>1
  <2>6. CASE o.mode = "encrypt"
    <3>1. ValidSizes(o.form)
      BY <2>1, <2>6 DEF Agreed, ValidOptions, ValidEncrypt, ValidSizes
    <3> QED
      BY <2>2, <2>3, <2>6, <3>1 DEF RunsAsAgreed
  <2>7. CASE o.mode = "decrypt"
    <3>1. ValidLimit(o.form.limit)
      BY <2>1, <2>7 DEF Agreed, ValidOptions, ValidDecrypt
    <3>2. /\ o.form.overwrite => "overwrite" \in Questions(o, supported)
          /\ ResolveHardened(o.form.hardened, supported) # "HardenedActive"
                => "portable" \in Questions(o, supported)
      BY <2>7 DEF Questions
    <3> QED
      BY <2>2, <2>3, <2>5, <2>7, <3>1, <3>2, Zenon DEF RunsAsAgreed
  <2> QED
    BY <2>4, <2>6, <2>7
<1> QED
  BY <1>1, WindowInvariant, PTL

\* While an operation runs no field holds a passphrase, a hidden field never
\* does, and the worker has one that extractPassphrase() accepted.
THEOREM SecretsAreTaken == Spec => []SecretsTaken
<1>1. WindowInv => SecretsTaken
  BY DEF WindowInv
<1> QED
  BY <1>1, WindowInvariant, PTL

\* GuiPreviewCache never answers with the preview of other options, and the
\* preview shown is of the current mode unless that was switched meanwhile.
THEOREM PreviewsAreHonest == Spec => []PreviewHonest
<1>1. WindowInv => PreviewHonest
  <2> SUFFICES ASSUME WindowInv PROVE PreviewHonest
    OBVIOUS
  <2>1. CacheHas(MakePreviewKey(Options)) => cache[1].result = GeneratePreview(Options)
    BY CachedPreview
  <2>2. IsResult /\ ~crossed => shown[1].says = mode
    BY DEF WindowInv, ModeInv, ShownOfMode
  <2> QED
    BY <2>1, <2>2 DEF PreviewHonest
<1> QED
  BY <1>1, WindowInvariant, PTL
=============================================================================
