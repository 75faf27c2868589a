----------------------------- MODULE MainWindow -----------------------------
(***************************************************************************)
(* gui/MainWindow: the fields, the modal dialogs, the run of an operation  *)
(* in a worker thread, the preview made by another thread, the events both *)
(* post to the event loop, and closing.  The event loop also runs inside   *)
(* modal dialogs, where posted events are handled but the window takes no  *)
(* input.  The output path is treated by the code as the input path is.    *)
(***************************************************************************)
EXTENDS GuiOptions

CONSTANTS Inputs, Keyfiles, Passphrases,   \* what may be typed or picked
          EncryptForms, DecryptForms,      \* what the option dialogs may say
          DefaultEncryptForm, DefaultDecryptForm,
          Usable,        \* passphrases neither empty nor over kMaxPassphraseBytes
          Phases,        \* progress events of an operation
          MaxKeyfiles,   \* bound on the list of key files
          MaxEdits       \* bound on the user's changes, passphrases not counted

ASSUME PhasesAssumption == Phases \in Nat

VARIABLES mode, input, keyfiles, pass, confirmation, lock, require, eform, dform,  \* the widgets
          supported,     \* m_platformSupportFn()
          dialog, saved, \* the modal dialog, and what exec() has saved
          run, asked,    \* where onRun() is, and what was confirmed in it
          enabled, toggle,  \* the controls, and the preview button
          running, job,  \* m_operationRunning, and the worker's operation
          previewRunning, scan,  \* m_previewRunning, and the preview worker's request
          events,        \* posted to the event loop
          shown, cache,  \* the preview text: none, "generating" or a result; m_previewCache
          status,        \* the kind of message in the status bar
          window,        \* open, closing, gone or crashed
          edits, crossed \* observations: changes so far; mode switched under a preview

field_vars == <<mode, input, keyfiles, pass, confirmation, lock, require, eform, dform>>
run_vars == <<dialog, saved, run, asked>>
op_vars == <<enabled, running, job>>
preview_vars == <<previewRunning, scan, shown, cache>>
vars == <<field_vars, supported, run_vars, op_vars, toggle, preview_vars, events, status, window,
          edits, crossed>>

Applied == IF mode = "encrypt" THEN ApplyEncrypt(eform) ELSE ApplyDecrypt(dform)
Options ==
    [mode |-> mode, input |-> input, keyfiles |-> keyfiles, form |-> Applied.form,
     parse_errors |-> Applied.parse_errors]

Init ==
    /\ mode = "encrypt" /\ input = "" /\ keyfiles = << >> /\ pass = "" /\ confirmation = ""
    /\ lock = FALSE /\ require = FALSE /\ eform = DefaultEncryptForm /\ dform = DefaultDecryptForm
    /\ supported \in BOOLEAN /\ dialog = "none" /\ saved = << >> /\ run = "idle" /\ asked = {}
    /\ enabled = TRUE /\ toggle = TRUE /\ running = FALSE /\ job = << >>
    /\ previewRunning = FALSE /\ scan = << >> /\ events = << >> /\ shown = << >> /\ cache = << >>
    /\ status = "none" /\ window = "open" /\ edits = 0 /\ crossed = FALSE

----------------------------------------------------------------------------
\* The user at the fields.  Editing needs an enabled control; the browse
\* buttons and those of the key file list are never disabled.
Alive == window # "crashed"   \* a crash ends everything
Ready == window = "open" /\ dialog = "none" /\ run = "idle"
Edited ==
    /\ Ready
    /\ UNCHANGED <<supported, run_vars, op_vars, toggle, previewRunning, scan, cache, events,
                   status, window>>
Counted == Edited /\ edits < MaxEdits /\ edits' = edits + 1
Kept == UNCHANGED <<shown, crossed>>

TypeInput == \* and onBrowseInput(), which never empties the path
    /\ Counted /\ Kept
    /\ \E i \in Inputs \cup {""} : i # input /\ (enabled \/ i # "") /\ input' = i
    /\ UNCHANGED <<mode, keyfiles, pass, confirmation, lock, require, eform, dform>>
TypePassphrase ==
    /\ Edited /\ Kept /\ UNCHANGED edits /\ enabled /\ pass' \in Passphrases \ {pass}
    /\ UNCHANGED <<mode, input, keyfiles, confirmation, lock, require, eform, dform>>
TypeConfirmation ==
    /\ Edited /\ Kept /\ UNCHANGED edits /\ enabled /\ mode = "encrypt"
    /\ confirmation' \in Passphrases \ {confirmation}
    /\ UNCHANGED <<mode, input, keyfiles, pass, lock, require, eform, dform>>
AddKeyfile ==
    /\ Counted /\ Kept /\ Len(keyfiles) < MaxKeyfiles
    /\ \E k \in Keyfiles : keyfiles' = Append(keyfiles, k)
    /\ UNCHANGED <<mode, input, pass, confirmation, lock, require, eform, dform>>
RemoveKeyfile ==
    /\ Counted /\ Kept
    /\ \/ \E i \in DOMAIN keyfiles : keyfiles' = RemoveAt(keyfiles, i)
       \/ keyfiles # << >> /\ keyfiles' = << >>
    /\ UNCHANGED <<mode, input, pass, confirmation, lock, require, eform, dform>>
CheckLock ==
    /\ Counted /\ Kept /\ enabled
    /\ \/ lock' = ~lock /\ UNCHANGED require
       \/ lock /\ require' = ~require /\ UNCHANGED lock
    /\ UNCHANGED <<mode, input, keyfiles, pass, confirmation, eform, dform>>

\* Mutant: the confirmation field is hidden but keeps its text.
SwitchModeKeeps ==
    /\ Counted /\ enabled
    /\ mode' = IF mode = "encrypt" THEN "decrypt" ELSE "encrypt"
    /\ shown' = << >> /\ crossed' = previewRunning
    /\ UNCHANGED <<input, keyfiles, pass, confirmation, lock, require, eform, dform>>

\* update_mode_ui().
SwitchMode ==
    /\ Counted /\ enabled
    /\ mode' = IF mode = "encrypt" THEN "decrypt" ELSE "encrypt"
    /\ confirmation' = IF mode' = "encrypt" THEN confirmation ELSE ""
    /\ shown' = << >> /\ crossed' = previewRunning
    /\ UNCHANGED <<input, keyfiles, pass, lock, require, eform, dform>>

\* The dialog of advanced options works on the live widgets; Cancel restores
\* what exec() saved.
OpenAdvanced ==
    /\ Ready /\ enabled
    /\ dialog' = "advanced" /\ saved' = <<eform, dform>>
    /\ UNCHANGED <<field_vars, supported, run, asked, op_vars, toggle, preview_vars, events, status,
                   window, edits, crossed>>
EditAdvanced ==
    /\ Alive /\ dialog = "advanced" /\ edits < MaxEdits /\ edits' = edits + 1
    /\ \/ mode = "encrypt" /\ eform' \in EncryptForms \ {eform} /\ UNCHANGED dform
       \/ mode = "decrypt" /\ dform' \in DecryptForms \ {dform} /\ UNCHANGED eform
    /\ UNCHANGED <<mode, input, keyfiles, pass, confirmation, lock, require, supported, run_vars,
                   op_vars, toggle, preview_vars, events, status, window, crossed>>
CloseAdvanced ==
    /\ Alive /\ dialog = "advanced" /\ dialog' = "none" /\ saved' = << >>
    /\ \/ UNCHANGED <<eform, dform>>
       \/ eform' = saved[1] /\ dform' = saved[2]
    /\ UNCHANGED <<mode, input, keyfiles, pass, confirmation, lock, require, supported, run, asked,
                   op_vars, toggle, preview_vars, events, status, window, edits, crossed>>

\* A message box is closed.
Dismiss ==
    /\ Alive /\ dialog = "message" /\ dialog' = "none"
    /\ UNCHANGED <<field_vars, supported, saved, run, asked, op_vars, toggle, preview_vars, events,
                   status, window, edits, crossed>>

----------------------------------------------------------------------------
\* onRun().  It gives way to the event loop only inside its dialogs.
RunRest == UNCHANGED <<supported, saved, preview_vars, events, window, edits, crossed>>
AskNext(done) ==
    LET left == {q \in Questions(Options, supported) : ~\E a \in done : a.question = q}
    IN  IF left = {} THEN run' = "lock" /\ dialog' = "none"
        ELSE /\ run' = "confirm"
             /\ dialog' = IF "overwrite" \in left THEN "overwrite" ELSE "portable"

RunClicked ==
    /\ Ready /\ enabled /\ asked' = {}
    /\ IF ValidOptions(Options, supported) THEN AskNext({})
       ELSE dialog' = "message" /\ UNCHANGED run
    /\ RunRest /\ UNCHANGED <<field_vars, op_vars, toggle, status>>

Answer ==
    /\ Alive /\ run = "confirm"
    /\ \/ /\ asked' = asked \cup {[question |-> dialog, options |-> Options]}
          /\ AskNext(asked')
       \/ run' = "idle" /\ dialog' = "none" /\ asked' = {}
    /\ RunRest /\ UNCHANGED <<field_vars, op_vars, toggle, status>>

\* The memory lock policy, before any secret is touched.
LockMemory ==
    /\ Alive /\ run = "lock"
    /\ \/ run' = "secrets" /\ UNCHANGED status
       \/ lock /\ require /\ run' = "idle" /\ status' = "aborted"
       \/ lock /\ ~require /\ run' = "secrets" /\ status' = "warning"
    /\ RunRest /\ UNCHANGED <<field_vars, dialog, asked, op_vars, toggle>>

\* extractPassphrase() clears the field whatever it finds in it.
Refused(text) == text \notin Usable

SetControlsEnabled(on) == enabled' = on /\ toggle' = (on /\ ~previewRunning)

Operation(options, passphrase, left, confirmed) ==
    [options |-> options, pass |-> passphrase, left |-> left, confirmed |-> confirmed]

StartOperation ==
    /\ SetControlsEnabled(FALSE) /\ running' = TRUE
    /\ job' = <<Operation(ToCoreParams(Options), pass, Phases, asked)>>
    /\ UNCHANGED <<dialog, status>>

TakePassphrases ==
    /\ Alive /\ run = "secrets" /\ run' = "idle" /\ pass' = ""
    /\ confirmation' = IF mode = "encrypt" /\ ~Refused(pass) THEN "" ELSE confirmation
    /\ IF Refused(pass) \/ (mode = "encrypt" /\ Refused(confirmation))
       THEN dialog' = "message" /\ UNCHANGED <<status, op_vars, toggle>>
       ELSE IF mode = "encrypt" /\ pass # confirmation
       THEN status' = "mismatch" /\ UNCHANGED <<dialog, op_vars, toggle>>
       ELSE StartOperation
    /\ RunRest /\ UNCHANGED <<mode, input, keyfiles, lock, require, eform, dform, asked>>

----------------------------------------------------------------------------
\* The worker thread: phases are posted, then the outcome.
Post(e) == events' = Append(events, e)
Done(ok) == [type |-> "done", ok |-> ok]
WorkerRest ==
    UNCHANGED <<field_vars, supported, run_vars, enabled, running, toggle, preview_vars, status,
                window, edits, crossed>>

PhaseReported ==
    job' = <<Operation(job[1].options, job[1].pass, job[1].left - 1, job[1].confirmed)>>

\* Mutant: phases are reported without end.
ReportEndless ==
    /\ Alive /\ job # << >> /\ Post([type |-> "progress"])
    /\ PhaseReported
    /\ WorkerRest

Report ==
    /\ Alive /\ job # << >> /\ job[1].left > 0 /\ Post([type |-> "progress"])
    /\ PhaseReported
    /\ WorkerRest

\* core_encrypt() or core_decrypt() has returned or thrown.
FinishJob ==
    /\ Alive /\ job # << >> /\ job' = << >>
    /\ \E ok \in BOOLEAN : (ok => job[1].left = 0) /\ Post(Done(ok))
    /\ WorkerRest

\* GuiPreviewCache: one key with its result.
CacheHas(key) == cache # << >> /\ cache[1].key = key
CacheSet(key, result) == cache' = <<[key |-> key, result |-> result]>>

\* The click on the preview button; triggerPreview() if there is no text yet.
PreviewClicked ==
    /\ Ready /\ toggle /\ shown = << >> /\ ~previewRunning
    /\ LET key == MakePreviewKey(Options) IN
       IF CacheHas(key)
       THEN /\ shown' = <<cache[1].result>>
            /\ UNCHANGED <<previewRunning, toggle, scan>>
       ELSE /\ previewRunning' = TRUE /\ toggle' = FALSE
            /\ shown' = <<[says |-> "generating"]>>
            /\ scan' = <<[options |-> Options, key |-> key]>>
    /\ UNCHANGED <<field_vars, supported, run_vars, op_vars, cache, events, status, window, edits,
                   crossed>>

\* The preview worker posts its result.  An exception of the directory scan
\* leaves the thread and ends the process.
PreviewWork ==
    /\ Alive /\ scan # << >> /\ scan' = << >>
    /\ \/ /\ Post([type |-> "preview", key |-> scan[1].key,
                   result |-> GeneratePreview(scan[1].options)])
          /\ UNCHANGED window
       \/ /\ ScanMayThrow(scan[1].options)
          /\ window' = "crashed" /\ UNCHANGED events
    /\ UNCHANGED <<field_vars, supported, run_vars, op_vars, toggle, previewRunning, shown, cache,
                   status, edits, crossed>>

----------------------------------------------------------------------------
\* The event loop.
OnProgress ==
    /\ status' = "progress"
    /\ UNCHANGED <<dialog, enabled, running, toggle, previewRunning, shown, cache>>

OnOperationFinished(ok) ==
    /\ running' = FALSE /\ SetControlsEnabled(TRUE)
    /\ IF ok THEN status' = "result" /\ UNCHANGED dialog
             ELSE dialog' = "message" /\ UNCHANGED status
    /\ UNCHANGED <<previewRunning, shown, cache>>

\* Mutant: the result is stored under the options of now.
OnPreviewFinishedNow(e) ==
    /\ previewRunning' = FALSE /\ toggle' = ~running
    /\ CacheSet(MakePreviewKey(Options), e.result)
    /\ shown' = <<e.result>>
    /\ UNCHANGED <<dialog, enabled, running, status>>

\* Mutant: the preview button is enabled whatever else is going on.
OnPreviewFinishedEnables(e) ==
    /\ previewRunning' = FALSE /\ toggle' = TRUE
    /\ CacheSet(e.key, e.result)
    /\ shown' = <<e.result>>
    /\ UNCHANGED <<dialog, enabled, running, status>>

OnPreviewFinished(e) ==
    /\ previewRunning' = FALSE /\ toggle' = ~running
    /\ CacheSet(e.key, e.result)
    /\ shown' = <<e.result>>
    /\ UNCHANGED <<dialog, enabled, running, status>>

\* Mutant: posted events wait until dialogs are closed.
LoopRunsOutside ==
    window \in {"open", "closing"} /\ run = "idle" /\ dialog = "none"

\* The loop runs when no handler does, or inside a handler's dialog.
LoopRuns == window \in {"open", "closing"} /\ (run = "idle" \/ dialog # "none")

Dispatch ==
    /\ LoopRuns /\ events # << >> /\ events' = Tail(events)
    /\ LET e == Head(events) IN
       \/ e.type = "progress" /\ OnProgress
       \/ e.type = "done" /\ OnOperationFinished(e.ok)
       \/ e.type = "preview" /\ OnPreviewFinished(e)
    /\ UNCHANGED <<field_vars, supported, saved, run, asked, job, scan, window, edits, crossed>>

\* Mutant: the window closes at once.
CloseEventAccepts ==
    /\ Ready /\ window' = "closing" /\ UNCHANGED status
    /\ UNCHANGED <<field_vars, supported, run_vars, op_vars, toggle, preview_vars, events, edits,
                   crossed>>

\* closeEvent().
CloseEvent ==
    /\ Ready
    /\ IF running THEN status' = "busy" /\ UNCHANGED window
                  ELSE window' = "closing" /\ UNCHANGED status
    /\ UNCHANGED <<field_vars, supported, run_vars, op_vars, toggle, preview_vars, events, edits,
                   crossed>>

\* ~MainWindow() joins both threads; events still posted find no window.
Destroy ==
    /\ window = "closing" /\ job = << >> /\ scan = << >>
    /\ window' = "gone" /\ events' = << >>
    /\ UNCHANGED <<field_vars, supported, run_vars, op_vars, toggle, preview_vars, status, edits,
                   crossed>>

User ==
    \/ TypeInput \/ TypePassphrase \/ TypeConfirmation \/ AddKeyfile \/ RemoveKeyfile \/ CheckLock
    \/ SwitchMode \/ OpenAdvanced \/ EditAdvanced \/ CloseAdvanced \/ Dismiss
    \/ RunClicked \/ Answer \/ PreviewClicked \/ CloseEvent

Handler == LockMemory \/ TakePassphrases
Worker == Report \/ FinishJob

Next == User \/ Handler \/ Worker \/ PreviewWork \/ Dispatch \/ Destroy

\* Threads that can go on do; the user need not do anything.  A turn of the
\* event loop delivers what was posted, however busy the user keeps it.
Spec ==
    /\ Init /\ [][Next]_vars
    /\ WF_vars(Handler) /\ WF_vars(Worker) /\ WF_vars(PreviewWork)
    /\ SF_vars(Dispatch) /\ WF_vars(Destroy)

----------------------------------------------------------------------------
Posted(type) == \E i \in DOMAIN events : events[i].type = type
IsResult == shown # << >> /\ shown[1].says # "generating"

\* Types of the variables.
TypeOK ==
    /\ mode \in {"encrypt", "decrypt"} /\ run \in {"idle", "confirm", "lock", "secrets"}
    /\ dialog \in {"none", "advanced", "message", "overwrite", "portable"}
    /\ {enabled, toggle, running, previewRunning, lock, require} \subseteq BOOLEAN
    /\ job # << >> => job[1].left \in 0..Phases
    /\ run = "confirm" <=> dialog \in {"overwrite", "portable"}
    /\ status \in {"none", "aborted", "warning", "mismatch", "progress", "busy", "result"}
    /\ window \in {"open", "closing", "gone", "crashed"}

\* The flags of the window tell what the threads do: controls are disabled
\* exactly while an operation runs or its outcome is on its way, the preview
\* button also while a preview is being made; neither thread is started twice.
ControlsTellTruth ==
    window = "open" =>
        /\ running <=> job # << >> \/ Posted("done")
        /\ previewRunning <=> scan # << >> \/ Posted("preview")
        /\ enabled = ~running /\ toggle = (~running /\ ~previewRunning)
        /\ Cardinality({i \in DOMAIN events : events[i].type = "done"}) <= 1
        /\ Posted("done") => job = << >>

\* The user never closes the window under a running operation, and no outcome
\* of one is lost by closing.
CloseLosesNothing == window \in {"closing", "gone"} => job = << >> /\ ~Posted("done")

\* What runs is what was agreed to: its sizes and limits are accepted by
\* validate_encrypt_params() and validate_decrypt_params(), and what needs a
\* confirmation has been confirmed for the very options that are run.
RunsAsAgreed ==
    job # << >> =>
        LET o == job[1].options
            confirmed(q) == \E a \in job[1].confirmed :
                                a.question = q /\ ToCoreParams(a.options) = o
        IN  IF o.mode = "encrypt" THEN ValidSizes(o.form)
            ELSE /\ ValidLimit(o.form.limit)
                 /\ o.form.overwrite => confirmed("overwrite")
                 /\ ResolveHardened(o.form.hardened, supported) # "HardenedActive"
                        => confirmed("portable")

\* While an operation runs the passphrase is in its worker only: no field holds
\* one, and no hidden field ever does.
SecretsTaken ==
    /\ running => pass = "" /\ confirmation = ""
    /\ mode = "decrypt" => confirmation = ""
    /\ job # << >> => ~Refused(job[1].pass)

\* A preview taken from the cache is the one of the current options, although
\* they may have changed while it was being made; and the preview shown is one
\* of the current mode, unless the mode was switched while it was being made.
PreviewHonest ==
    /\ CacheHas(MakePreviewKey(Options)) => cache[1].result = GeneratePreview(Options)
    /\ IsResult /\ ~crossed => shown[1].says = mode

\* The window always comes back: controls and preview button are released, a
\* closed window is destroyed.  The operation itself is taken to end.
WindowRecovers ==
    /\ running ~> (enabled \/ window = "crashed")
    /\ previewRunning ~> (~previewRunning \/ window # "open")
    /\ (window = "closing") ~> (window \in {"gone", "crashed"})

\* The process is not ended under a running operation.
WorkNotInterrupted == window # "open" => job = << >>
=============================================================================
