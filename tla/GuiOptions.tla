----------------------------- MODULE GuiOptions -----------------------------
(***************************************************************************)
(* The options of the graphical interface (gui/GuiOptions, the option      *)
(* dialogs, gui/GuiPreview): how the texts of a form become options, which *)
(* options onRun() lets through, what has to be confirmed, and what a      *)
(* preview is made of and stored under.  Sizes are those of ArchiveLayout. *)
(***************************************************************************)
EXTENDS ArchiveLayout

CONSTANTS DefaultChunk, DefaultShard,  \* of GuiEncryptOptions
          DefaultLimit, LimitMax       \* KdfResourcePolicy and its maximum

\* A text field of a dialog: empty, not a size, or the size it says.
Blank == -1
Garbage == -2
ParseText(text, default) == CASE text = Blank -> default [] text = Garbage -> 0 [] OTHER -> text

\* EncryptOptionsWidget::apply().  The text of the fixed size counts only for
\* that policy.
ApplyEncrypt(form) ==
    LET fixed == IF form.padding = "fixed" THEN form.fixed ELSE Blank IN
    [form |-> [chunk |-> ParseText(form.chunk, DefaultChunk),
               shard_size |-> ParseText(form.shard, DefaultShard),
               policy |-> form.padding, fixed |-> ParseText(fixed, 0)],
     parse_errors |-> Garbage \in {form.chunk, form.shard, fixed}]

\* DecryptOptionsWidget::apply(); one limit stands for the three of the policy.
ApplyDecrypt(form) ==
    [form |-> [overwrite |-> form.overwrite, hardened |-> form.hardened,
               limit |-> ParseText(form.limit, DefaultLimit)],
     parse_errors |-> form.limit = Garbage]

\* resolve_hardened_extract().
ResolveHardened(hardened, supported) ==
    CASE hardened = "off" -> "ExplicitNonHardened"
      [] hardened # "off" /\ supported -> "HardenedActive"
      [] hardened = "on" /\ ~supported -> "UnsupportedError"
      [] OTHER -> "AutoFallbackNonHardened"

\* validate(GuiEncryptOptions).
ValidEncrypt(o) ==
    /\ o.input # "" /\ ~o.parse_errors
    /\ o.form.chunk \in ChunkMin..ChunkMax /\ o.form.chunk \in PowersOfTwo
    /\ o.form.shard_size # 0 /\ o.form.shard_size >= FrameBytes + o.form.chunk
    /\ o.form.policy = "fixed" => o.form.fixed # 0 /\ o.form.fixed % o.form.chunk = 0

\* validate_kdf_resource_policy().
ValidLimit(limit) == limit # 0 /\ limit <= LimitMax

\* validate(GuiDecryptOptions).
ValidDecrypt(o, supported) ==
    /\ o.input # "" /\ ~o.parse_errors
    /\ ResolveHardened(o.form.hardened, supported) # "UnsupportedError"
    /\ ValidLimit(o.form.limit)

ValidOptions(o, supported) ==
    IF o.mode = "encrypt" THEN ValidEncrypt(o) ELSE ValidDecrypt(o, supported)

\* Mutant: only an explicit "off" is asked about.
QuestionsExplicit(o, supported) ==
    IF o.mode = "encrypt" THEN {}
    ELSE (IF o.form.overwrite THEN {"overwrite"} ELSE {})
         \cup (IF o.form.hardened = "off" THEN {"portable"} ELSE {})

\* The confirmations onRun() asks for.
Questions(o, supported) ==
    IF o.mode = "encrypt" THEN {}
    ELSE (IF o.form.overwrite THEN {"overwrite"} ELSE {})
         \cup (IF ResolveHardened(o.form.hardened, supported) # "HardenedActive"
               THEN {"portable"} ELSE {})

\* to_core_params(): everything but the parse errors.
ToCoreParams(o) ==
    [mode |-> o.mode, input |-> o.input, keyfiles |-> o.keyfiles, form |-> o.form]

----------------------------------------------------------------------------
Basenames(keyfiles) == [i \in DOMAIN keyfiles |-> keyfiles[i].base]

\* make_preview_key().
MakePreviewKey(o) ==
    [mode |-> o.mode, input |-> o.input, basenames |-> Basenames(o.keyfiles), form |-> o.form]

\* generate_cmd_summary(): the flags of the command line.
CmdSummary(o) == o.form

\* generate_preview(): the texts name the mode, the path, the base names and
\* the options.
GeneratePreview(o) ==
    [says |-> o.mode, path |-> o.input, names |-> Basenames(o.keyfiles), values |-> CmdSummary(o)]

\* scan_input_bytes(), run for an encryption: only the constructor of the
\* iterator reports errors to ec, its increments throw.
ScanMayThrow(o) == o.mode = "encrypt" /\ o.input # ""
=============================================================================
