---------------------------- MODULE MCMainWindow ----------------------------
(***************************************************************************)
(* Model checking of MainWindow with one path, two passphrases, a few      *)
(* forms and a bounded number of changes by the user.                      *)
(***************************************************************************)
EXTENDS MainWindow

EncryptForm(chunk, shard, padding, fixed) ==
    [chunk |-> chunk, shard |-> shard, padding |-> padding, fixed |-> fixed]
DecryptForm(overwrite, hardened, limit) ==
    [overwrite |-> overwrite, hardened |-> hardened, limit |-> limit]

MCDefaultEncryptForm == EncryptForm(Blank, Blank, "power2", Blank)
MCDefaultDecryptForm == DecryptForm(FALSE, "auto", Blank)
\* Defaults, a fixed size that fits the chunk and one that does not, nonsense.
MCEncryptForms ==
    {MCDefaultEncryptForm, EncryptForm(8, 20, "fixed", 16), EncryptForm(8, Garbage, "none", 12),
     EncryptForm(8, Blank, "fixed", 12)}
MCDecryptForms ==
    {MCDefaultDecryptForm, DecryptForm(TRUE, "off", Blank), DecryptForm(FALSE, "on", 2)}
MCKeyfiles == {[dir |-> 1, base |-> "k"], [dir |-> 2, base |-> "k"]}
=============================================================================
