------------------------------ MODULE AtomicWrite ------------------------------
(***************************************************************************)
(* write_text_atomically (state/document.py), which every write of         *)
(* state.toml and of compiled.md goes through: a temporary file beside the *)
(* target, the text, one rename.  Each step may fail with an OSError, and  *)
(* the process may be killed before any of them.                           *)
(***************************************************************************)
CONSTANTS
    Contents,   \* the texts that may be written
    Partial     \* a temporary file that does not hold all of its text

ASSUME PartialAssumption == Partial \notin Contents

VARIABLES
    file,      \* what the target path holds
    temp,      \* what the writer's temporary file holds
    text,      \* the text to write
    step,      \* the step the writer is at
    result,    \* "busy", or how the last write ended
    leaked     \* the last write left its temporary file behind

vars == <<file, temp, text, step, result, leaked>>

Init ==
    /\ file \in Contents
    /\ temp = Partial /\ text = file
    /\ step = "idle" /\ result = "written"
    /\ leaked = FALSE

(* write_text_atomically is called. *)
Begin(new) ==
    /\ step = "idle"
    /\ text' = new /\ step' = "create" /\ result' = "busy" /\ leaked' = FALSE
    /\ UNCHANGED <<file, temp>>

Raise(stray) ==
    /\ step' = "idle" /\ result' = "failed" /\ leaked' = stray
    /\ UNCHANGED <<file, temp, text>>

MutantCreate ==   \* renamed before the text is written
    /\ step = "create"
    /\ temp' = Partial /\ step' = "replace"
    /\ UNCHANGED <<file, text, result, leaked>>

(* NamedTemporaryFile in the target's directory. *)
Create ==
    /\ step = "create"
    /\ temp' = Partial /\ step' = "write"
    /\ UNCHANGED <<file, text, result, leaked>>

CreateFails == step = "create" /\ Raise(FALSE)

MutantWriteText ==   \* a short write goes unnoticed
    /\ step = "write"
    /\ temp' = Partial /\ step' = "replace"
    /\ UNCHANGED <<file, text, result, leaked>>

WriteText ==
    /\ step = "write"
    /\ temp' = text /\ step' = "replace"
    /\ UNCHANGED <<file, text, result, leaked>>

(* A full disk raises inside the with block, outside the try that unlinks. *)
WriteFails == step = "write" /\ Raise(TRUE)

Replace ==
    /\ step = "replace"
    /\ file' = temp
    /\ step' = "idle" /\ result' = "written"
    /\ UNCHANGED <<temp, text, leaked>>

(* The rename fails: the temporary file is unlinked and the error re-raised. *)
ReplaceFails == step = "replace" /\ Raise(FALSE)

Kill ==
    /\ step # "idle"
    /\ step' = "idle" /\ result' = "killed" /\ leaked' = (step # "create")
    /\ UNCHANGED <<file, temp, text>>

Next ==
    \/ \E new \in Contents : Begin(new)
    \/ Create \/ CreateFails \/ WriteText \/ WriteFails
    \/ Replace \/ ReplaceFails \/ Kill

Spec == Init /\ [][Next]_vars

-----------------------------------------------------------------------------
(* Type invariant. *)
TypeOK ==
    /\ file \in Contents /\ text \in Contents
    /\ temp \in Contents \cup {Partial}
    /\ step \in {"idle", "create", "write", "replace"}
    /\ result \in {"busy", "written", "failed", "killed"}
    /\ leaked \in BOOLEAN

(* The writer is busy exactly between its first step and its last, and at the
   rename the temporary file holds the whole text. *)
WriterInv ==
    /\ TypeOK
    /\ result = "busy" <=> step # "idle"
    /\ step = "replace" => temp = text

(* Every interleaving of steps, failures and kills is a history of the atomic
   file: no reader sees a torn text and no failed write changes the target. *)
Promise == INSTANCE AtomicFile WITH request <- text
ImplementsAtomicFile == Promise!Spec

(* "On any failure before the replace the temporary file is unlinked." *)
FailureLeavesNoTempFile == result = "failed" => ~leaked
=============================================================================
