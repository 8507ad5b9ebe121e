------------------------------- MODULE Contract -------------------------------
(***************************************************************************)
(* The contract every command ends by (contract/runner.py, envelope.py,    *)
(* exit_codes.py, finding_outcome.py).  A command body returns an outcome  *)
(* or raises; run turns either into one exit code and at most one envelope *)
(* on stdout.  The read-only commands (done, compile --check, wordcount,   *)
(* desloppify) write nothing, so each is an operator that gives its answer *)
(* for a state, as CheckExit does for novel state check.                   *)
(***************************************************************************)
EXTENDS Harness

(* novel done's own negative verdict; an exception no handler expects ends the
   interpreter with the same code, but prints no envelope. *)
BenignNegative == 1

(* How a command body ends. *)
Returned(code, violations) ==
    [kind |-> "returned", code |-> code, violations |-> violations]

Raised(kind) == [kind |-> kind, code |-> Success, violations |-> << >>]

UsageFault == Raised("usage")     \* CycloptsError, or BodyUsageError made an outcome
StateFault == Raised("state")     \* StateInputError
Escaped    == Raised("escaped")   \* any other exception

(* is_ok(code), with the violations the result carries. *)
Envelope(command, code, violations) ==
    [command |-> command, ok |-> code = Success, violations |-> violations]

NoEnvelope == [command |-> "none", ok |-> FALSE, violations |-> << >>]

(* run: the exit code and the envelope printed. *)
Run(command, body) ==
    LET ended(code) == [exit     |-> code,
                        envelope |-> Envelope(command, code, body.violations)]
    IN  CASE body.kind = "returned" -> ended(body.code)
          [] body.kind = "usage"    -> ended(UsageError)
          [] body.kind = "state"    -> ended(StateError)
          [] body.kind = "escaped"  -> [exit |-> Uncaught, envelope |-> NoEnvelope]

(* build_finding_outcome: the failed findings, in their order, are the violations,
   and one is enough for exit 4. *)
FindingOutcome(findings) ==
    LET failed[i \in 0..Len(findings)] ==
            IF i = 0                   THEN << >>
            ELSE IF findings[i].passed THEN failed[i - 1]
            ELSE Append(failed[i - 1], findings[i].id)
        violations == failed[Len(findings)]
    IN  Returned(IF violations = << >> THEN Success ELSE ActionableFinding, violations)

(* A command that reads state.toml: load_or_state_error, then the body. *)
WithState(body) == IF toml = NoFile THEN StateFault ELSE body
=============================================================================
