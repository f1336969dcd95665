---------------------------- MODULE CoworkStates ----------------------------
(* The Cowork job lifecycle of core/marcellus/cowork_states.py: the state    *)
(* vocabulary, the table of forward edges, and the outcome that is recorded  *)
(* beside a completed job.                                                   *)
EXTENDS FiniteSets

TerminalStates  == {"completed", "failed", "cancelled", "timed_out"}
SuspendedStates == {"awaiting_approval", "needs_user_input"}
ActiveStates    == {"queued", "planning", "context_compiling",
                    "waiting_for_brain", "brain_streaming",
                    "inspecting_workspace", "writing_files",
                    "running_command", "running_tests", "debugging",
                    "verifying"}
AllStates == ActiveStates \cup SuspendedStates \cup TerminalStates

(* The progress edges only; the edges into a terminal state are implicit. *)
Forward ==
  [s \in AllStates |->
    CASE s = "queued" ->
           {"planning", "inspecting_workspace", "context_compiling"}
      [] s = "planning" ->
           {"inspecting_workspace", "context_compiling", "waiting_for_brain",
            "needs_user_input"}
      [] s = "inspecting_workspace" ->
           {"context_compiling", "planning", "waiting_for_brain"}
      [] s = "context_compiling" -> {"waiting_for_brain", "needs_user_input"}
      [] s = "waiting_for_brain" ->
           {"brain_streaming", "writing_files", "verifying",
            "needs_user_input"}
      [] s = "brain_streaming" ->
           {"writing_files", "awaiting_approval", "verifying", "debugging",
            "needs_user_input"}
      [] s = "awaiting_approval" ->
           {"writing_files", "verifying", "running_command"}
      [] s = "writing_files" ->
           {"running_command", "running_tests", "verifying",
            "awaiting_approval", "debugging"}
      [] s = "running_command" ->
           {"running_tests", "verifying", "debugging", "awaiting_approval"}
      [] s = "running_tests" -> {"verifying", "debugging", "writing_files"}
      [] s = "debugging" ->
           {"writing_files", "running_command", "running_tests", "verifying",
            "waiting_for_brain"}
      [] s = "verifying" -> {"completed", "debugging", "writing_files"}
      [] s = "needs_user_input" ->
           {"planning", "context_compiling", "waiting_for_brain",
            "writing_files"}
      [] OTHER -> {}]

CanTransition(current, target) ==
  /\ current \in AllStates \ TerminalStates
  /\ \/ target \in TerminalStates
     \/ target \in Forward[current]

FinalOutcomes == {"completed_verified", "completed_with_failures",
                  "completed_unverified", "blocked", "failed", "cancelled"}

(* Mutant of CompletionOutcome: a passed command hides a failed one. *)
VerifiedFirst(verified, hadFailures) ==
  CASE verified    -> "completed_verified"
    [] hadFailures -> "completed_with_failures"
    [] OTHER       -> "completed_unverified"

CompletionOutcome(verified, hadFailures) ==
  CASE hadFailures            -> "completed_with_failures"
    [] verified /\ ~hadFailures -> "completed_verified"
    [] OTHER                  -> "completed_unverified"
=============================================================================
