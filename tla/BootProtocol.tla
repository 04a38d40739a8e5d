---------------------------- MODULE BootProtocol ----------------------------
(****************************************************************************)
(* What a boot promises to the rest of the system, whatever the image: it   *)
(* announces itself in the error status register, releases processors only *)
(* after it has committed, each at most once, and reports a failure in the  *)
(* same register, after which nothing more is released until a reset.       *)
(****************************************************************************)
CONSTANT Cores

VARIABLES
  phase,      \* "booting", "loading", "committed" or "failed"
  report,     \* what the error status register says
  cores       \* processors released since the last reset

protocolVars == <<phase, report, cores>>

Reports == {"running", "completed", "error"}

ProtocolTypeOK ==
  /\ phase \in {"booting", "loading", "committed", "failed"}
  /\ report \in Reports
  /\ cores \subseteq Cores

Init == phase = "booting" /\ report = "completed" /\ cores = {}

(* The loader has brought the system up. *)
Begin ==
  /\ phase = "booting" /\ phase' = "loading" /\ report' = "running"
  /\ UNCHANGED cores

(* Everything is in place: from here on processors start. *)
Commit ==
  /\ phase = "loading" /\ phase' = "committed" /\ report' = "completed"
  /\ UNCHANGED cores

Release(c) ==
  /\ phase = "committed" /\ c \notin cores
  /\ cores' = cores \cup {c}
  /\ UNCHANGED <<phase, report>>

Fail ==
  /\ phase # "failed" /\ phase' = "failed" /\ report' = "error"
  /\ UNCHANGED cores

(* A reset stops every processor; the register keeps its value. *)
Reset ==
  /\ phase' = "booting" /\ cores' = {}
  /\ UNCHANGED report

Next == Begin \/ Commit \/ (\E c \in Cores : Release(c)) \/ Fail \/ Reset

Spec == Init /\ [][Next]_protocolVars
=============================================================================
