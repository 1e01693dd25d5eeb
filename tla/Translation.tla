----------------------------- MODULE Translation -----------------------------
(***************************************************************************)
(* What the back half of the compiler promises: the statements of a tree   *)
(* are visited once each, from the first to the last and a statement       *)
(* before those below it; if none of them is unsupported the output means  *)
(* what the tree means, and otherwise there is no output.  How the output  *)
(* is put together is left open.                                           *)
(***************************************************************************)
EXTENDS Sequences

CONSTANTS
  Sources,         \* the trees that are translated
  KidsOf(_),       \* the statements below a statement, in the order of the text
  Unsupported(_),  \* the statements there is no translation for
  Means(_, _)      \* tree and output do the same

VARIABLES source, pending, output, phase

vars == <<source, pending, output, phase>>

Init ==
  /\ source \in Sources
  /\ pending = <<source>>
  /\ output = << >>
  /\ phase = "convert"

Visit ==
  /\ phase = "convert" /\ pending # << >>
  /\ ~Unsupported(Head(pending))
  /\ pending' = KidsOf(Head(pending)) \o Tail(pending)
  /\ UNCHANGED <<source, output, phase>>

GiveUp ==
  /\ phase = "convert" /\ pending # << >>
  /\ Unsupported(Head(pending))
  /\ phase' = "threw"
  /\ UNCHANGED <<source, pending, output>>

Finish ==
  /\ phase = "convert" /\ pending = << >>
  /\ phase' = "done"
  /\ Means(source, output')
  /\ UNCHANGED <<source, pending>>

Next == Visit \/ GiveUp \/ Finish
Spec == Init /\ [][Next]_vars
=============================================================================
