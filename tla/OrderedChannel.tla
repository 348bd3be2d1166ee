---------------------------- MODULE OrderedChannel ----------------------------
(***************************************************************************)
(* What the callers of MainApplication.sendAction may rely on once a       *)
(* message was accepted: it is written once, after everything accepted     *)
(* before it and before everything accepted later, and is lost only when   *)
(* the connection is.                                                      *)
(***************************************************************************)
EXTENDS Sequences

CONSTANT Message

VARIABLES waiting, written, broken

vars == <<waiting, written, broken>>

Init == waiting = <<>> /\ written = <<>> /\ broken = FALSE

Accept(m) == waiting' = Append(waiting, m) /\ UNCHANGED <<written, broken>>

Write ==
  /\ waiting # <<>> /\ ~broken
  /\ written' = Append(written, Head(waiting))
  /\ waiting' = Tail(waiting)
  /\ UNCHANGED broken

Lose ==
  /\ waiting # <<>> /\ broken
  /\ waiting' = Tail(waiting)
  /\ UNCHANGED <<written, broken>>

Break == ~broken /\ broken' = TRUE /\ UNCHANGED <<waiting, written>>

Next == Write \/ Lose \/ Break \/ \E m \in Message : Accept(m)

Spec == Init /\ [][Next]_vars /\ WF_vars(Write \/ Lose)
=============================================================================
