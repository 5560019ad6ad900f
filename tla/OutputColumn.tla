---------------------------- MODULE OutputColumn ----------------------------
(***************************************************************************)
(* DeploymentRepo.appendOutput: how the stdout (or stderr) column of a     *)
(* deployment grows to outputCap.  A column is the number of bytes it      *)
(* keeps and whether it ends with the truncation marker; a line is its     *)
(* length.  One streamInto goroutine writes each column, so the SELECT and *)
(* the UPDATE of an append are one step.                                   *)
(***************************************************************************)
EXTENDS Naturals

CONSTANTS
  OutputCap,   \* outputCap
  LineSizes,   \* sizes of the lines a command prints, newline included
  MaxOutput    \* bound on the output of a command

ASSUME OutputAssumption ==
  /\ OutputCap \in Nat
  /\ LineSizes \subseteq Nat \ {0}
  /\ MaxOutput \in Nat

VARIABLES
  column,   \* the stored column
  printed   \* bytes the command has printed so far

vars == <<column, printed>>

Column(kept, marked) == [kept |-> kept, marked |-> marked]

Init == column = Column(0, FALSE) /\ printed = 0

\* Slip: the cap compared with the line, not with the room that is left.
AppendPerLine(c, n) ==
  IF c.marked \/ c.kept >= OutputCap THEN c
  ELSE IF n > OutputCap THEN Column(OutputCap, TRUE) ELSE Column(c.kept + n, FALSE)

\* Slip: a line that fills the column exactly counted as cut.
AppendMarksEarly(c, n) ==
  IF c.marked \/ c.kept >= OutputCap THEN c
  ELSE IF n >= OutputCap - c.kept THEN Column(OutputCap, TRUE) ELSE Column(c.kept + n, FALSE)

\* Column c after one more line of n bytes.
AppendOutput(c, n) ==
  IF c.marked \/ c.kept >= OutputCap THEN c
  ELSE IF n > OutputCap - c.kept THEN Column(OutputCap, TRUE)
  ELSE Column(c.kept + n, FALSE)

Arrive(n) ==
  /\ printed + n <= MaxOutput
  /\ printed' = printed + n
  /\ column' = AppendOutput(column, n)

Next == \E n \in LineSizes : Arrive(n)

Spec == Init /\ [][Next]_vars

-----------------------------------------------------------------------------
\* The column is the first outputCap bytes of the whole output, however the
\* output is cut into lines.
KeepsThePrefix == column.kept = IF printed < OutputCap THEN printed ELSE OutputCap

\* The marker never lies: output was lost wherever it stands.
MarkerMeansLoss == column.marked => printed > OutputCap

=============================================================================
