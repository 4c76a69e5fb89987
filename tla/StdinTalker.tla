---------------------------- MODULE StdinTalker ----------------------------
(***************************************************************************)
(* What cvf-talker.c and ieciidc-talker.c share: a process that reads a    *)
(* stream of bytes from standard input and sends it in pieces.  A byte is  *)
(* 0, 1 or anything else, which is all the start codes of H.264 are made   *)
(* of.                                                                     *)
(***************************************************************************)
EXTENDS Integers, Sequences, FiniteSets, FiniteSetsExt, SequencesExt

VARIABLES
  stream,       \* everything that will ever be on standard input
  input,        \* what of it has not been read yet
  stage,        \* where the process is, or how it ended
  carried       \* the pieces sent so far

sourceVars == <<stream, input, stage, carried>>

Byte == {0, 1, 2}

Stages == {"fill", "cut", "exit 0", "exit 1", "dead"}

Ended == stage \in {"exit 0", "exit 1", "dead"}

SourceInit(streams) ==
  /\ stream \in streams
  /\ input = stream
  /\ stage = "fill"
  /\ carried = <<>>

\* read() returns between one byte and what was asked for.  It returns none at
\* the end of the input, and when none were asked for.
ReadLengths(room) ==
  LET most == Min({room, Len(input)})
  IN IF most = 0 THEN {0} ELSE 1 .. most

SourceTypeOK ==
  /\ stream \in Seq(Byte)
  /\ input \in Seq(Byte)
  /\ stage \in Stages
  /\ carried \in Seq(Seq(Byte))
=============================================================================
