------------------------------ MODULE MCEncodeV1 ------------------------------
(***************************************************************************)
(* Model-checking instance of EncodeV1: programs of up to two              *)
(* instructions of every variant, with numbers at the edges of their       *)
(* fields (255 and 65535) and, for the width runs, one past them.          *)
(***************************************************************************)
EXTENDS EncodeV1

Cond(k, b, v) == [kind |-> k, b |-> b, v |-> v]
Conditions == {Cond("Always", 0, 0), Cond("Equal", 23, 1234), Cond("NotEqual", 65535, 2147483647)}

Ins(k, c, a) == [kind |-> k, cond |-> c, a |-> a]

InstructionsWithin(targets) ==
  {Ins(k, c, 0) : k \in {"Abort", "Match"}, c \in Conditions}
  \cup {Ins("Goto", c, a) : c \in Conditions, a \in targets}
  \cup {Ins("Label", Cond("Always", 0, 0), a) : a \in targets}

Debugs(lines, extras) ==
  [line : lines, ast_location : {0, 3}, extra : extras]

Infos(targets, lines, extras) ==
  [instruction : InstructionsWithin(targets), debug : Debugs(lines, extras)]

ProgramsOf(S) == {<<>>} \cup {<<i>> : i \in S} \cup {<<i, j>> : i, j \in S}

\* Numbers that fit: targets 42 and 255, lines 1 and 255, extra 0 and 65535.
\* and the instructions of the From unit tests, each on its own.
FittingPrograms ==
  ProgramsOf(Infos({42, 255}, {1, 255}, {0, 65535}))
  \cup {<<[instruction |-> t.instruction,
           debug |-> [line |-> 1, ast_location |-> 0, extra |-> 0]]>> : t \in FromInstructionTests}

\* One-instruction programs whose jump target or key overflows its field.
WidePrograms ==
  {<<i>> : i \in Infos({255, 256}, {255}, {65535})}
  \cup {<<[instruction |-> Ins("Match", Cond("Equal", 65536, 1), 0),
           debug |-> [line |-> 1, ast_location |-> 0, extra |-> 0]]>>}

\* An instruction compiled from line 300 of a long bind file.
LongFilePrograms ==
  {<<[instruction |-> Ins("Match", Cond("Equal", 23, 1234), 0),
      debug |-> [line |-> l, ast_location |-> 0, extra |-> 0]]>> : l \in {255, 300}}

=============================================================================
