----------------------------- MODULE MCMatchBind -----------------------------
(***************************************************************************)
(* Model-checking instance of MatchBind.  Programs are the empty program,  *)
(* every single instruction over the operands below, and two-instruction   *)
(* programs led by an instruction that skips, holds, fails or errors, so   *)
(* that a later instruction is reached, masked or aborted.  Every proper   *)
(* truncation of the last instruction is tried (Cuts).                     *)
(***************************************************************************)
EXTENDS MatchBind

CONSTANTS nightjar, poorwill   \* two strings of the symbol table

MCIgnoredOps == {16}             \* an unconditional-jump opcode
InvalidOpByte == 255
InvalidTypeByte == 5

Operand(t, v) == [type |-> t, raw |-> v]
Instr(op, k, v) == [op |-> op, key |-> k, value |-> v]
Simple(op) == Instr(op, Operand(0, 0), Operand(0, 0))

\* Key operands: number keys, Key and StringValue indices (9 is missing), a bad type.
KeyOperands ==
  {Operand(1, 1), Operand(1, 2000), Operand(0, 1), Operand(2, 1), Operand(2, 9),
   Operand(InvalidTypeByte, 0)}

\* Value operands: numbers (2000 spans two bytes), a string, bools (7 is invalid), enum.
ValueOperands ==
  {Operand(1, 1), Operand(1, 2000), Operand(2, 2), Operand(3, 1), Operand(3, 7),
   Operand(4, 0)}

Instructions ==
  {Instr(op, k, v) : op \in {OpEqualCondition, OpInequalCondition},
                     k \in KeyOperands, v \in ValueOperands}
  \cup {Simple(OpAbort), Simple(16), Simple(InvalidOpByte)}

\* Leading instructions: skipped, holds on the table below, fails, or errors.
LeadInstructions ==
  {Simple(16),
   Instr(OpInequalCondition, Operand(1, 1), Operand(1, 1)),
   Instr(OpEqualCondition, Operand(2, 1), Operand(2, 2)),
   Instr(OpEqualCondition, Operand(2, 9), Operand(1, 1))}

MCPrograms ==
  {<<>>} \cup {<<i>> : i \in Instructions}
  \cup {<<f, i>> : f \in LeadInstructions, i \in Instructions}

\* Key operands the compiler never emits as keys: a bool and an enum.
PanicPrograms ==
  {<<Instr(op, k, v)>> : op \in {OpEqualCondition, OpInequalCondition},
                        k \in {Operand(3, 1), Operand(4, 0)}, v \in ValueOperands}

MCSymbolTables == {(1 :> nightjar) @@ (2 :> poorwill)}

DeviceKeys == {NumberKey(1), StringKey(nightjar)}
DeviceValues == {NumberValue(2000), StringValue(poorwill), BoolValue(TRUE)}

MCPropertyTables == UNION {[d -> DeviceValues] : d \in SUBSET DeviceKeys}

=============================================================================
