------------------------------ MODULE MatchSpec ------------------------------
(***************************************************************************)
(* What match_bytecode promises, stated over the instructions a V2 program *)
(* was assembled from rather than over its bytes: the verdict is the       *)
(* outcome of the first instruction that does not let evaluation go on, or *)
(* Ok(TRUE) when there is none.  Decision is one atomic step.              *)
(*                                                                         *)
(* An instruction is [op, key, value]: op is its opcode byte; key and      *)
(* value are the operands [type, raw] of a condition (ignored otherwise).  *)
(* The stream may end early: cut bytes are missing from the end of the     *)
(* last instruction.                                                       *)
(***************************************************************************)
EXTENDS BytecodeV2, FiniteSets

CONSTANTS
  Programs,        \* sequences of instructions the compiler may emit
  SymbolTables,    \* symbol tables: functions from u32 indices to strings
  PropertyTables   \* device properties: functions from PropertyKey to Symbol

VARIABLES program, cut, symbolTable, properties, outcome

vars == <<program, cut, symbolTable, properties, outcome>>

IsCondition(ins) == ins.op \in {OpEqualCondition, OpInequalCondition}

Condition(op) == IF op = OpEqualCondition THEN "Equal" ELSE "Inequal"

\* Bytes an instruction occupies: an opcode, and two 5-byte operands for a condition.
EncodedSize(ins) == IF IsCondition(ins) THEN 11 ELSE 1

\* How many bytes may be missing from the end of the last instruction.
Cuts(prog) == IF prog = <<>> THEN {0} ELSE 0 .. EncodedSize(prog[Len(prog)]) - 1

\* The outcome that lets evaluation go on to the next instruction.
Continue == [tag |-> "Continue", val |-> TRUE, err |-> NoError]

(***************************************************************************)
(* An operand of which only avail of its 5 bytes are present.              *)
(***************************************************************************)
OperandOutcome(o, avail) ==
  IF avail = 0 THEN [err |-> Error("UnexpectedEnd", 0), sym |-> EnumValue]
  ELSE IF o.type \notin DOMAIN ValueTypeOf
       THEN [err |-> Error("InvalidValueType", o.type), sym |-> EnumValue]
  ELSE IF avail < 5 THEN [err |-> Error("UnexpectedEnd", 0), sym |-> EnumValue]
  ELSE Materialize(o.type, o.raw, symbolTable)

(***************************************************************************)
(* The outcome of one instruction of which avail bytes are present: the    *)
(* key operand is decoded and must name a property key before the value    *)
(* operand is decoded; a key of another type is UnimplementedKeyType.      *)
(***************************************************************************)
InstrOutcome(ins, avail) ==
  LET k == OperandOutcome(ins.key, IF avail - 1 < 5 THEN avail - 1 ELSE 5)
      v == OperandOutcome(ins.value, IF avail - 6 > 0 THEN avail - 6 ELSE 0)
      r == EvaluateLookup(Condition(ins.op), ToPropertyKey(k.sym), v.sym, properties)
  IN CASE ins.op \notin RawOps  -> Err(Error("InvalidOp", ins.op))
       [] ins.op = OpAbort      -> Ok(FALSE)
       [] ins.op \in IgnoredOps -> Continue
       [] IsCondition(ins)      ->
            IF k.err # NoError THEN Err(k.err)
            ELSE IF ~HasPropertyKey(k.sym) THEN Err(Error("UnimplementedKeyType", 0))
            ELSE IF v.err # NoError THEN Err(v.err)
            ELSE IF r = Ok(TRUE) THEN Continue
            ELSE r

Outcomes ==
  [i \in DOMAIN program |->
     InstrOutcome(program[i],
                  EncodedSize(program[i]) - (IF i = Len(program) THEN cut ELSE 0))]

\* The verdict: the first outcome that stops evaluation, else a match.
Verdict ==
  LET stops == {i \in DOMAIN program : Outcomes[i] # Continue}
  IN IF stops = {} THEN Ok(TRUE)
     ELSE Outcomes[CHOOSE i \in stops : \A j \in stops : i <= j]

Init ==
  /\ program \in Programs
  /\ cut \in Cuts(program)
  /\ symbolTable \in SymbolTables
  /\ properties \in PropertyTables
  /\ outcome = Running

Decide ==
  /\ outcome = Running
  /\ outcome' = Verdict
  /\ UNCHANGED <<program, cut, symbolTable, properties>>

Spec == Init /\ [][Decide]_vars /\ WF_vars(Decide)

=============================================================================
