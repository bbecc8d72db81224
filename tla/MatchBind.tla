------------------------------ MODULE MatchBind ------------------------------
(***************************************************************************)
(* DeviceMatcher of src/devices/lib/bind/src/match_bind.rs: the loop of    *)
(* match_bind over the bytes of a V2 program, one opcode per step, with    *)
(* read_and_evaluate_values decoding both operands of a condition from the *)
(* byte iterator before the device properties are consulted.              *)
(*                                                                         *)
(* pos is the number of bytes the iterator has consumed.  The program the *)
(* bytes were assembled from (program, cut) is kept beside them so that    *)
(* the matcher can be shown to implement MatchSpec.                        *)
(***************************************************************************)
EXTENDS BytecodeV2, SequencesExt

CONSTANTS Programs, SymbolTables, PropertyTables

VARIABLES program, cut, bytecode, symbolTable, properties, pos, outcome

vars == <<program, cut, bytecode, symbolTable, properties, pos, outcome>>

Abs == INSTANCE MatchSpec

(***************************************************************************)
(* Assembling a program into bytes, as the tests' append_encoded_value,    *)
(* append_equal_cond, append_inequal_cond and append_uncond_abort do: the  *)
(* opcode byte, then per operand its type byte and its u32 little-endian.  *)
(***************************************************************************)
LeBytes(v) == [i \in 1 .. 4 |-> (v \div (256 ^ (i - 1))) % 256]

EncodeValue(o) == <<o.type>> \o LeBytes(o.raw)

EncodeInstruction(ins) ==
  IF Abs!IsCondition(ins) THEN <<ins.op>> \o EncodeValue(ins.key) \o EncodeValue(ins.value)
  ELSE <<ins.op>>

Encode(prog) == FlattenSeq([i \in DOMAIN prog |-> EncodeInstruction(prog[i])])

Assemble(prog, c) == LET full == Encode(prog) IN SubSeq(full, 1, Len(full) - c)

\* Mutant: the length of the operand checked before its type byte.
ReadNextValueLengthFirst(p) ==
  IF p + 5 > Len(bytecode)
  THEN [err |-> Error("UnexpectedEnd", 0), sym |-> EnumValue, next |-> p]
  ELSE IF bytecode[p + 1] \notin DOMAIN ValueTypeOf
  THEN [err |-> Error("InvalidValueType", bytecode[p + 1]), sym |-> EnumValue, next |-> p + 1]
  ELSE LET m == Materialize(bytecode[p + 1], LeU32(SubSeq(bytecode, p + 2, p + 5)), symbolTable)
       IN [err |-> m.err, sym |-> m.sym, next |-> p + 5]

(***************************************************************************)
(* read_next_value: the type byte (UnexpectedEnd when the stream is over,  *)
(* InvalidValueType when it names no type), then the u32 (UnexpectedEnd    *)
(* when fewer than 4 bytes are left), then the Symbol.  p is the number of *)
(* bytes consumed before the call; next the number consumed after it.      *)
(***************************************************************************)
ReadNextValue(p) ==
  IF p + 1 > Len(bytecode)
  THEN [err |-> Error("UnexpectedEnd", 0), sym |-> EnumValue, next |-> p]
  ELSE IF bytecode[p + 1] \notin DOMAIN ValueTypeOf
  THEN [err |-> Error("InvalidValueType", bytecode[p + 1]), sym |-> EnumValue, next |-> p + 1]
  ELSE IF p + 5 > Len(bytecode)
  THEN [err |-> Error("UnexpectedEnd", 0), sym |-> EnumValue, next |-> p + 1]
  ELSE LET m == Materialize(bytecode[p + 1], LeU32(SubSeq(bytecode, p + 2, p + 5)), symbolTable)
       IN [err |-> m.err, sym |-> m.sym, next |-> p + 5]

(***************************************************************************)
(* read_and_evaluate_values: the key operand, its projection to a          *)
(* PropertyKey (unimplemented! panics for any other symbol), the value     *)
(* operand, then the lookup and comparison.                                *)
(***************************************************************************)
ReadAndEvaluateValues(p, cond) ==
  LET k == ReadNextValue(p)
      v == ReadNextValue(k.next)
  IN IF k.err # NoError THEN [res |-> Err(k.err), next |-> k.next]
     ELSE IF ~HasPropertyKey(k.sym) THEN [res |-> Panic, next |-> k.next]
     ELSE IF v.err # NoError THEN [res |-> Err(v.err), next |-> v.next]
     ELSE [res |-> EvaluateLookup(cond, ToPropertyKey(k.sym), v.sym, properties),
           next |-> v.next]

Init ==
  /\ program \in Programs
  /\ cut \in Abs!Cuts(program)
  /\ bytecode = Assemble(program, cut)
  /\ symbolTable \in SymbolTables
  /\ properties \in PropertyTables
  /\ pos = 0
  /\ outcome = Running

\* The opcode byte the next iteration of the loop reads.
OpByte == bytecode[pos + 1]

Inputs == <<program, cut, bytecode, symbolTable, properties>>

(***************************************************************************)
(* One iteration of the while-let loop of match_bind.                      *)
(***************************************************************************)
\* The iterator is exhausted: every condition held.
ReachEnd ==
  /\ outcome = Running
  /\ pos = Len(bytecode)
  /\ outcome' = Ok(TRUE)
  /\ UNCHANGED <<Inputs, pos>>

\* FromPrimitive::from_u8 finds no RawOp.
RejectInvalidOp ==
  /\ outcome = Running
  /\ pos < Len(bytecode)
  /\ OpByte \notin RawOps
  /\ outcome' = Err(Error("InvalidOp", OpByte))
  /\ UNCHANGED <<Inputs, pos>>

AbortOp ==
  /\ outcome = Running
  /\ pos < Len(bytecode)
  /\ OpByte = OpAbort
  /\ outcome' = Ok(FALSE)
  /\ UNCHANGED <<Inputs, pos>>

\* Mutant: a skipped opcode taken to carry a one-byte operand (past the end when it is last).
SkipOpPastOperand ==
  /\ outcome = Running
  /\ pos < Len(bytecode)
  /\ OpByte \in IgnoredOps
  /\ pos' = pos + 2
  /\ UNCHANGED <<Inputs, outcome>>

\* Jump and landing-pad opcodes fall into the `_ => {}` arm.
SkipOp ==
  /\ outcome = Running
  /\ pos < Len(bytecode)
  /\ OpByte \in IgnoredOps
  /\ pos' = pos + 1
  /\ UNCHANGED <<Inputs, outcome>>

\* Mutant: a false condition does not end the loop.
EvaluateConditionNoShortCircuit ==
  /\ outcome = Running
  /\ pos < Len(bytecode)
  /\ OpByte \in {OpEqualCondition, OpInequalCondition}
  /\ LET r == ReadAndEvaluateValues(pos + 1, Abs!Condition(OpByte))
     IN \/ /\ r.res.tag = "Ok"
           /\ pos' = r.next
           /\ UNCHANGED outcome
        \/ /\ r.res.tag # "Ok"
           /\ outcome' = r.res
           /\ UNCHANGED pos
  /\ UNCHANGED Inputs

(***************************************************************************)
(* evaluate_condition_inst: the loop goes on only when the condition holds;*)
(* a false condition returns Ok(false), an error is propagated by `?`.     *)
(***************************************************************************)
EvaluateCondition ==
  /\ outcome = Running
  /\ pos < Len(bytecode)
  /\ OpByte \in {OpEqualCondition, OpInequalCondition}
  /\ LET r == ReadAndEvaluateValues(pos + 1, Abs!Condition(OpByte))
     IN \/ /\ r.res = Ok(TRUE)
           /\ pos' = r.next
           /\ UNCHANGED outcome
        \/ /\ r.res # Ok(TRUE)
           /\ outcome' = IF r.res.tag = "Ok" THEN Ok(FALSE) ELSE r.res
           /\ UNCHANGED pos
  /\ UNCHANGED Inputs

Next == ReachEnd \/ RejectInvalidOp \/ AbortOp \/ SkipOp \/ EvaluateCondition

\* match_bind runs on one thread until it returns.
Spec == Init /\ [][Next]_vars /\ WF_vars(Next)

-----------------------------------------------------------------------------
TypeOK ==
  /\ bytecode \in Seq(0 .. 255)
  /\ pos \in 0 .. Len(bytecode)
  /\ outcome.tag \in {"Running", "Ok", "Err", "Panic"}

(***************************************************************************)
(* The matcher implements MatchSpec: whatever the bytes, the symbol table  *)
(* and the device properties, the loop of match_bind eventually returns    *)
(* exactly the outcome of the first instruction that stops evaluation      *)
(* (error kinds and their order included), or Ok(true).                    *)
(***************************************************************************)
MatchSpecRefined == Abs!Spec

(***************************************************************************)
(* While match_bind runs, the byte iterator stands at the start of an      *)
(* instruction: operand decoding never consumes too few or too many bytes, *)
(* so no operand byte is ever read as an opcode.                           *)
(***************************************************************************)
CursorOnInstructionBoundary ==
  outcome = Running =>
    \E i \in 0 .. Len(program) : pos = Len(Encode(SubSeq(program, 1, i)))

(***************************************************************************)
(* match_bytecode returns a Result for every program: a malformed program  *)
(* is reported to the caller as an error and never crashes the driver      *)
(* manager (spec: treat an unexpected key type as UnimplementedKeyType).   *)
(***************************************************************************)
NeverPanics == outcome # Panic

=============================================================================
