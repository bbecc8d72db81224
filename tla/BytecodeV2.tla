----------------------------- MODULE BytecodeV2 -----------------------------
(***************************************************************************)
(* The value model and operand decoding of the V2 bind bytecode, shared by *)
(* the abstract matching specification (MatchSpec) and the byte-level      *)
(* matcher (MatchBind).  Everything here is a pure operator: the matcher   *)
(* of src/devices/lib/bind/src/match_bind.rs never mutates its program,    *)
(* symbol table or device properties.                                      *)
(*                                                                         *)
(* Strings (symbol-table entries, string keys and values) are opaque: they *)
(* are model values, compared only for equality, as the matcher does.      *)
(***************************************************************************)
EXTENDS Integers, Sequences, TLC

(***************************************************************************)
(* Opcode and value-type bytes of the V2 format (bind_program_v2_constants, *)
(* outside src/).  The opcodes the matcher recognises but ignores (jump     *)
(* and landing-pad markers) are a parameter.                               *)
(***************************************************************************)
CONSTANT IgnoredOps

OpEqualCondition   == 1
OpInequalCondition == 2
OpAbort            == 48   \* 0x30

RawOps == {OpEqualCondition, OpInequalCondition, OpAbort} \cup IgnoredOps

\* RawValueType: the byte in front of every operand.
ValueTypeOf == (0 :> "Key") @@ (1 :> "NumberValue") @@ (2 :> "StringValue")
                 @@ (3 :> "BoolValue") @@ (4 :> "EnumValue")

(***************************************************************************)
(* Symbol: the values an operand decodes to and a device property holds.   *)
(* Symbol::Key carries a placeholder ValueType::Str that is always the     *)
(* same, so it is left out.                                                *)
(***************************************************************************)
NumberValue(n) == [type |-> "NumberValue", val |-> n]
StringValue(s) == [type |-> "StringValue", val |-> s]
KeySymbol(s)   == [type |-> "Key", val |-> s]
BoolValue(b)   == [type |-> "BoolValue", val |-> b]
EnumValue      == [type |-> "EnumValue", val |-> "none"]

\* PropertyKey: NumberKey(u64) | StringKey(String).
NumberKey(n) == [kind |-> "NumberKey", val |-> n]
StringKey(s) == [kind |-> "StringKey", val |-> s]

(***************************************************************************)
(* BytecodeError, and the Result the matcher returns.  A panic (the        *)
(* unimplemented! of read_and_evaluate_values) is a result of its own.     *)
(***************************************************************************)
NoError      == [kind |-> "None", arg |-> 0]
Error(k, a)  == [kind |-> k, arg |-> a]

Ok(b)   == [tag |-> "Ok", val |-> b, err |-> NoError]
Err(e)  == [tag |-> "Err", val |-> FALSE, err |-> e]
Panic   == [tag |-> "Panic", val |-> FALSE, err |-> NoError]
Running == [tag |-> "Running", val |-> FALSE, err |-> NoError]

(***************************************************************************)
(* next_u32: four bytes, little-endian.                                    *)
(***************************************************************************)
LeU32(bytes) == bytes[1] + 256 * bytes[2] + 65536 * bytes[3] + 16777216 * bytes[4]

(***************************************************************************)
(* The Symbol an operand of type byte t and raw u32 value v decodes to     *)
(* (the match on value_type in read_next_value), or the error it raises.   *)
(* The result is [err, sym]; sym is meaningless when err # NoError.        *)
(***************************************************************************)
Materialize(t, v, symbolTable) ==
  LET Found(s)  == [err |-> NoError, sym |-> s]
      Failed(e) == [err |-> e, sym |-> EnumValue]
      Lookup(Make(_)) ==
        IF v \in DOMAIN symbolTable THEN Found(Make(symbolTable[v]))
        ELSE Failed(Error("MissingEntryInSymbolTable", v))
  IN CASE ValueTypeOf[t] = "NumberValue" -> Found(NumberValue(v))
       [] ValueTypeOf[t] = "Key"         -> Lookup(KeySymbol)
       [] ValueTypeOf[t] = "StringValue" -> Lookup(StringValue)
       [] ValueTypeOf[t] = "BoolValue"   ->
            IF v \in {0, 1} THEN Found(BoolValue(v = 1))
            ELSE Failed(Error("InvalidBoolValue", v))
       [] ValueTypeOf[t] = "EnumValue"   -> Found(EnumValue)

(***************************************************************************)
(* The key operand projected to a PropertyKey; only number, string and key *)
(* symbols have one.                                                       *)
(***************************************************************************)
HasPropertyKey(sym) == sym.type \in {"NumberValue", "StringValue", "Key"}

ToPropertyKey(sym) ==
  IF sym.type = "NumberValue" THEN NumberKey(sym.val) ELSE StringKey(sym.val)

(***************************************************************************)
(* compare_symbols: values of different variants are an error, never       *)
(* unequal.  cond is "Equal" or "Inequal".                                 *)
(***************************************************************************)
CompareSymbols(cond, lhs, rhs) ==
  IF lhs.type # rhs.type THEN Err(Error("MismatchValueTypes", 0))
  ELSE Ok(IF cond = "Equal" THEN lhs = rhs ELSE lhs # rhs)

\* Mutant: a key the device lacks fails Inequal as well as Equal.
EvaluateLookupAbsentFails(cond, key, bindValue, properties) ==
  IF key \notin DOMAIN properties THEN Ok(FALSE)
  ELSE CompareSymbols(cond, properties[key], bindValue)

(***************************************************************************)
(* The lookup of the key in the device properties and the comparison: an  *)
(* absent key satisfies Inequal and fails Equal.                           *)
(***************************************************************************)
EvaluateLookup(cond, key, bindValue, properties) ==
  IF key \notin DOMAIN properties THEN Ok(cond = "Inequal")
  ELSE CompareSymbols(cond, properties[key], bindValue)

=============================================================================
