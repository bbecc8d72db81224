--------------------------- MODULE MatchBindTests ---------------------------
(***************************************************************************)
(* The unit tests of src/devices/lib/bind/src/match_bind.rs (mod test),    *)
(* one definition per #[test] function: the bytes each test assembles with *)
(* append_equal_cond, append_inequal_cond, append_uncond_abort or by hand, *)
(* its symbol table and device properties, and the Result it asserts.      *)
(* The matcher of MatchBind is run on every case, and on every truncation  *)
(* of the case's last instruction.                                         *)
(***************************************************************************)
EXTENDS MatchBind

CONSTANTS nightjar, poorwill, nighthawk, timberdoodle, tyrant, flycatcher, rail, crake
  \* the strings of the tests' symbol tables and properties

VARIABLE case   \* the test case whose program the matcher runs

\* EncodedValue { value_type, value } for each RawValueType.
KeyOp(v)  == [type |-> 0, raw |-> v]
NumOp(v)  == [type |-> 1, raw |-> v]
StrOp(v)  == [type |-> 2, raw |-> v]
BoolOp(v) == [type |-> 3, raw |-> v]

EqualCond(k, v)   == [op |-> OpEqualCondition, key |-> k, value |-> v]
InequalCond(k, v) == [op |-> OpInequalCondition, key |-> k, value |-> v]
UncondAbort       == [op |-> OpAbort, key |-> NumOp(0), value |-> NumOp(0)]

\* verify_match_result(expected, DecodedProgram { symbol_table, instructions }, properties).
Case(expected, symbols, prog, cutBytes, props) ==
  [expected |-> expected, symbols |-> symbols, program |-> prog, cut |-> cutBytes,
   properties |-> props]

None == <<>>   \* HashMap::new()

NumberProps == (NumberKey(1) :> NumberValue(2000)) @@ (NumberKey(2) :> NumberValue(500))
BirdSymbols == (1 :> nightjar) @@ (2 :> poorwill)
BirdProps   == StringKey(nightjar) :> StringValue(poorwill)

EmptyInstructions == {Case(Ok(TRUE), None, <<>>, 0, None)}

EqualConditionWithNumberPropertyKeys ==
  {Case(Ok(TRUE), None, <<EqualCond(NumOp(1), NumOp(2000))>>, 0, NumberProps),
   Case(Ok(FALSE), None, <<EqualCond(NumOp(1), NumOp(5))>>, 0, NumberProps),
   Case(Ok(FALSE), None, <<EqualCond(NumOp(3), NumOp(5))>>, 0, NumberProps)}

EqualConditionWithStringPropertyKeys ==
  LET symbols == BirdSymbols @@ (3 :> nighthawk)
  IN {Case(Ok(TRUE), symbols, <<EqualCond(StrOp(1), StrOp(2))>>, 0, BirdProps),
      Case(Ok(FALSE), symbols, <<EqualCond(StrOp(1), StrOp(3))>>, 0, BirdProps),
      Case(Ok(FALSE), symbols, <<EqualCond(StrOp(2), StrOp(1))>>, 0, BirdProps)}

InequalConditionWithNumberPropertyKeys ==
  {Case(Ok(TRUE), None, <<InequalCond(NumOp(1), NumOp(500))>>, 0, NumberProps),
   Case(Ok(TRUE), None, <<InequalCond(NumOp(10), NumOp(5))>>, 0, NumberProps),
   Case(Ok(FALSE), None, <<InequalCond(NumOp(2), NumOp(500))>>, 0, NumberProps)}

InequalConditionWithStringPropertyKeys ==
  {Case(Ok(TRUE), BirdSymbols, <<InequalCond(StrOp(1), StrOp(1))>>, 0, BirdProps),
   Case(Ok(TRUE), BirdSymbols, <<InequalCond(StrOp(2), StrOp(1))>>, 0, BirdProps),
   Case(Ok(FALSE), BirdSymbols, <<InequalCond(StrOp(1), StrOp(2))>>, 0, BirdProps)}

UnconditionalAbort == {Case(Ok(FALSE), None, <<UncondAbort>>, 0, None)}

MatchWithKeyValues ==
  LET symbols == 1 :> timberdoodle
      props == StringKey(timberdoodle) :> NumberValue(2000)
  IN {Case(Ok(TRUE), symbols, <<EqualCond(KeyOp(1), NumOp(2000))>>, 0, props),
      Case(Ok(FALSE), symbols, <<EqualCond(KeyOp(1), NumOp(500))>>, 0, props)}

MatchWithBoolValues ==
  LET props == NumberKey(1) :> BoolValue(TRUE)
  IN {Case(Ok(TRUE), None, <<EqualCond(NumOp(1), BoolOp(1))>>, 0, props),
      Case(Ok(FALSE), None, <<EqualCond(NumOp(1), BoolOp(0))>>, 0, props)}

\* Both cases run on an empty symbol table (the table the test builds is unused).
MissingEntryInSymbolTable ==
  {Case(Err(Error("MissingEntryInSymbolTable", 10)), None,
        <<InequalCond(StrOp(10), StrOp(1))>>, 0, None),
   Case(Err(Error("MissingEntryInSymbolTable", 15)), None,
        <<InequalCond(KeyOp(15), StrOp(1))>>, 0, None)}

\* vec![0xFF] followed by an inequal condition.
InvalidOp ==
  {Case(Err(Error("InvalidOp", 255)), None,
        <<[UncondAbort EXCEPT !.op = 255], InequalCond(NumOp(10), NumOp(1))>>, 0, None)}

\* vec![0x01, 0x05, 0, 0, 0, 0, 0x01, 0, 0, 0, 0].
InvalidValueType ==
  {Case(Err(Error("InvalidValueType", 5)), None,
        <<EqualCond([type |-> 5, raw |-> 0], NumOp(0))>>, 0, None)}

InvalidBoolValue ==
  {Case(Err(Error("InvalidBoolValue", 15)), None,
        <<InequalCond(NumOp(10), BoolOp(15))>>, 0, None)}

MismatchValueTypes ==
  LET symbols == (1 :> tyrant) @@ (2 :> flycatcher)
      props == (NumberKey(1) :> NumberValue(2000))
                 @@ (StringKey(tyrant) :> StringValue(flycatcher))
  IN {Case(Err(Error("MismatchValueTypes", 0)), symbols,
           <<EqualCond(StrOp(1), NumOp(15))>>, 0, props)}

\* vec![0x01, 0x02, 0, 0, 0]: the first five of the eleven bytes of a condition.
InvalidConditionStatement ==
  {Case(Err(Error("UnexpectedEnd", 0)), None, <<EqualCond(StrOp(0), NumOp(0))>>, 6, None)}

RailProps ==
  (NumberKey(10) :> NumberValue(2000)) @@ (NumberKey(2) :> NumberValue(500))
    @@ (StringKey(rail) :> StringValue(crake))
RailSymbols == (1 :> crake) @@ (2 :> rail)

MatchWithMultipleConditionStatements ==
  {Case(Ok(TRUE), RailSymbols,
        <<InequalCond(NumOp(10), NumOp(200)), InequalCond(StrOp(1), StrOp(2)),
          EqualCond(NumOp(10), NumOp(2000))>>, 0, RailProps)}

NoMatchWithMultipleConditionStatements ==
  {Case(Ok(FALSE), RailSymbols,
        <<EqualCond(StrOp(2), StrOp(1)), EqualCond(NumOp(2), NumOp(5000)),
          InequalCond(NumOp(1), NumOp(40))>>, 0, RailProps)}

UnitTests ==
  EmptyInstructions \cup EqualConditionWithNumberPropertyKeys
  \cup EqualConditionWithStringPropertyKeys \cup InequalConditionWithNumberPropertyKeys
  \cup InequalConditionWithStringPropertyKeys \cup UnconditionalAbort \cup MatchWithKeyValues
  \cup MatchWithBoolValues \cup MissingEntryInSymbolTable \cup InvalidOp \cup InvalidValueType
  \cup InvalidBoolValue \cup MismatchValueTypes \cup InvalidConditionStatement
  \cup MatchWithMultipleConditionStatements \cup NoMatchWithMultipleConditionStatements

TestPrograms == {c.program : c \in UnitTests}
TestSymbolTables == {c.symbols : c \in UnitTests}
TestPropertyTables == {c.properties : c \in UnitTests}

\* The matcher started on a test's program, table and properties, cut anywhere in its last instruction.
TestInit ==
  /\ case \in UnitTests
  /\ program = case.program
  /\ cut \in Abs!Cuts(program)
  /\ bytecode = Assemble(program, cut)
  /\ symbolTable = case.symbols
  /\ properties = case.properties
  /\ pos = 0
  /\ outcome = Running

TestSpec == TestInit /\ [][Next /\ UNCHANGED case]_<<vars, case>> /\ WF_vars(Next)

-----------------------------------------------------------------------------
(***************************************************************************)
(* On every input of the unit tests, match_bind returns the Result the     *)
(* test asserts.                                                           *)
(***************************************************************************)
MatchesUnitTests == cut = case.cut /\ outcome # Running => outcome = case.expected

=============================================================================
