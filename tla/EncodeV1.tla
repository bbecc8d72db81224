------------------------------ MODULE EncodeV1 ------------------------------
(***************************************************************************)
(* The V1 encoder of                                                       *)
(* src/devices/bind/debugger/src/encode_bind_program_v1.rs.  A             *)
(* RawInstruction is the bitfield over three u32 words: here a function    *)
(* from bit index 0..95 to {0,1}, so that every setter and getter is the   *)
(* bit-range copy the bitfield crate performs (a setter keeps the low bits *)
(* of its argument and silently drops the rest).                           *)
(*                                                                         *)
(* encode_to_bytecode_v1 and encode_to_string_v1 are two passes over the   *)
(* same program; a step of a pass encodes one instruction.  The passes     *)
(* share nothing, so their steps interleave freely.                        *)
(*                                                                         *)
(* InstructionInfo is [instruction, debug]; an instruction is              *)
(* [kind, cond, a] with cond = [kind, b, v]; debug is                      *)
(* [line, ast_location, extra].  Numbers stay below 2^31 (TLC integers).   *)
(***************************************************************************)
EXTENDS Integers, SequencesExt

CONSTANT Programs   \* sequences of InstructionInfo the compiler may emit

VARIABLES program, bytesOut, nBytes, textOut, nText

vars == <<program, bytesOut, nBytes, textOut, nText>>

\* RawOp and RawCondition: the values of <ddk/binding.h>.
RawOp == ("Abort" :> 0) @@ ("Match" :> 1) @@ ("Goto" :> 2) @@ ("Label" :> 5)
RawCondition == ("Always" :> 0) @@ ("Equal" :> 1) @@ ("NotEqual" :> 2)

\* Mutant: the condition and opcode nibbles declared in swapped places.
LayoutSwappedNibbles ==
  [condition |-> <<27, 24>>, operation |-> <<31, 28>>, parameter_a |-> <<23, 16>>,
   parameter_b |-> <<15, 0>>, value |-> <<63, 32>>, line |-> <<95, 88>>,
   ast_location |-> <<87, 80>>, extra |-> <<79, 64>>]

\* The bitfield! declaration: field |-> <<msb, lsb>>.
Layout ==
  [condition |-> <<31, 28>>, operation |-> <<27, 24>>, parameter_a |-> <<23, 16>>,
   parameter_b |-> <<15, 0>>, value |-> <<63, 32>>, line |-> <<95, 88>>,
   ast_location |-> <<87, 80>>, extra |-> <<79, 64>>]

Bits == 0 .. 95

RECURSIVE Bit(_, _)
\* Bit k of n, computed without forming 2^k.
Bit(n, k) == IF k = 0 THEN n % 2 ELSE Bit(n \div 2, k - 1)

RECURSIVE BitRange(_, _, _)
\* The number held in bits lsb..msb of raw.
BitRange(raw, msb, lsb) ==
  IF msb < lsb THEN 0 ELSE raw[lsb] + 2 * BitRange(raw, msb, lsb + 1)

\* The generated setter set_<f> and getter <f>.
SetField(raw, f, val) ==
  [i \in Bits |-> IF Layout[f][2] <= i /\ i <= Layout[f][1]
                  THEN Bit(val, i - Layout[f][2]) ELSE raw[i]]

GetField(raw, f) == BitRange(raw, Layout[f][1], Layout[f][2])

\* Mutant: key and value swapped.
EncodeConditionSwapped(c) ==
  IF c.kind = "Always" THEN <<RawCondition["Always"], 0, 0>>
  ELSE <<RawCondition[c.kind], c.v, c.b>>

(***************************************************************************)
(* encode_condition: (condition code, parameter b, value).                 *)
(***************************************************************************)
EncodeCondition(c) ==
  IF c.kind = "Always" THEN <<RawCondition["Always"], 0, 0>>
  ELSE <<RawCondition[c.kind], c.b, c.v>>

(***************************************************************************)
(* From<Instruction> for RawInstruction: (c, o, a, b, v) per variant, then *)
(* the five setters on the zeroed words, in the code's order.              *)
(***************************************************************************)
FromInstruction(ins) ==
  LET cbv == EncodeCondition(ins.cond)
      f == IF ins.kind = "Label"
           THEN <<RawCondition["Always"], RawOp["Label"], ins.a, 0, 0>>
           ELSE <<cbv[1], RawOp[ins.kind], IF ins.kind = "Goto" THEN ins.a ELSE 0,
                  cbv[2], cbv[3]>>
      zero == [i \in Bits |-> 0]
  IN SetField(SetField(SetField(SetField(SetField(zero,
       "condition", f[1]), "operation", f[2]), "parameter_a", f[3]),
       "parameter_b", f[4]), "value", f[5])

\* encode_instruction: the instruction, then the three debug setters.
EncodeInstruction(info) ==
  SetField(SetField(SetField(FromInstruction(info.instruction),
    "line", info.debug.line), "ast_location", info.debug.ast_location),
    "extra", info.debug.extra)

(***************************************************************************)
(* The words of a RawInstruction as bytes (u32::to_le_bytes) and as hex    *)
(* digits ({:#x}: "0x", lowercase, no leading zeros, "0x0" for zero).      *)
(***************************************************************************)
\* Mutant: to_be_bytes in place of to_le_bytes.
WordBytesBigEndian(raw, w) == [j \in 1 .. 4 |-> BitRange(raw, 32 * w + 39 - 8 * j, 32 * w + 32 - 8 * j)]

WordBytes(raw, w) == [j \in 1 .. 4 |-> BitRange(raw, 32 * w + 8 * j - 1, 32 * w + 8 * (j - 1))]

HexDigits == <<"0", "1", "2", "3", "4", "5", "6", "7", "8", "9", "a", "b", "c", "d", "e", "f">>

\* The eight nibbles of word w, most significant first.
WordNibbles(raw, w) == [j \in 1 .. 8 |-> BitRange(raw, 32 * w + 35 - 4 * j, 32 * w + 32 - 4 * j)]

FormatHex(raw, w) ==
  LET n == WordNibbles(raw, w)
      nonzero == {j \in 1 .. 8 : n[j] # 0}
      first == IF nonzero = {} THEN 8 ELSE CHOOSE j \in nonzero : \A k \in nonzero : j <= k
  IN <<"0", "x">> \o [j \in 1 .. 9 - first |-> HexDigits[n[first + j - 1] + 1]]

Init ==
  /\ program \in Programs
  /\ bytesOut = <<>>
  /\ nBytes = 0
  /\ textOut = <<>>
  /\ nText = 0

\* Mutant: the debug word left out of the byte output.
EncodeBytesStepTwoWords ==
  /\ nBytes < Len(program)
  /\ LET raw == EncodeInstruction(program[nBytes + 1])
     IN bytesOut' = bytesOut \o WordBytes(raw, 0) \o WordBytes(raw, 1)
  /\ nBytes' = nBytes + 1
  /\ UNCHANGED <<program, textOut, nText>>

(***************************************************************************)
(* encode_to_bytecode_v1: the next instruction's three words, each as its  *)
(* four little-endian bytes, appended to the output.                       *)
(***************************************************************************)
EncodeBytesStep ==
  /\ nBytes < Len(program)
  /\ LET raw == EncodeInstruction(program[nBytes + 1])
     IN bytesOut' = bytesOut \o WordBytes(raw, 0) \o WordBytes(raw, 1) \o WordBytes(raw, 2)
  /\ nBytes' = nBytes + 1
  /\ UNCHANGED <<program, textOut, nText>>

(***************************************************************************)
(* encode_to_string_v1: "{w0,w1,w2}," for the next instruction.            *)
(***************************************************************************)
EncodeTextStep ==
  /\ nText < Len(program)
  /\ LET raw == EncodeInstruction(program[nText + 1])
     IN textOut' = textOut \o <<"{">> \o FormatHex(raw, 0) \o <<",">> \o FormatHex(raw, 1)
                     \o <<",">> \o FormatHex(raw, 2) \o <<"}", ",">>
  /\ nText' = nText + 1
  /\ UNCHANGED <<program, bytesOut, nBytes>>

Next == EncodeBytesStep \/ EncodeTextStep

Spec == Init /\ [][Next]_vars

-----------------------------------------------------------------------------
TypeOK ==
  /\ nBytes \in 0 .. Len(program) /\ nText \in 0 .. Len(program)
  /\ bytesOut \in Seq(0 .. 255)
  /\ Len(bytesOut) = 12 * nBytes

\* The RawInstruction the i-th 12 bytes of the byte output stand for.
RawFromBytes(i) == [k \in Bits |-> Bit(bytesOut[12 * (i - 1) + k \div 8 + 1], k % 8)]

(***************************************************************************)
(* Every field as the spec's table (section 4.1) assigns it: condition     *)
(* Always=0, Equal=1, NotEqual=2; operation Abort=0, Match=1, Goto=2,      *)
(* Label=5; a the jump target of Goto and Label; b and value the           *)
(* condition's key and value.                                              *)
(***************************************************************************)
Expected(info) ==
  LET ins == info.instruction
      always == ins.kind = "Label" \/ ins.cond.kind = "Always"
  IN [condition |-> IF always THEN 0 ELSE IF ins.cond.kind = "Equal" THEN 1 ELSE 2,
      operation |-> CASE ins.kind = "Abort" -> 0 [] ins.kind = "Match" -> 1
                      [] ins.kind = "Goto" -> 2 [] ins.kind = "Label" -> 5,
      parameter_a |-> IF ins.kind \in {"Goto", "Label"} THEN ins.a ELSE 0,
      parameter_b |-> IF always THEN 0 ELSE ins.cond.b,
      value |-> IF always THEN 0 ELSE ins.cond.v,
      line |-> info.debug.line, ast_location |-> info.debug.ast_location,
      extra |-> info.debug.extra]

\* The instruction's numbers fit the widths of the fields they go to.
FitsWidths(info) ==
  /\ info.instruction.a < 2 ^ 8
  /\ info.instruction.cond.b < 2 ^ 16
  /\ info.debug.line < 2 ^ 8
  /\ info.debug.ast_location < 2 ^ 8
  /\ info.debug.extra < 2 ^ 16

RoundTrips(i) ==
  [f \in DOMAIN Layout |-> GetField(RawFromBytes(i), f)] = Expected(program[i])

(***************************************************************************)
(* Reading back the bytes encode_to_bytecode_v1 wrote, every getter of the *)
(* bitfield returns what the instruction and its debug data put in that    *)
(* field, for instructions whose numbers fit: no setter spills into a      *)
(* neighbouring field and no word or byte is out of place.                 *)
(***************************************************************************)
InstructionsRoundTrip ==
  \A i \in 1 .. nBytes : FitsWidths(program[i]) => RoundTrips(i)

(***************************************************************************)
(* The claim of the spec (section 8): the condition, opcode and operands  *)
(* of every Instruction are read back unchanged, whatever its numbers.     *)
(***************************************************************************)
AllInstructionsRoundTrip ==
  \A i \in 1 .. nBytes, f \in {"condition", "operation", "parameter_a", "parameter_b", "value"} :
    GetField(RawFromBytes(i), f) = Expected(program[i])[f]

(***************************************************************************)
(* The debug layout the spec (section 4.1) gives: line in bits [64,72),    *)
(* ast_location in [72,80), extra in [80,96).                              *)
(***************************************************************************)
SpecDebugLayout ==
  \A i \in 1 .. nBytes :
    LET raw == RawFromBytes(i) IN
    FitsWidths(program[i]) =>
      /\ BitRange(raw, 71, 64) = program[i].debug.line
      /\ BitRange(raw, 79, 72) = program[i].debug.ast_location
      /\ BitRange(raw, 95, 80) = program[i].debug.extra

\* Word w (0, 1 or 2) of a RawInstruction: raw.0[w].
Word(raw, w) == BitRange(raw, 32 * w + 31, 32 * w)

ZeroRaw == [i \in Bits |-> 0]

(***************************************************************************)
(* test_raw_instruction: the five setters applied in turn to a zeroed      *)
(* RawInstruction, with the two words and the getters asserted after each. *)
(***************************************************************************)
RawInstructionSetters ==
  <<[f |-> "condition", v |-> 1, w0 |-> 268435456, w1 |-> 0],
    [f |-> "operation", v |-> 2, w0 |-> 268435456 + 33554432, w1 |-> 0],
    [f |-> "parameter_a", v |-> 3, w0 |-> 268435456 + 33554432 + 196608, w1 |-> 0],
    [f |-> "parameter_b", v |-> 4, w0 |-> 268435456 + 33554432 + 196608 + 4, w1 |-> 0],
    [f |-> "value", v |-> 5, w0 |-> 268435456 + 33554432 + 196608 + 4, w1 |-> 5]>>

RECURSIVE AfterSetters(_)
\* The RawInstruction after the first k setters of the test.
AfterSetters(k) ==
  IF k = 0 THEN ZeroRaw
  ELSE SetField(AfterSetters(k - 1), RawInstructionSetters[k].f, RawInstructionSetters[k].v)

TestRawInstructionHolds ==
  \A k \in 1 .. 5 :
    LET raw == AfterSetters(k)
    IN /\ Word(raw, 0) = RawInstructionSetters[k].w0
       /\ Word(raw, 1) = RawInstructionSetters[k].w1
       /\ \A j \in 1 .. 5 :
            GetField(raw, RawInstructionSetters[j].f) =
              IF j <= k THEN RawInstructionSetters[j].v ELSE 0

(***************************************************************************)
(* test_abort_value, test_match_value, test_goto_value, test_label_value   *)
(* and test_complicated_value: RawInstruction::from(instruction) and the   *)
(* two words they assert.                                                  *)
(***************************************************************************)
FromInstructionTests ==
  LET always == [kind |-> "Always", b |-> 0, v |-> 0]
  IN {[instruction |-> [kind |-> "Abort", cond |-> always, a |-> 0], w0 |-> 0, w1 |-> 0],
      [instruction |-> [kind |-> "Match", cond |-> always, a |-> 0], w0 |-> 16777216, w1 |-> 0],
      [instruction |-> [kind |-> "Goto", cond |-> always, a |-> 0], w0 |-> 33554432, w1 |-> 0],
      [instruction |-> [kind |-> "Label", cond |-> always, a |-> 0], w0 |-> 83886080, w1 |-> 0],
      [instruction |-> [kind |-> "Goto", cond |-> [kind |-> "Equal", b |-> 23, v |-> 1234],
                        a |-> 42],
       w0 |-> 268435456 + 33554432 + 2752512 + 23, w1 |-> 1234]}

(***************************************************************************)
(* The encoder agrees with its unit tests: the setter sequence of          *)
(* test_raw_instruction leaves the words and getter values it asserts, and *)
(* every instruction of the From tests that encode_to_bytecode_v1 has      *)
(* written shows, read back from the bytes, the two words its test         *)
(* asserts (the tests fix the bit positions, which the getters alone do    *)
(* not).                                                                   *)
(***************************************************************************)
MatchesUnitTests ==
  /\ TestRawInstructionHolds
  /\ \A i \in 1 .. nBytes, t \in FromInstructionTests :
       program[i].instruction = t.instruction =>
         /\ Word(RawFromBytes(i), 0) = t.w0
         /\ Word(RawFromBytes(i), 1) = t.w1

(***************************************************************************)
(* The bitfield's doc comment: line is "the source code line which the     *)
(* instruction was compiled from".  Every encoded instruction's line field *)
(* reads back as the line of its debug info.                               *)
(***************************************************************************)
DebugLineIsSourceLine ==
  \A i \in 1 .. nBytes : GetField(RawFromBytes(i), "line") = program[i].debug.line

RECURSIVE SplitFields(_, _)
\* The runs of characters between the delimiters "{", "," and "}".
SplitFields(chars, cur) ==
  LET flushed == IF cur = <<>> THEN <<>> ELSE <<cur>>
  IN IF chars = <<>> THEN flushed
     ELSE IF Head(chars) \in {"{", ",", "}"}
          THEN flushed \o SplitFields(Tail(chars), <<>>)
          ELSE SplitFields(Tail(chars), Append(cur, Head(chars)))

\* The delimiters of "{w0,w1,w2}," for n instructions.
Punctuation(n) == FlattenSeq([i \in 1 .. n |-> <<"{", ",", ",", "}", ",">>])

HexValue(c) == CHOOSE d \in 0 .. 15 : HexDigits[d + 1] = c

\* Word w of instruction i from the byte output, as 8 nibbles, most significant first.
ByteNibbles(i, w) ==
  [j \in 1 .. 8 |-> LET b == bytesOut[12 * (i - 1) + 4 * w + 4 - (j - 1) \div 2]
                    IN IF j % 2 = 1 THEN b \div 16 ELSE b % 16]

\* A hex field "0x..." of at most 8 digits with no leading zero, and its nibbles.
WellFormedHex(tok) ==
  /\ Len(tok) \in 3 .. 10
  /\ tok[1] = "0" /\ tok[2] = "x"
  /\ \A j \in 3 .. Len(tok) : tok[j] \in Range(HexDigits)
  /\ Len(tok) = 3 \/ tok[3] # "0"

HexNibbles(tok) ==
  [j \in 1 .. 8 |-> IF j <= 10 - Len(tok) THEN 0 ELSE HexValue(tok[j + Len(tok) - 8])]

(***************************************************************************)
(* The two outputs agree bit for bit: parsing the text encode_to_string_v1 *)
(* wrote gives, word by word, the numbers whose little-endian bytes        *)
(* encode_to_bytecode_v1 wrote, for every instruction both have encoded.   *)
(***************************************************************************)
TextAgreesWithBytes ==
  LET n == IF nBytes < nText THEN nBytes ELSE nText
      fields == SplitFields(textOut, <<>>)
  IN /\ SelectSeq(textOut, LAMBDA c : c \in {"{", ",", "}"}) = Punctuation(nText)
     /\ Len(fields) = 3 * nText
     /\ \A i \in 1 .. n, w \in 0 .. 2 :
          LET tok == fields[3 * (i - 1) + w + 1]
          IN WellFormedHex(tok) /\ HexNibbles(tok) = ByteNibbles(i, w)

=============================================================================
