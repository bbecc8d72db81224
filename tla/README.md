# TLA+ models of the bind bytecode and driver tools (fuchsia-devices)

This directory holds TLA+ models of the bind-bytecode code in `src/`. The models are checked with TLC.
The bind bytecode is the compiled form of a driver's matching rule. The device manager runs it against a
device's property table to decide whether the driver binds to the device.

## 1. Inventory

| Component | Source | State it keeps | Operations |
|---|---|---|---|
| V2 matching engine (`DeviceMatcher`) | `lib/bind/src/match_bind.rs` | byte iterator over the instructions (cursor), borrowed symbol table, device properties | `match_bytecode`, `match_bind` loop, `evaluate_condition_inst`, `read_and_evaluate_values`, `read_next_value`, `lookup_symbol_table`, `compare_symbols` |
| V2 value model | `match_bind.rs` (`PropertyKey`, `DeviceProperties`); `Symbol`, `RawOp`, `RawValueType`, `BytecodeError`, `next_u8/u32` outside `src/` | none (values) | operand materialisation, key projection, comparison |
| V2 loader (`DecodedProgram::new`) | outside `src/` | none | header and symbol-table parsing |
| V1 encoder | `bind/debugger/src/encode_bind_program_v1.rs` | the 3-word `RawInstruction` bitfield; the byte and text outputs | `From<Instruction>`, `encode_condition`, `encode_instruction`, `encode_to_bytecode_v1`, `encode_to_string_v1` |
| driver list subcommand | `bin/driver_tools/.../list/mod.rs` | the two RPC futures, the loaded-driver set | `list` (join of two queries, filter, print) |
| Cr50 client | `tpm/bin/tpm-cr50/client/src/main.rs` | the pending FIDL reply, the capability rows left to print | `run_cmd` (connect, `ccd_get_info`, print), `main` (report the error) |
| fidlgen_banjo C backend | `tools/fidlgen_banjo/src/backends/{mod,c}.rs` | the writer; the declarations collected and generated so far | `codegen` (header write, `get_declarations`, collect of `codegen_*_decl`, body write) |
| Banjo Rust backend | `tools/banjo/src/backends/rust.rs` | the writer; the output of each of the four passes | `codegen` (header write, enum/const/struct/union passes with `to_rust_type`, body write) |

**How they interact.** The compiler is outside `src/`. It produces abstract instructions. The V1 encoder
turns each one into a 12-byte record and also into a `{0x..,0x..,0x..},` text line. The V2 bytes plus a
symbol table go to the matcher. The matcher reads the bytes one opcode at a time. For a condition, it
decodes two `[type:u8][u32 LE]` operands, looks up the key in the device properties and compares the two
values. It stops at the first false condition or abort, and it stops at the first decode or type error.
Nothing is shared between calls. The matcher is single-threaded and never mutates its inputs.
The driver tools (`list`, the Cr50 client) are async clients of FIDL services. The two banjo code
generators are independent programs that share one contract, the `Backend` trait: write a header, then a
body, to a writer that may fail.

**What is hard.** There is no concurrency in the core. The hard parts are these:
- Byte-level decoding. A truncated stream, a bad type byte or a missing symbol each raise a different error.
  Which error is reported depends on the order of the reads.
- Cursor alignment. Every operand must consume exactly its bytes.
- Short-circuit order. A later malformed instruction is masked by an earlier false one.
- An absent key is treated asymmetrically.
- The V1 encoder has fixed-width fields. The bitfield setters silently truncate. The two outputs must agree
  bit for bit.
- In `list`, two RPCs are joined, and then their errors are checked in a fixed order.

**Properties that make each component correct.**
- Matcher: it returns exactly the verdict of the instruction-level semantics (first stopping
  instruction, else `Ok(true)`), including error kinds. It never panics. Its cursor is always on an
  instruction start. It terminates.
- V1 encoder: every field is read back by its getter. No field spills into a neighbour. The text and
  byte forms agree. Nothing is truncated.

## 2. Plan

Modules, in the order they are built (most important first):

1. `BytecodeV2`: the shared value model. Symbols, keys, results, operand materialisation and comparison.
   These are pure operators. **(done)**
2. `MatchSpec`: the abstract specification of `match_bytecode`, stated over the instructions a program was
   assembled from. Decision is one atomic step: the first instruction whose outcome is not "continue"
   gives the verdict. **(done)**
3. `MatchBind`: the byte-level `DeviceMatcher` loop, one opcode per step. `INSTANCE MatchSpec` is the
   refinement; the mapping is the identity on the shared variables, and `pos` and `bytecode` are hidden.
   `MCMatchBind` instantiates it. **(done)**
4. `EncodeV1`: the V1 bitfield encoder and its two output passes. `MCEncodeV1` instantiates it.
   **(done)**
5. `DriverList`: the `list` subcommand. `MCDriverList` instantiates it. **(done)**
6. `MatchBindTests`: every `#[test]` of `match_bind.rs` as a case of the byte matcher. **(done)**
7. `Cr50Client`: `ccd get-info` of the Cr50 tool. No run checks it (see section 6). **(done)**
8. `GeneratorSpec`: the `Backend::codegen` contract, one atomic step. `FidlgenC` and `BanjoRust` each
   refine it through `INSTANCE GeneratorSpec WITH`, supplying its operator constants. **(done)**
9. Later, if time allows: a V1 `RawInstruction` decoder reference, composed with `EncodeV1`. This would
   state the round trip as a refinement of an abstract instruction list.

## 3. Modules and how they correspond to the code

### BytecodeV2 (`match_bind.rs` 20-29, 81-143; constants from the spec)

- Symbols are records `[type, val]`.
- Strings are TLC model values, compared only for equality.
- `Materialize` is the `match value_type` arm of `read_next_value` together with `lookup_symbol_table`.
- `ToPropertyKey` / `HasPropertyKey` are the key projection.
- `CompareSymbols` is `compare_symbols`. It compares discriminants first.
- `EvaluateLookup` is the `properties.get` match.
- The opcode and value-type byte values come from `bind_program_v2_constants`, which is not under `src/`.
  The spec gives 0x01, 0x02 and 0x30. The value-type bytes 0..4 are the ones the tests imply.
- `IgnoredOps` is a constant (0x10 in the runs). It stands for the jump opcodes that the loop skips.

### MatchSpec (abstract)

- Variables: `program`, `cut`, `symbolTable`, `properties`, `outcome`.
- An instruction is `[op, key, value]`. `cut` bytes are missing from the end of the last instruction.
- `InstrOutcome` gives the outcome of one instruction. `Verdict` is the outcome of the least index
  whose outcome is not `Continue`, or `Ok(TRUE)` if there is none.
- Per the spec, a key operand of the wrong type gives `UnimplementedKeyType`.

### MatchBind (`match_bind.rs` 31-151)

- Variables: the inputs, the byte stream `bytecode`, the iterator position `pos`, and `outcome`.
- `bytecode` is `Assemble(program, cut)`. This is what the tests' `append_*` helpers build, cut short by
  `cut` bytes.
- There is one action per arm of the `while let` loop:
  - `ReachEnd`: `next()` returns `None`.
  - `RejectInvalidOp`: `from_u8` fails.
  - `AbortOp`.
  - `SkipOp`: the `_ => {}` arm.
  - `EvaluateCondition`: `evaluate_condition_inst` and the `if !...? return Ok(false)` around it.
- `ReadNextValue` and `ReadAndEvaluateValues` translate the two helpers, with the code's order of reads and
  early returns.
- A panic (`unimplemented!`) is an outcome of its own.

### EncodeV1 (`encode_bind_program_v1.rs` 14-133)

- A `RawInstruction` is a function from bit 0..95 to {0,1}.
- `SetField` is the bitfield setter. It copies the low bits of its argument into `[lsb, msb]` and drops the
  rest, as the `bitfield` crate does. `GetField` is the getter.
- `FromInstruction` and `EncodeInstruction` apply the setters in the code's order.
- `EncodeBytesStep` and `EncodeTextStep` are one iteration of each output pass. They are two independent
  calls, so their steps interleave freely.
- Numbers are kept below 2^31, the width of a TLC integer. Bits are extracted without forming 2^31.

- `RawInstructionSetters`, `AfterSetters` and `TestRawInstructionHolds` replay `test_raw_instruction`:
  the setter calls in order, with the word and getter values asserted after each. `FromInstructionTests`
  holds the five `From<Instruction>` tests and the words they assert. `MatchesUnitTests` checks both.
- `DebugLineIsSourceLine` states the bitfield's doc comment: `line` is the source line.

### MatchBindTests (`match_bind.rs` 152-665)

- The module extends `MatchBind` with a variable `case` that is fixed in the first state. It ranges over
  one record per `#[test]` function: the expected `Result`, the symbol table, the instructions and the
  properties. The builders `EqualCond`, `InequalCond` and `UncondAbort` mirror `append_*` in the test
  module, and `Case` mirrors `verify_match_result`.
- The test strings are model values. The cut of the program is any prefix `MatchSpec` allows, so a
  truncated test program is checked against the refinement too.

### DriverList (`driver_tools/.../list/mod.rs` 17-112)

- `driverReply` and `deviceReply` are the two futures. `DriverServiceReplies` and `DeviceServiceReplies`
  complete them with a list or an error, in either order. Without `--loaded` the device future is
  `NotSent`.
- `JoinLoaded` is the statement after `join!`: `device_info?`, then `driver_info?`, then the filter on
  `LoadedDriverSet`. `AwaitDrivers` is the path without `--loaded`.
- `PrintDriver` is one iteration of the printing loop. `Line` says what is printed: with `--verbose`,
  which branch the bind rules take (a V2 program that `dump_bind_rules` rejects prints the issue and the
  loop goes on); otherwise the libname or URL, in the order the code picks. `Finish` returns `Ok(())`.
- A driver is `[name, libname, url, rules]`. Names are Options, as sets of at most one string. A device
  is the bound driver of a DFv1 node (libname) or a DFv2 node (URL).

### Cr50Client (`tpm-cr50/client/src/main.rs` 43-88)

- `Connect` and `ConnectFails` are `connect_to_protocol`. `ServiceReplies` is the service answering
  `ccd_get_info` with a FIDL error, a zx error, or `(rc, Option<CcdInfo>)`.
- `ReceiveReply` takes the two `?` (their contexts are printed by `main`, `ReportError`), then the
  `if let Some(info)`: the state lines and the table header, or `Error: rc`.
- `PrintCapability` prints one row per loop iteration; `CapabilityRow` shows the default only when it
  differs from the current state. `Return` is the `Ok(())` after the loop.

### GeneratorSpec (abstract; `fidlgen_banjo/src/backends/mod.rs` 11-13)

- `Backend::codegen(ir)` writes to its writer and returns `Result<(), Error>`. `Generate` is that call as
  one step: a translatable input gives header and body and `Ok`; a failing writer leaves a proper prefix
  and `Err`; an input with a declaration the backend rejects leaves at most the header and `Err`.
- The module is parameterised by operator constants `HeaderOf(_)`, `BodyOf(_)` and `Untranslatable(_)`,
  which each backend supplies with its own translation.

### FidlgenC (`fidlgen_banjo/src/backends/c.rs` 33-198)

- `WriteHeader` is the first `write_fmt` (the includes are the dependencies other than zx) followed by
  `get_declarations`. `GetDeclarations` is the `filter_map` over `declaration_order`: `DeclOf` drops an
  identifier that the declarations map lacks, that is neither a const nor an enum, or whose data is missing
  (`FirstNamed` is `.filter(..).nth(0)`).
- `GenerateDecl` is one element of the `collect::<Result<Vec<_>>>`. A constant whose type
  `constant_to_c_str` rejects (`Rejects`: not an integer or bool) ends `codegen` through `?`. Enum members
  always reach an integer arm of `integer_constant_to_c_str`, so an enum is never rejected.
- `WriteBody` is the second `write_fmt`. `FailedWrite` is a `write_fmt` that returns `Err` after some
  leading items reached the writer. The text of a declaration is abstracted to an item with its name, its
  macro (`INT8_C`... or none for a bool) and its doc comment (`DocComment`: the first non-empty `Doc`).
- `Abs` maps `file` to the writer's content once `codegen` has returned, and both error kinds to `Err`.

### BanjoRust (`banjo/src/backends/rust.rs` 25-229)

- `RustType` is `to_rust_type`, RECURSIVE over type records, returning a set of at most one element
  (`{}` for the `Err` arm). `id_to_type` and `is_base_type` belong to the AST (outside `src/`), so they are
  the constants `IdType` and `BaseIds`.
- `GenerateDecl` is one iteration of a pass's `for decl in namespace`: a declaration of another kind is
  passed over; one of the pass's kind gives `DeclItem` (the body of `codegen_enum_decl`,
  `codegen_const_decl`, `codegen_struct_decl` or `codegen_union_decl`), or its `Err` returns. `EndPass`
  moves to the next `format_args!` argument, in the order enum, constant, struct, union.
- A struct or union is packed when its attribute list contains `PackedAttr`, which is `Packed` with no value,
  as `attributes.0.contains(..)` tests. `MCBanjoRust` has one `Packed` attribute with no value and one
  with a value.
- `WriteHeader`, `WriteBody` and `FailedWrite` are as in `FidlgenC`. The includes are a set, because
  `namespaces` is a map.

## 4. Runs

| Run | Module / cfg | Expect | What it shows |
|---|---|---|---|
| `match_bind` | `MCMatchBind` / `MCMatchBind.cfg` | pass | `MatchSpecRefined`: the byte matcher implements `MatchSpec`, with weak fairness, so it also terminates. `CursorOnInstructionBoundary`: while it runs, `pos` is the encoded length of an instruction prefix. `TypeOK`. |
| `match_panic` | `MCMatchBind` / `MCMatchBindPanic.cfg` | violation | `NeverPanics` fails: a bool or enum key operand panics. |
| `encode_v1` | `MCEncodeV1` / `MCEncodeV1.cfg` | pass | `MatchesUnitTests`: the words and getter values of the file's unit tests are reproduced. `InstructionsRoundTrip`: every getter reads back, from the byte output, the field the spec's table assigns, when the numbers fit. `TextAgreesWithBytes`: the hex text parses back to the byte output's words, and it has the exact `{a,b,c},` punctuation and no leading zeros. `TypeOK`. |
| `encode_v1_widths` | `MCEncodeV1` / `MCEncodeV1Widths.cfg` | violation | `AllInstructionsRoundTrip` fails: the trace encodes `Match(Equal(65536, 1))` with key 0. (`set_parameter_a` truncates a jump target above 255 in the same way; the trace does not show that case.) |
| `encode_v1_debug_lines` | `MCEncodeV1` / `MCEncodeV1Lines.cfg` | violation | `DebugLineIsSourceLine` fails: an instruction from source line 300 records line 44, since `set_line` keeps 8 bits. |
| `match_bind_unit_tests` | `MatchBindTests` / `MatchBindTests.cfg` | pass | `MatchesUnitTests`: on every unit test's inputs the model returns the asserted `Result`. `MatchSpecRefined`: on every cut of those programs the matcher still implements `MatchSpec`. |
| `driver_list` | `MCDriverList` / `MCDriverList.cfg` | pass | `ListsExactlyTheBoundDrivers`: in either reply order, a successful `list --loaded` prints exactly the drivers bound to some DFv1 or DFv2 node, in order, and `list` prints all. `ErrorsComeFromFailedQueries`: an error comes from a failed query, with nothing printed; the device error wins when both fail. |
| `fidlgen_c` | `MCFidlgenC` / `MCFidlgenC.cfg` | pass | `CodegenRefinesGenerator`: the C backend implements `GeneratorSpec`, so it returns, and under a failing writer what it leaves is a prefix of the file. `GenErrorLeavesExactlyTheHeader`: a rejected constant leaves the complete header and none of the declarations generated before it. `DeclaredIffDataPresent`: on `Ok`, an identifier of `declaration_order` is declared exactly when it is a const or enum with data; the others are dropped without an error. |
| `banjo_rust` | `MCBanjoRust` / `MCBanjoRust.cfg` | pass | `CodegenRefinesGenerator`: the four passes with early return implement `GeneratorSpec`. `Ok` means every enum, constant, struct and union of the primary namespace was translated. `Err` from a type without a Rust form leaves at most the header. `codegen` returns. |
| `encode_v1_debug_layout` | `MCEncodeV1` / `MCEncodeV1Debug.cfg` | violation | `SpecDebugLayout` fails: the debug word order is the reverse of the spec's table. |

**Bounds.**

`MCMatchBind` covers the following programs:
- The empty program.
- Every single instruction. Conditions are built from 6 key operands × 6 value operands × 2 opcodes, and
  there are also abort, an ignored opcode, and invalid opcode 0xFF.
- Two-instruction programs whose first instruction is skipped, holds, fails, or errors. These show the
  short-circuit and the error masking.
- Every proper truncation of the last instruction.

The operand values cover the following cases:
- A number that needs two bytes (2000), so the little-endian decoding is exercised.
- A missing symbol index (9) and an invalid bool value (7).
- Every value type, and an invalid type byte (5).

The device tables are every partial map from {NumberKey(1), StringKey(nightjar)} to {Number 2000,
String poorwill, Bool true}. This gives present, absent and mismatched-type keys. There are about 150k
states.

`MCEncodeV1` covers programs of up to two instructions over every variant and condition. The values sit at
the field edges: 255, 65535 and 2^31-1. Debug lines are 1 and 255. There are about 113k states.

`MCEncodeV1Lines.cfg` uses one-instruction programs with debug lines 255 and 300, the two sides of the
8-bit edge.

`MatchBindTests` has 16 cases, the whole test module, and about 600 states.

`MCDriverList` has four drivers: a DFv1 driver named by libname, a DFv2 driver with only a URL, one with
both and a malformed V2 program, and one without a name. The driver lists are all four, two of them in
reverse order, and none. The device lists are a DFv1 node, a DFv2 node and an unbound node; a DFv2 and a DFv1 node; and one
unbound DFv2 node.
Every flag combination, reply order and failure is explored (about 150 states).

`MCFidlgenC` has 24 IRs: two dependency lists (with and without zx), four declaration orders (including an
identifier the map lacks, a const with no data, a struct, and the empty order), and three const lists.
The const lists hold supported, float and string types, two entries of one name (the first wins), and
doc attributes that are empty, not `Doc`, or `Doc`. The writer may fail (158 states).

`MCBanjoRust` has 8 ASTs: four primary namespaces, each with or without a second dependency. One namespace
reaches every `Ok` arm of `to_rust_type`: arrays, vectors, sized and unsized strings, handles, zx base
types, enum and protocol names, struct references, and an alias resolved through `id_to_type`. The others
give an `Err` in the struct pass or in the constant pass, or are empty (118 states).

**Fairness.** `MatchBind` has `WF_vars(Next)`: `match_bind` is a plain loop on one thread, so it keeps
taking steps until it returns. The runs set `CHECK_DEADLOCK FALSE` because the matcher and both encoders
return. The final states are their return.

`DriverList` and `Cr50Client` have weak fairness on each service reply and on the client's steps. The
service answers every request it is sent; a closed channel completes the future with an error, which is
one of the replies. Once resumed, the client is a sequential async function that runs to its return.
No property depends on this fairness: these clients are straight-line code, and their termination
follows from it directly.

`FidlgenC` and `BanjoRust` have `WF_vars(Next)`: `codegen` is a sequential function with no waits, so it
runs to its return. `GeneratorSpec` has `WF_vars(Generate)`, which the refinement property checks too.

## 5. Findings

- **Panic on a non-key operand** (`match_bind.rs:85`). A bool or enum key operand calls `unimplemented!()`.
  The spec says to return `UnimplementedKeyType` and not crash the enumeration pass.
- **Silent truncation in V1** (`encode_bind_program_v1.rs:90-91`). `parameter_a` holds 8 bits and
  `parameter_b` holds 16 bits of `u32` arguments. The spec's round-trip claim holds only within those widths.
- **Debug layout** (`encode_bind_program_v1.rs:50-52`). The code stores extra, then ast_location, then line
  from bit 64 upward. The spec's table has the reverse order.

- **Debug line width** (`encode_bind_program_v1.rs:50`). The doc comment says `line` is the source line
  of the instruction. `set_line` keeps 8 bits of the `u32` line, so line 300 is recorded as 44.

## 6. Not modelled

- `DecodedProgram::new`, the V2 header and symbol-table loader, is outside `src/`. The model starts from its
  output.
- The operand layout of V2 jump instructions is defined outside `src/` and not in the spec. It is not
  modelled, so the skip-one-byte behaviour is checked only for opcodes that have no operands.
- The text the code generators produce (templates, `to_c_name`, `to_uppercase`, hex formatting) is
  abstracted to output items. So name collisions after upper-casing are not modelled. The templates and
  the AST and IR types are outside `src/`.
- `rust.rs:97` unwraps the first character of an enum variant name. That would panic on an empty name,
  but the banjo parser (outside `src/`) never produces one, so the model's inputs do not include one.
- `rust.rs:53` translates a vector as its element type. The C binding it should match is generated
  outside `src/`, so no property compares the two layouts.
- The argument structs of the Cr50 tool and of `list` (`argh` derives) only select the subcommand and
  its flags; the models take every flag combination in `Init`.
- The exit status of the Cr50 tool is not modelled: `main` returns `()` in every case.
- `Cr50Client` models every step of `run_cmd` and `main`, but no run checks it. The code is one request,
  two `?` and a loop that prints one row per capability. Every property we found of it restated an
  `if` of the code or the fairness of the service reply, and nothing in the repository says what the
  output or the exit status should be.
- `Display for RawInstruction` (`encode_bind_program_v1.rs` 54-68) only formats the getters with a fixed
  format string. Its widths are right for every input, so no property of it would say anything.
- The debugger's `lib.rs` only declares modules.
