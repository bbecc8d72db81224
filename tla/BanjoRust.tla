------------------------------ MODULE BanjoRust ------------------------------
(***************************************************************************)
(* The Rust backend of banjo (src/devices/tools/banjo/src/backends/rust.rs) *)
(* codegen writes the header, then evaluates the four arguments of the     *)
(* body template in order -- the enums, constants, structs and unions of    *)
(* the primary namespace, one pass over its declarations each -- and       *)
(* writes the body.  The first Err of to_rust_type ends codegen through    *)
(* `?`.                                                                    *)
(*                                                                         *)
(* An AST is [primary, namespaces]: namespaces maps a library name to its  *)
(* declarations.  A declaration is [kind, name, ty, variants, fields,      *)
(* attrs]; a type is a record whose field k is its Ty variant.  Text is   *)
(* abstracted to output items: the header and the body; a Rust type to the *)
(* record of what to_rust_type produces.                                   *)
(***************************************************************************)
EXTENDS Naturals, Sequences, SequencesExt

CONSTANTS
  ASTs,           \* the BanjoAst values codegen is called with
  Zx,             \* the library "zx", never imported
  BaseIds,        \* identifiers is_base_type accepts (zx types)
  IdType,         \* ast.id_to_type: the Ty an identifier names
  WriterMayFail   \* whether the io::Write of the backend can return Err

VARIABLES
  ast,      \* the argument of codegen
  pc,       \* "header", one of Passes, "body", "done"
  i,        \* the declaration of the primary namespace the pass is at
  acc,      \* the items each pass has generated: [pass -> sequence]
  out,      \* what the writer holds
  res       \* "none", "Ok", "WriteErr" or "GenErr"

vars == <<ast, pc, i, acc, out, res>>

\* The body arguments in the order codegen evaluates them, and their kinds.
Passes == <<"Enum", "Constant", "Struct", "Union">>

Primitives == {"bool", "i8", "i16", "i32", "i64", "u8", "u16", "u32", "u64", "f32", "f64", "usize"}

\* The one element of a non-empty Option.
The(o) == CHOOSE x \in o : TRUE

(***************************************************************************)
(* to_rust_type, as an Option (a set of at most one element): {} is the    *)
(* Err of an unknown type.  A vector is its element type; an identifier is *)
(* a zx type, the name of an enum, protocol, struct or union (a pointer    *)
(* when it is a reference), or else the type id_to_type gives, translated. *)
(***************************************************************************)
RECURSIVE RustType(_)
RustType(t) ==
  CASE t.k \in Primitives -> {[r |-> t.k]}
    [] t.k = "array"  -> {[r |-> "array", of |-> e, size |-> t.size] : e \in RustType(t.of)}
    [] t.k \in {"voidptr", "enum"} -> {[r |-> "voidptr"]}
    [] t.k = "str"    -> IF t.size = {} THEN {[r |-> "voidptr"]} ELSE {[r |-> "bytes", size |-> t.size]}
    [] t.k = "vector" -> RustType(t.of)
    [] t.k = "handle" -> {[r |-> "handle"]}
    [] t.k = "id" /\ t.id \in BaseIds -> {[r |-> "zx", id |-> t.id]}
    [] t.k = "id" /\ IdType[t.id].k \in {"enum", "protocol"} -> {[r |-> IdType[t.id].k, id |-> t.id]}
    [] t.k = "id" /\ IdType[t.id].k \in {"struct", "union"} ->
         {[r |-> IF t.ref THEN "ptr" ELSE "named", id |-> t.id]}
    [] t.k = "id" -> RustType(IdType[t.id])
    [] OTHER -> {}

\* A variant name whose first character is a digit gets a leading "_".
VariantItem(v) == [name |-> v.name, prefixed |-> v.digitFirst, val |-> v.val]

\* Every field type, in order, or {} at the first one to_rust_type rejects.
FieldsItem(fs) ==
  IF \E j \in DOMAIN fs : RustType(fs[j].ty) = {} THEN {}
  ELSE {[j \in DOMAIN fs |-> [name |-> fs[j].name, ty |-> The(RustType(fs[j].ty))]]}

\* ast::Attr{key: "Packed", val: None}.
PackedAttr == [key |-> "Packed", val |-> {}]

(***************************************************************************)
(* What one iteration of a pass generates for a declaration of its kind:   *)
(* codegen_enum_decl, codegen_const_decl, codegen_struct_decl or           *)
(* codegen_union_decl; {} when a `to_rust_type(...)?` fails.  A struct is  *)
(* packed exactly when it has the attribute Packed without a value.        *)
(***************************************************************************)
DeclItem(d) ==
  CASE d.kind = "Enum" ->
         {[name |-> d.name, ty |-> rt, variants |-> [j \in DOMAIN d.variants |-> VariantItem(d.variants[j])]]
            : rt \in RustType(d.ty)}
    [] d.kind = "Constant" -> {[name |-> d.name, ty |-> rt, val |-> d.val] : rt \in RustType(d.ty)}
    [] OTHER ->
         {[name |-> d.name, fields |-> fs, align |-> IF PackedAttr \in Range(d.attrs) THEN "packed" ELSE "C"]
            : fs \in FieldsItem(d.fields)}

Primary(a) == a.namespaces[a.primary]

\* codegen_includes: every namespace but zx and the primary one.
Header(a) ==
  <<[item |-> "header", ns |-> a.primary,
     uses |-> {n \in DOMAIN a.namespaces : n # Zx /\ n # a.primary}]>>

OfKind(a, kind) == SelectSeq(Primary(a), LAMBDA d : d.kind = kind)

BodyItem(parts) == [item |-> "body", decls |-> parts]

Body(a) ==
  <<BodyItem([p \in Range(Passes) |->
       FlattenSeq([j \in DOMAIN OfKind(a, p) |-> SetToSeq(DeclItem(OfKind(a, p)[j]))])])>>

Untranslatable(a) ==
  \E j \in DOMAIN Primary(a) : Primary(a)[j].kind \in Range(Passes) /\ DeclItem(Primary(a)[j]) = {}

\* A write_fmt that fails: some leading items reached the writer.
FailedWrite(items) ==
  /\ WriterMayFail
  /\ \E k \in 0..(Len(items) - 1) : out' = out \o SubSeq(items, 1, k)
  /\ res' = "WriteErr"
  /\ pc' = "done"

Init ==
  /\ ast \in ASTs
  /\ pc = "header"
  /\ i = 1
  /\ acc = [p \in Range(Passes) |-> <<>>]
  /\ out = <<>>
  /\ res = "none"

\* The first write_fmt; then the body arguments, from the enum pass on.
WriteHeader ==
  /\ pc = "header"
  /\ \/ out' = Header(ast) /\ pc' = Passes[1] /\ UNCHANGED res
     \/ FailedWrite(Header(ast))
  /\ UNCHANGED <<ast, i, acc>>

(***************************************************************************)
(* One iteration of a pass's `for decl in namespace`: a declaration of     *)
(* another kind is passed over (the `if let`), one of its kind is          *)
(* generated, or its Err ends codegen with the header written.             *)
(***************************************************************************)
GenerateDecl ==
  /\ pc \in Range(Passes)
  /\ i <= Len(Primary(ast))
  /\ LET d == Primary(ast)[i]
     IN \/ d.kind # pc /\ i' = i + 1 /\ UNCHANGED <<acc, pc, res>>
        \/ /\ d.kind = pc
           /\ DeclItem(d) # {}
           /\ acc' = [acc EXCEPT ![pc] = Append(@, The(DeclItem(d)))]
           /\ i' = i + 1
           /\ UNCHANGED <<pc, res>>
        \/ d.kind = pc /\ DeclItem(d) = {} /\ res' = "GenErr" /\ pc' = "done" /\ UNCHANGED <<i, acc>>
  /\ UNCHANGED <<ast, out>>

\* Mutant: the body is written after the struct pass, one pass early.
EndPassSkippingLast ==
  /\ pc \in Range(Passes)
  /\ i > Len(Primary(ast))
  /\ LET n == CHOOSE j \in DOMAIN Passes : Passes[j] = pc
     IN pc' = IF n < Len(Passes) - 1 THEN Passes[n + 1] ELSE "body"
  /\ i' = 1
  /\ UNCHANGED <<ast, acc, out, res>>

\* The end of a pass: the next argument is evaluated, after the last the body is written.
EndPass ==
  /\ pc \in Range(Passes)
  /\ i > Len(Primary(ast))
  /\ LET n == CHOOSE j \in DOMAIN Passes : Passes[j] = pc
     IN pc' = IF n < Len(Passes) THEN Passes[n + 1] ELSE "body"
  /\ i' = 1
  /\ UNCHANGED <<ast, acc, out, res>>

\* The second write_fmt, then Ok(()).
WriteBody ==
  /\ pc = "body"
  /\ \/ out' = out \o <<BodyItem(acc)>> /\ res' = "Ok" /\ pc' = "done"
     \/ FailedWrite(<<BodyItem(acc)>>)
  /\ UNCHANGED <<ast, i, acc>>

Next == WriteHeader \/ GenerateDecl \/ EndPass \/ WriteBody

\* codegen is a sequential function: once called it runs to its return.
Spec == Init /\ [][Next]_vars /\ WF_vars(Next)

-----------------------------------------------------------------------------
(***************************************************************************)
(* The pass-by-pass codegen implements the Backend contract: at its        *)
(* return it wrote the header and the body of every enum, constant, struct *)
(* and union of the primary namespace and returned Ok, or returned Err     *)
(* with a prefix written, at most the header when a type of one of those   *)
(* declarations has no Rust translation; and it returns.                   *)
(***************************************************************************)
Abs == INSTANCE GeneratorSpec
         WITH Inputs <- ASTs, HeaderOf <- Header, BodyOf <- Body,
              input <- ast,
              file <- IF pc = "done" THEN out ELSE <<>>,
              result <- CASE res = "none" -> "none" [] res = "Ok" -> "Ok" [] OTHER -> "Err"

CodegenRefinesGenerator == Abs!Spec

=============================================================================
