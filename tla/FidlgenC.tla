------------------------------ MODULE FidlgenC ------------------------------
(***************************************************************************)
(* The C backend of fidlgen_banjo                                          *)
(* (src/devices/tools/fidlgen_banjo/src/backends/c.rs).  codegen writes    *)
(* the header, collects the declarations named by declaration_order        *)
(* (get_declarations), generates them one by one, stopping at the first    *)
(* Err (collect::<Result<..>>), and writes the body.  Either write may     *)
(* fail.                                                                   *)
(*                                                                         *)
(* An IR is [name, deps, order, kinds, consts, enums]: kinds is the        *)
(* declarations map (a function on some identifiers), consts and enums the *)
(* declaration lists, each entry [name, type, docs, members].  The text is *)
(* abstracted to output items: the header, one item per #define or         *)
(* typedef, and the rest of the body template.                             *)
(***************************************************************************)
EXTENDS Naturals, Sequences, SequencesExt

CONSTANTS
  IRs,            \* the FidlIr values codegen is called with
  Zx,             \* the library "zx", never included
  WriterMayFail   \* whether the io::Write of the backend can return Err

VARIABLES
  ir,       \* the argument of codegen
  pc,       \* "header", "decls" (the collect loop and the body write), "done"
  decls,    \* the Decls of get_declarations not yet generated
  acc,      \* the items generated so far
  out,      \* what the writer holds
  res       \* "none", "Ok", "WriteErr" or "GenErr"

vars == <<ir, pc, decls, acc, out, res>>

IntegerTypes == {"int8", "int16", "int32", "int64", "uint8", "uint16", "uint32", "uint64"}

(***************************************************************************)
(* constant_to_c_str: a bool keeps its expression, an integer is wrapped   *)
(* in its INTn_C/UINTn_C macro, any other type (float, string, ...) is an  *)
(* Err.  integer_constant_to_c_str always reaches an integer arm.           *)
(***************************************************************************)
Supported(type) == type \in IntegerTypes \cup {"bool"}
CMacro(type) == IF type = "bool" THEN "none" ELSE type

\* get_doc_comment: the first Doc attribute with a non-empty value, if any.
DocComment(attrs) ==
  LET docs == {i \in DOMAIN attrs : attrs[i].name = "Doc" /\ attrs[i].value # ""}
  IN IF docs = {} THEN {}
     ELSE {attrs[CHOOSE i \in docs : \A j \in docs : i <= j].value}

\* codegen_includes: every library dependency but zx, in order.
Includes(x) == SelectSeq(x.deps, LAMBDA l : l # Zx)

Header(x) == <<[item |-> "header", ns |-> x.name, includes |-> Includes(x)]>>

\* `iter().filter(|c| c.name == *ident).nth(0)`, as a set of at most one entry.
FirstNamed(list, id) ==
  LET is == {i \in DOMAIN list : list[i].name = id}
  IN IF is = {} THEN {} ELSE {list[CHOOSE i \in is : \A j \in is : i <= j]}

\* Mutant: an enum identifier looked up in the const list.
DeclOfEnumsInConsts(x, id) ==
  IF id \notin DOMAIN x.kinds THEN {}
  ELSE CASE x.kinds[id] = "Const" -> {[kind |-> "Const", data |-> c] : c \in FirstNamed(x.consts, id)}
         [] x.kinds[id] = "Enum"  -> {[kind |-> "Enum", data |-> e] : e \in FirstNamed(x.consts, id)}
         [] OTHER                 -> {}

(***************************************************************************)
(* get_declarations: the Decl of an identifier, or nothing when it is not  *)
(* in the declarations map, is neither a const nor an enum, or has no      *)
(* entry in the matching list (the `?` inside filter_map).                 *)
(***************************************************************************)
DeclOf(x, id) ==
  IF id \notin DOMAIN x.kinds THEN {}
  ELSE CASE x.kinds[id] = "Const" -> {[kind |-> "Const", data |-> c] : c \in FirstNamed(x.consts, id)}
         [] x.kinds[id] = "Enum"  -> {[kind |-> "Enum", data |-> e] : e \in FirstNamed(x.enums, id)}
         [] OTHER                 -> {}

GetDeclarations(x) == FlattenSeq([i \in DOMAIN x.order |-> SetToSeq(DeclOf(x, x.order[i]))])

\* codegen_constant_decl and codegen_enum_decl, on a declaration they accept.
DeclItems(d) ==
  IF d.kind = "Const"
  THEN <<[item |-> "define", name |-> d.data.name, macro |-> CMacro(d.data.type),
          doc |-> DocComment(d.data.docs)]>>
  ELSE <<[item |-> "typedef", name |-> d.data.name, macro |-> d.data.type, doc |-> {}]>>
       \o [i \in DOMAIN d.data.members |->
             [item |-> "member", name |-> d.data.members[i], macro |-> d.data.type, doc |-> {}]]

Rejects(d) == d.kind = "Const" /\ ~Supported(d.data.type)

\* The rest of body.h after the declarations (the empty definitions).
BodyEnd == <<[item |-> "end"]>>

Body(x) ==
  FlattenSeq([i \in DOMAIN GetDeclarations(x) |-> DeclItems(GetDeclarations(x)[i])]) \o BodyEnd

Untranslatable(x) == \E i \in DOMAIN GetDeclarations(x) : Rejects(GetDeclarations(x)[i])

\* Mutant: a failed write_fmt may already have written every item.
FailedWriteAfterAll(items) ==
  /\ WriterMayFail
  /\ \E k \in 0..Len(items) : out' = out \o SubSeq(items, 1, k)
  /\ res' = "WriteErr"
  /\ pc' = "done"

\* A write_fmt that fails: some leading items reached the writer.
FailedWrite(items) ==
  /\ WriterMayFail
  /\ \E k \in 0..(Len(items) - 1) : out' = out \o SubSeq(items, 1, k)
  /\ res' = "WriteErr"
  /\ pc' = "done"

Init ==
  /\ ir \in IRs
  /\ pc = "header"
  /\ decls = <<>>
  /\ acc = <<>>
  /\ out = <<>>
  /\ res = "none"

(***************************************************************************)
(* The first write_fmt, then get_declarations (which cannot fail).          *)
(***************************************************************************)
WriteHeader ==
  /\ pc = "header"
  /\ \/ /\ out' = Header(ir)
        /\ decls' = GetDeclarations(ir)
        /\ pc' = "decls"
        /\ UNCHANGED res
     \/ FailedWrite(Header(ir)) /\ UNCHANGED decls
  /\ UNCHANGED <<ir, acc>>

\* Mutant: each declaration written as soon as it is generated.
GenerateDeclWritingEach ==
  /\ pc = "decls"
  /\ decls # <<>>
  /\ IF Rejects(Head(decls))
     THEN res' = "GenErr" /\ pc' = "done" /\ UNCHANGED <<decls, acc, out>>
     ELSE /\ out' = out \o DeclItems(Head(decls))
          /\ decls' = Tail(decls)
          /\ UNCHANGED <<pc, res, acc>>
  /\ UNCHANGED ir

(***************************************************************************)
(* One element of the map/collect over the declarations: the first Err     *)
(* ends codegen through `?`, with the header already written.               *)
(***************************************************************************)
GenerateDecl ==
  /\ pc = "decls"
  /\ decls # <<>>
  /\ IF Rejects(Head(decls))
     THEN res' = "GenErr" /\ pc' = "done" /\ UNCHANGED <<decls, acc>>
     ELSE acc' = acc \o DeclItems(Head(decls)) /\ decls' = Tail(decls) /\ UNCHANGED <<pc, res>>
  /\ UNCHANGED <<ir, out>>

\* The second write_fmt, with the joined declarations, then Ok(()).
WriteBody ==
  /\ pc = "decls"
  /\ decls = <<>>
  /\ \/ out' = out \o acc \o BodyEnd /\ res' = "Ok" /\ pc' = "done"
     \/ FailedWrite(acc \o BodyEnd)
  /\ UNCHANGED <<ir, decls, acc>>

Next == WriteHeader \/ GenerateDecl \/ WriteBody

\* codegen is a sequential function: once called it runs to its return.
Spec == Init /\ [][Next]_vars /\ WF_vars(Next)

-----------------------------------------------------------------------------
(***************************************************************************)
(* The step-by-step codegen implements the Backend contract: seen at its   *)
(* return, it wrote the whole header and body and returned Ok, or it       *)
(* returned Err with a prefix of them written, at most the header when a   *)
(* declaration was rejected; and it returns.                               *)
(***************************************************************************)
Abs == INSTANCE GeneratorSpec
         WITH Inputs <- IRs, HeaderOf <- Header, BodyOf <- Body,
              input <- ir,
              file <- IF pc = "done" THEN out ELSE <<>>,
              result <- CASE res = "none" -> "none" [] res = "Ok" -> "Ok" [] OTHER -> "Err"

CodegenRefinesGenerator == Abs!Spec

(***************************************************************************)
(* A rejected constant leaves the writer holding the complete header and   *)
(* not one declaration: the output of a failed codegen looks like the      *)
(* start of a valid header, and nothing of the declarations generated      *)
(* before the rejected one reaches it.                                     *)
(***************************************************************************)
GenErrorLeavesExactlyTheHeader ==
  res = "GenErr" => out = Header(ir)

(***************************************************************************)
(* A successful codegen declares an identifier of declaration_order        *)
(* exactly when the declarations map calls it a const or an enum and the   *)
(* matching list has an entry of that name; every other identifier of the  *)
(* order is dropped without an error.                                      *)
(***************************************************************************)
Declared(id) == \E i \in DOMAIN out : out[i].item \in {"define", "typedef"} /\ out[i].name = id

DeclaredIffDataPresent ==
  res = "Ok" =>
    \A i \in DOMAIN ir.order :
      LET id == ir.order[i]
      IN Declared(id) <=>
           /\ id \in DOMAIN ir.kinds
           /\ \/ ir.kinds[id] = "Const" /\ \E j \in DOMAIN ir.consts : ir.consts[j].name = id
              \/ ir.kinds[id] = "Enum" /\ \E j \in DOMAIN ir.enums : ir.enums[j].name = id

=============================================================================
