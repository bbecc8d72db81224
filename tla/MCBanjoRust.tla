----------------------------- MODULE MCBanjoRust -----------------------------
(***************************************************************************)
(* ASTs for the Rust backend: a primary namespace Ns beside zx and ddk.    *)
(* Its declaration lists reach every arm of to_rust_type -- arrays,         *)
(* vectors, sized and unsized strings, handles, zx base types, enum and    *)
(* protocol names, struct references, an alias resolved through            *)
(* id_to_type -- and an Err in the struct pass (an identifier naming a Ty  *)
(* with no arm) and in the constant pass (a bare struct type).             *)
(***************************************************************************)
EXTENDS BanjoRust

CONSTANTS Ns, Ddk, Color, Point, Proto, Status, Alias, Bad, V1, V2, Len0, Count

MCIdType ==
  (Color :> [k |-> "enum"]) @@ (Point :> [k |-> "struct"]) @@ (Proto :> [k |-> "protocol"])
  @@ (Alias :> [k |-> "u32"]) @@ (Bad :> [k |-> "alias"]) @@ (Status :> [k |-> "u32"])

Id(id, ref) == [k |-> "id", id |-> id, ref |-> ref]
Field(ty) == [name |-> ty.k, ty |-> ty]

Decl(kind, name, ty, fields, attrs) ==
  [kind |-> kind, name |-> name, ty |-> ty, val |-> 1, attrs |-> attrs, fields |-> fields,
   variants |-> <<[name |-> V1, digitFirst |-> FALSE, val |-> 0], [name |-> V2, digitFirst |-> TRUE, val |-> 1]>>]

\* The ty of a struct or union, never read.
NoTy == [k |-> "u8"]

\* The attribute [Packed], without a value.
Packed == [key |-> "Packed", val |-> {}]

EnumD == Decl("Enum", Color, [k |-> "u8"], <<>>, <<>>)
ProtoD == Decl("Protocol", Proto, [k |-> "u8"], <<>>, <<>>)

AllArms ==
  << Decl("Constant", Count, Id(Alias, FALSE), <<>>, <<>>),
     Decl("Struct", Point, NoTy,
          << Field([k |-> "array", of |-> [k |-> "u8"], size |-> Len0]),
             Field([k |-> "vector", of |-> Id(Color, FALSE)]),
             Field(Id(Point, TRUE)) >>, <<[key |-> "Doc", val |-> {"x"}], Packed>>),
     EnumD,
     Decl("Union", Point, NoTy,
          << Field([k |-> "str", size |-> {Len0}]), Field([k |-> "handle"]),
             Field(Id(Status, FALSE)), Field(Id(Proto, FALSE)), Field([k |-> "enum"]) >>,
          <<[key |-> "Packed", val |-> {"true"}]>>),
     ProtoD >>

StructErr == << EnumD, Decl("Struct", Point, NoTy, <<Field([k |-> "f64"]), Field(Id(Bad, FALSE))>>, <<>>),
                Decl("Constant", Count, [k |-> "u8"], <<>>, <<>>) >>

ConstErr == << Decl("Union", Point, NoTy, <<Field([k |-> "str", size |-> {}])>>, <<>>),
               Decl("Constant", Count, [k |-> "struct"], <<>>, <<>>) >>

MCASTs ==
  {[primary |-> Ns, namespaces |-> (Ns :> p) @@ deps]
     : p \in {AllArms, StructErr, ConstErr, <<>>},
       deps \in {(Zx :> <<>>) @@ (Ddk :> <<>>), (Zx :> <<>>)}}

=============================================================================
