----------------------------- MODULE MCFidlgenC -----------------------------
(***************************************************************************)
(* IRs for the C backend: one library namespace, the zx and ddk           *)
(* dependencies, constants c1 and c2, enum e1, struct s1 and an identifier *)
(* x the declarations map does not know.  The orders reach a missing       *)
(* constant, an unknown identifier and a struct; the constant lists reach  *)
(* supported, float and string types, two entries of one name, and doc     *)
(* attributes that are empty, not Doc, or Doc.                             *)
(***************************************************************************)
EXTENDS FidlgenC

CONSTANTS Ns, Ddk, C1, C2, E1, S1, X, M1, M2

Doc(v) == [name |-> "Doc", value |-> v]
Other == [name |-> "Deprecated", value |-> "t"]

Const(n, t, docs) == [name |-> n, type |-> t, docs |-> docs, members |-> <<>>]

MCKinds == (C1 :> "Const") @@ (C2 :> "Const") @@ (E1 :> "Enum") @@ (S1 :> "Struct")

MCEnums == <<[name |-> E1, type |-> "uint8", docs |-> <<>>, members |-> <<M1, M2>>]>>

MCOrders == {<<C1, E1, S1>>, <<E1, C2, C1>>, <<X, C1, C2>>, <<>>}

MCConstLists ==
  { <<Const(C1, "uint32", <<Other, Doc(""), Doc("t")>>)>>,
    <<Const(C1, "float32", <<>>), Const(C2, "bool", <<Doc("t")>>)>>,
    <<Const(C2, "string", <<>>), Const(C1, "bool", <<>>), Const(C1, "float32", <<>>)>> }

MCIRs ==
  {[name |-> Ns, deps |-> d, order |-> o, kinds |-> MCKinds, consts |-> cs, enums |-> MCEnums]
     : d \in {<<Zx, Ddk>>, <<Ddk>>}, o \in MCOrders, cs \in MCConstLists}

=============================================================================
