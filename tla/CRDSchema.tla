------------------------------ MODULE CRDSchema ------------------------------
(***************************************************************************)
(* The data model of the CRD upgrade-safety check: the flattened schema of *)
(* one CRD version, the attribute descriptor of one field path, and the    *)
(* CRD itself (scope, declared versions, stored versions).                 *)
(*                                                                         *)
(* The source (src/unnamed/part_000) hands these objects to the kapp       *)
(* crdupgradesafety library (FlattenSchema, FieldDiff, the Validation      *)
(* functions); that library is not part of the repository, so this module  *)
(* follows spec.md section 3 for its shape.  A field's descriptor keeps    *)
(* one entry per attribute that a change rule of part_000 lines 43-55      *)
(* judges, plus "type", an attribute no rule judges, so that the           *)
(* deny-by-default path is reachable.  Nested Properties are not part of   *)
(* a descriptor: flattening gives every nested field a path of its own.    *)
(***************************************************************************)
EXTENDS Naturals, Sequences, FiniteSets

CONSTANTS
    Paths,        \* field paths of a flattened schema (spec.md 3, FlatSchema)
    VersionNames, \* CRD version names
    EnumVals,     \* values an enum may list
    ChildNames,   \* property names a node's required list may name
    Nums,         \* values a numeric bound may take
    Defaults,     \* values a default may take
    Types,        \* OpenAPI types of a node
    Bounded,      \* the bound attributes that take values in this model
    None          \* an unset (nil) attribute

MaxAttrs == {"maximum", "maxItems", "maxLength", "maxProperties"}
MinAttrs == {"minimum", "minItems", "minLength", "minProperties"}
BoundAttrs == MaxAttrs \cup MinAttrs

Attrs == {"enum", "required", "default", "type"} \cup BoundAttrs

ASSUME ConstAssumption ==
    /\ Nums \subseteq Nat
    /\ Bounded \subseteq BoundAttrs
    /\ None \notin Nums \cup Defaults
    /\ Types # {}

\* The values a bound attribute takes: unset, or a number if it varies here.
BoundVals(a) == IF a \in Bounded THEN Nums \cup {None} ELSE {None}

(***************************************************************************)
(* FieldDescriptor (spec.md 3): the attributes of one node.  enum = {}     *)
(* is an enum-less node, i.e. no restriction on the value.                 *)
(***************************************************************************)
Descriptor ==
    [enum: SUBSET EnumVals, required: SUBSET ChildNames,
     maximum: BoundVals("maximum"), maxItems: BoundVals("maxItems"),
     maxLength: BoundVals("maxLength"), maxProperties: BoundVals("maxProperties"),
     minimum: BoundVals("minimum"), minItems: BoundVals("minItems"),
     minLength: BoundVals("minLength"), minProperties: BoundVals("minProperties"),
     default: Defaults \cup {None}, type: Types]

\* FlatSchema (spec.md 3): a function from the paths a version has to their descriptors.
FlatSchema == UNION {[P -> Descriptor] : P \in SUBSET Paths}

Scopes == {"Namespaced", "Cluster"}

\* StructuredDefinition (spec.md 3): the declared versions map names to schemas.
CRD == [scope: Scopes,
        versions: UNION {[V -> FlatSchema] : V \in SUBSET VersionNames},
        stored: SUBSET VersionNames]

=============================================================================
