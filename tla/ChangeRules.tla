----------------------------- MODULE ChangeRules -----------------------------
(***************************************************************************)
(* The change rule set and the field diff of the CRD upgrade-safety check. *)
(*                                                                         *)
(* RuleOrder is the list of ChangeValidations that NewPreflight builds     *)
(* (src/unnamed/part_000 lines 43-55 and 60-72).  Each rule is a kapp      *)
(* library function returning (handled, err): err is its judgement of its  *)
(* own attribute, and handled is whether, once its attribute (and the      *)
(* attributes the rules before it reset) is cleared on both sides, the old *)
(* and the new descriptor agree.  The judgements follow spec.md 4.4; where *)
(* 4.4 leaves a choice open the choice is stated at the rule.              *)
(***************************************************************************)
EXTENDS CRDSchema

\* The change validations, in the order NewPreflight lists them.
RuleOrder == <<"enum", "required", "maximum", "maxItems", "maxLength",
               "maxProperties", "minimum", "minItems", "minLength",
               "minProperties", "default">>

NRules == Len(RuleOrder)

\* The attributes the rules judge.
RuleAttrs == {RuleOrder[k] : k \in 1..NRules}

\* Enum rule: a new enum restriction must keep every value the old one allowed;
\* dropping the restriction altogether allows everything (spec.md 4.4).
EnumUnsafe(o, n) == n.enum # {} /\ (o.enum = {} \/ ~(o.enum \subseteq n.enum))

\* Required rule: the required list may only shrink.
RequiredUnsafe(o, n) == ~(n.required \subseteq o.required)

\* Mutant of MaxUnsafe: only a lowered bound is refused, an added one passes.
MaxUnsafeNoAdd(a, o, n) == n[a] # None /\ o[a] # None /\ n[a] < o[a]

\* Maximum-like rules: a bound may not appear, nor decrease.
MaxUnsafe(a, o, n) == n[a] # None /\ (o[a] = None \/ n[a] < o[a])

\* Minimum-like rules: a bound may not appear, nor increase.
MinUnsafe(a, o, n) == n[a] # None /\ (o[a] = None \/ n[a] > o[a])

\* Default rule: adding a default is accepted, changing or removing one is not
\* (the choice spec.md 9 recommends).
DefaultUnsafe(o, n) == o.default # None /\ n.default # o.default

\* The err result of the rule for attribute a: TRUE when it returns an error.
RuleRejects(a, o, n) ==
    CASE a = "enum"     -> EnumUnsafe(o, n)
      [] a = "required" -> RequiredUnsafe(o, n)
      [] a \in MaxAttrs -> MaxUnsafe(a, o, n)
      [] a \in MinAttrs -> MinUnsafe(a, o, n)
      [] a = "default"  -> DefaultUnsafe(o, n)

\* The attributes reset by the time the k-th rule has run.
Cleared(k) == {RuleOrder[j] : j \in 1..k}

\* The handled result of the k-th rule: the descriptors agree outside Cleared(k).
HandledAfter(k, o, n) == \A a \in Attrs \ Cleared(k) : o[a] = n[a]

(***************************************************************************)
(* CalculateFlatSchemaDiff: a field of the old schema missing from the new *)
(* one makes the diff fail; otherwise the diff holds the fields present on *)
(* both sides whose descriptors differ.  Fields only in the new schema are *)
(* additions and are not compared.                                         *)
(***************************************************************************)
DiffFails(os, ns) == ~(DOMAIN os \subseteq DOMAIN ns)

DiffFields(os, ns) == {f \in DOMAIN os \cap DOMAIN ns : os[f] # ns[f]}

(***************************************************************************)
(* The errors the dispatch loop (part_000 lines 155-171) records for one   *)
(* field diff, in closed form: every rule up to the first one that reports *)
(* handled contributes its error, and a field no rule handles gets the     *)
(* unknown-change error.  The rule tags name the errors.                   *)
(***************************************************************************)
FirstHandled(o, n) ==
    IF \E k \in 1..NRules : HandledAfter(k, o, n)
    THEN CHOOSE k \in 1..NRules : HandledAfter(k, o, n)
                                  /\ \A j \in 1..(k - 1) : ~HandledAfter(j, o, n)
    ELSE NRules + 1

FieldErrorTags(o, n) ==
    {RuleOrder[k] : k \in {j \in 1..NRules : j <= FirstHandled(o, n)
                                            /\ RuleRejects(RuleOrder[j], o, n)}}
    \cup (IF FirstHandled(o, n) > NRules THEN {"unknown"} ELSE {})

(***************************************************************************)
(* The errors of one ordered pair of versions (part_000 lines 146-171)    *)
(* and of the whole cross-version check (lines 136-176), in closed form.   *)
(* An error names the (from, to) pair, the field (None for a failed diff)  *)
(* and the tag of what reported it.                                        *)
(***************************************************************************)
ErrorRec == [pair: VersionNames \X VersionNames, field: Paths \cup {None},
             tag: RuleAttrs \cup {"unknown", "diff"}]

\* The errors of comparing an old flattened schema with a new one, as
\* (field, tag) records.
SchemaErrors(os, ns) ==
    IF DiffFails(os, ns)
    THEN {[field |-> None, tag |-> "diff"]}
    ELSE UNION {{[field |-> f, tag |-> t] : t \in FieldErrorTags(os[f], ns[f])} :
                 f \in DiffFields(os, ns)}

PairErrors(vs, a, b) ==
    {[pair |-> <<a, b>>, field |-> e.field, tag |-> e.tag] : e \in SchemaErrors(vs[a], vs[b])}

CrossVersionErrors(vs) ==
    UNION {PairErrors(vs, p[1], p[2]) :
             p \in {q \in (DOMAIN vs) \X (DOMAIN vs) : q[1] # q[2]}}

-----------------------------------------------------------------------------
(***************************************************************************)
(* Reference definitions the checks compare against.                      *)
(***************************************************************************)

\* A change is acceptable when every attribute that changed has a rule and that
\* rule accepts it (spec.md 4.4, deny by default, and spec.md 9).
FieldSafe(o, n) ==
    \A a \in Attrs : o[a] # n[a] => a \in RuleAttrs /\ ~RuleRejects(a, o, n)

\* An instance of a field: its value, the size that each bound measures, the
\* child properties it sets and its type.
Instance == [val: EnumVals, size: [Bounded -> Nums], present: SUBSET ChildNames,
             type: Types]

\* An instance satisfies a descriptor (the API server's validation of it).
Valid(v, d) ==
    /\ d.enum # {} => v.val \in d.enum
    /\ \A a \in Bounded \cap MaxAttrs : d[a] # None => v.size[a] <= d[a]
    /\ \A a \in Bounded \cap MinAttrs : d[a] # None => v.size[a] >= d[a]
    /\ d.required \subseteq v.present
    /\ v.type = d.type

\* Every instance valid under the old descriptor stays valid under the new one.
Lossless(o, n) == \A v \in Instance : Valid(v, o) => Valid(v, n)

=============================================================================
