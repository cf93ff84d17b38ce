-------------------------- MODULE CrossVersionProofs --------------------------
(***************************************************************************)
(* Proofs about the step-level cross-version check (CrossVersion,          *)
(* part_000 lines 136-176), for every set of versions, paths and attribute *)
(* values and every order of the declared versions.                        *)
(*                                                                         *)
(* TypeOK alone is not inductive: an error appended while judging a field  *)
(* names the pair <<VersionOrder[ia], VersionOrder[ib]>>, which is a pair  *)
(* of versions only if the outer index has not run past the end.  The      *)
(* strengthening IInv records that the field and rule loops only run       *)
(* inside the outer loop.                                                  *)
(***************************************************************************)
EXTENDS CrossVersion, WellFoundedInduction, TLAPS

\* The inner loops run only while the outer loop is on a declared version.
InLoop == pc \in {"fields", "rules"} => ia <= NV

IInv == TypeOK /\ InLoop

\* The field paths of a flattened schema are paths.
LEMMA FlatSchemaDomain ==
    ASSUME NEW s \in FlatSchema
    PROVE  DOMAIN s \subseteq Paths
BY DEF FlatSchema

\* The rule list has eleven entries, each one an attribute a rule judges.
LEMMA RuleOrderFacts ==
    /\ NRules = 11
    /\ \A j \in 1..NRules : RuleOrder[j] \in RuleAttrs
BY DEF NRules, RuleOrder, RuleAttrs

\* The declared versions are listed at least once.
LEMMA NVPositive == NV \in Nat \ {0}
BY OrderAssumption DEF NV

\* Validate starts well typed, before its loops.
LEMMA InitIInv == Init => IInv
BY NVPositive, RuleOrderFacts DEF Init, IInv, TypeOK, InLoop

\* The versions named by the two loop indices, while the outer one is in range.
LEMMA PairTyped ==
    ASSUME TypeOK, ia <= NV
    PROVE  /\ VA \in VersionNames /\ VB \in VersionNames
           /\ <<VA, VB>> \in VersionNames \X VersionNames
<1>1. ia \in 1..NV /\ ib \in 1..NV
    BY DEF TypeOK
<1>2. VersionOrder \in Seq(VersionNames)
    BY OrderAssumption
<1>3. QED
    BY <1>1, <1>2 DEF VA, VB, NV

\* AdvancePair keeps both indices in range.
LEMMA AdvanceTyped ==
    ASSUME TypeOK, ia <= NV, AdvancePair
    PROVE  ia' \in 1..(NV + 1) /\ ib' \in 1..NV
BY NVPositive DEF TypeOK, AdvancePair

\* Every iteration of the three loops of Validate, and its return, keeps
\* the strengthened invariant.
LEMMA NextIInv == IInv /\ [Next]_vars => IInv'
<1> SUFFICES ASSUME IInv, [Next]_vars PROVE IInv'
    OBVIOUS
<1> USE DEF IInv, InLoop
<1>1. CASE SkipSameVersion
    BY <1>1, AdvanceTyped DEF SkipSameVersion, TypeOK
<1>2. CASE DiffError
    <2>1. [pair |-> <<VA, VB>>, field |-> None, tag |-> "diff"] \in ErrorRec
        BY <1>2, PairTyped DEF DiffError, ErrorRec, TypeOK
    <2>2. QED
        BY <1>2, <2>1, AdvanceTyped DEF DiffError, TypeOK
<1>3. CASE ComparePair
    <2>1. fields' \subseteq Paths
        BY <1>3, PairTyped, FlatSchemaDomain DEF ComparePair, DiffFields, TypeOK
    <2>2. QED
        BY <1>3, <2>1 DEF ComparePair, TypeOK
<1>4. CASE NextField
    BY <1>4, RuleOrderFacts DEF NextField, TypeOK
<1>5. CASE EndPair
    BY <1>5, AdvanceTyped DEF EndPair, TypeOK
<1>6. CASE ApplyRule
    <2>1. [pair |-> <<VA, VB>>, field |-> field, tag |-> RuleOrder[k]] \in ErrorRec
        BY <1>6, PairTyped, RuleOrderFacts DEF ApplyRule, ErrorRec, TypeOK
    <2>2. QED
        BY <1>6, <2>1, RuleOrderFacts DEF ApplyRule, TypeOK
<1>7. CASE UnknownChange
    <2>1. [pair |-> <<VA, VB>>, field |-> field, tag |-> "unknown"] \in ErrorRec
        BY <1>7, PairTyped DEF UnknownChange, ErrorRec, TypeOK
    <2>2. QED
        BY <1>7, <2>1 DEF UnknownChange, TypeOK
<1>8. CASE Return
    BY <1>8 DEF Return, TypeOK
<1>9. CASE UNCHANGED vars
    BY <1>9 DEF vars, TypeOK
<1>10. QED
    BY <1>1, <1>2, <1>3, <1>4, <1>5, <1>6, <1>7, <1>8, <1>9 DEF Next

\* Every state of Validate is well typed: the loop indices stay in range and
\* every error appended names a pair of declared versions, a field path (or
\* none, for a failed diff) and the rule or check that reported it.
THEOREM TypeCorrect == Spec => []TypeOK
BY InitIInv, NextIInv, PTL DEF Spec, IInv

-----------------------------------------------------------------------------
(***************************************************************************)
(* The errors Validate has appended, in closed form.  The outer loops have *)
(* visited the index pairs before (ia, ib) in lexicographic order; each    *)
(* visited pair contributed its PairErrors.  Inside the current pair, the  *)
(* fields already judged contributed their FieldErrorTags, and the field   *)
(* being judged contributed the errors of the rules tried so far, none of  *)
(* which reported handled.                                                 *)
(***************************************************************************)

\* The index pairs of the two range loops.
PairIdx == (1..NV) \X (1..NV)

\* The index pairs the loops have finished before reaching (i, j).
Visited(i, j) == {p \in PairIdx : p[1] < i \/ (p[1] = i /\ p[2] < j)}

\* The errors of the pair at indices p (none for a version with itself).
IdxErrors(p) ==
    IF VersionOrder[p[1]] = VersionOrder[p[2]] THEN {}
    ELSE PairErrors(versions, VersionOrder[p[1]], VersionOrder[p[2]])

\* The errors of the finished pairs.
DoneErrs == (UNION {IdxErrors(p) : p \in Visited(ia, ib)})

\* The diff of the current pair.
CurDiff == DiffFields(versions[VA], versions[VB])

\* Error records of the current pair for field f and the tags T.
Recs(f, T) == {[pair |-> <<VA, VB>>, field |-> f, tag |-> t] : t \in T}

\* The errors of a judged field of the current pair.
FieldErrs(f) == Recs(f, FieldErrorTags(versions[VA][f], versions[VB][f]))

\* The tags of the rules among the first K that reject the current change.
RuleTags(K) == {RuleOrder[j] : j \in {i \in 1..K : RuleRejects(RuleOrder[i], OldD, NewD)}}

\* The loop invariant of Validate: what errs holds at each point of the loops.
ErrsInv ==
    /\ pc = "pairs" => errs = DoneErrs
    /\ pc = "done" => ia = NV + 1 /\ errs = DoneErrs
    /\ pc \in {"fields", "rules"} =>
          /\ VA # VB
          /\ ~DiffFails(versions[VA], versions[VB])
          /\ fields \subseteq CurDiff
    /\ pc = "fields" =>
          errs = DoneErrs \cup (UNION {FieldErrs(f) : f \in CurDiff \ fields})
    /\ pc = "rules" =>
          /\ field \in CurDiff \ fields
          /\ \A j \in 1..(k - 1) : ~HandledAfter(j, OldD, NewD)
          /\ errs = DoneErrs \cup (UNION {FieldErrs(f) : f \in CurDiff \ (fields \cup {field})})
                             \cup Recs(field, RuleTags(k - 1))

\* The first rule that reports handled, when rule k does and none before it.
LEMMA FirstHandledAt ==
    ASSUME NEW o, NEW n, NEW kk \in 1..NRules, HandledAfter(kk, o, n),
           \A j \in 1..(kk - 1) : ~HandledAfter(j, o, n)
    PROVE  FirstHandled(o, n) = kk
<1> DEFINE P(c) == HandledAfter(c, o, n) /\ \A j \in 1..(c - 1) : ~HandledAfter(j, o, n)
<1>1. NRules = 11
    BY RuleOrderFacts
<1>2. \E c \in 1..NRules : HandledAfter(c, o, n)
    OBVIOUS
<1>3. FirstHandled(o, n) = CHOOSE c \in 1..NRules : P(c)
    BY <1>2 DEF FirstHandled
<1>4. \A c \in 1..NRules : P(c) => c = kk
    BY <1>1
<1>5. P(kk)
    OBVIOUS
<1>6. QED
    BY <1>3, <1>4, <1>5

\* No rule reports handled: the field falls through to the unknown change.
LEMMA FirstHandledNone ==
    ASSUME NEW o, NEW n, \A j \in 1..NRules : ~HandledAfter(j, o, n)
    PROVE  FirstHandled(o, n) = NRules + 1
BY DEF FirstHandled

\* The errors of a field that rule kk handles: the rejections of rules 1..kk.
LEMMA TagsHandled ==
    ASSUME NEW o, NEW n, NEW kk \in 1..NRules, HandledAfter(kk, o, n),
           \A j \in 1..(kk - 1) : ~HandledAfter(j, o, n)
    PROVE  FieldErrorTags(o, n) =
               {RuleOrder[j] : j \in {i \in 1..kk : RuleRejects(RuleOrder[i], o, n)}}
<1>1. FirstHandled(o, n) = kk
    BY FirstHandledAt
<1>2. NRules = 11
    BY RuleOrderFacts
<1>3. {j \in 1..NRules : j <= kk /\ RuleRejects(RuleOrder[j], o, n)}
        = {i \in 1..kk : RuleRejects(RuleOrder[i], o, n)}
    BY <1>2
<1>4. QED
    BY <1>1, <1>2, <1>3 DEF FieldErrorTags

\* The errors of a field no rule handles: every rejection and the unknown change.
LEMMA TagsUnknown ==
    ASSUME NEW o, NEW n, \A j \in 1..NRules : ~HandledAfter(j, o, n)
    PROVE  FieldErrorTags(o, n) =
               {RuleOrder[j] : j \in {i \in 1..NRules : RuleRejects(RuleOrder[i], o, n)}}
               \cup {"unknown"}
<1>1. FirstHandled(o, n) = NRules + 1
    BY FirstHandledNone
<1>2. NRules = 11
    BY RuleOrderFacts
<1>3. {j \in 1..NRules : j <= NRules + 1 /\ RuleRejects(RuleOrder[j], o, n)}
        = {i \in 1..NRules : RuleRejects(RuleOrder[i], o, n)}
    BY <1>2
<1>4. QED
    BY <1>1, <1>2, <1>3 DEF FieldErrorTags

\* Advancing the range loops finishes the current index pair.
LEMMA VisitedAdvance ==
    ASSUME TypeOK, ia <= NV, AdvancePair
    PROVE  Visited(ia', ib') = Visited(ia, ib) \cup {<<ia, ib>>}
<1>1. ia \in 1..NV /\ ib \in 1..NV /\ NV \in Nat
    BY NVPositive DEF TypeOK
<1>2. CASE ib < NV
    <2>1. ia' = ia /\ ib' = ib + 1
        BY <1>2 DEF AdvancePair
    <2>2. QED
        BY <1>1, <2>1 DEF Visited, PairIdx
<1>3. CASE ~(ib < NV)
    <2>1. ia' = ia + 1 /\ ib' = 1 /\ ib = NV
        BY <1>1, <1>3 DEF AdvancePair
    <2>2. QED
        BY <1>1, <2>1 DEF Visited, PairIdx
<1>4. QED
    BY <1>2, <1>3

\* The errors of the finished pairs grow by those of the current pair.
LEMMA DoneErrsAdvance ==
    ASSUME TypeOK, ia <= NV, AdvancePair, versions' = versions
    PROVE  DoneErrs' = DoneErrs \cup IdxErrors(<<ia, ib>>)
<1>1. Visited(ia', ib') = Visited(ia, ib) \cup {<<ia, ib>>}
    BY VisitedAdvance
<1>2. \A p : IdxErrors(p)' = IdxErrors(p)
    BY DEF IdxErrors
<1>3. DoneErrs' = (UNION {IdxErrors(p) : p \in Visited(ia', ib')})
    BY <1>2 DEF DoneErrs
<1>4. QED
    BY <1>1, <1>3 DEF DoneErrs

\* The errors of the current pair of distinct versions: a failed diff, or
\* the errors of each field of the diff.
LEMMA CurPairErrors ==
    ASSUME TypeOK, ia <= NV, VA # VB
    PROVE  IdxErrors(<<ia, ib>>) =
              IF DiffFails(versions[VA], versions[VB])
              THEN {[pair |-> <<VA, VB>>, field |-> None, tag |-> "diff"]}
              ELSE (UNION {FieldErrs(f) : f \in CurDiff})
<1> DEFINE os == versions[VA]  ns == versions[VB]
<1>1. IdxErrors(<<ia, ib>>) = PairErrors(versions, VA, VB)
    BY DEF IdxErrors, VA, VB
<1>2. CASE DiffFails(os, ns)
    BY <1>1, <1>2 DEF PairErrors, SchemaErrors
<1>3. CASE ~DiffFails(os, ns)
    <2>1. SchemaErrors(os, ns) =
            (UNION {{[field |-> f, tag |-> t] : t \in FieldErrorTags(os[f], ns[f])} :
                   f \in DiffFields(os, ns)})
        BY <1>3 DEF SchemaErrors
    <2>2. PairErrors(versions, VA, VB) = (UNION {FieldErrs(f) : f \in CurDiff})
        <3>1. ASSUME NEW e \in PairErrors(versions, VA, VB)
              PROVE  e \in (UNION {FieldErrs(f) : f \in CurDiff})
            <4>1. PICK r \in SchemaErrors(os, ns) :
                    e = [pair |-> <<VA, VB>>, field |-> r.field, tag |-> r.tag]
                BY <3>1 DEF PairErrors
            <4>2. PICK f \in DiffFields(os, ns) :
                    \E t \in FieldErrorTags(os[f], ns[f]) : r = [field |-> f, tag |-> t]
                BY <2>1
            <4>3. QED
                BY <4>1, <4>2 DEF FieldErrs, Recs, CurDiff
        <3>2. ASSUME NEW f \in CurDiff, NEW e \in FieldErrs(f)
              PROVE  e \in PairErrors(versions, VA, VB)
            <4>1. PICK t \in FieldErrorTags(os[f], ns[f]) :
                    e = [pair |-> <<VA, VB>>, field |-> f, tag |-> t]
                BY <3>2 DEF FieldErrs, Recs
            <4>2. [field |-> f, tag |-> t] \in SchemaErrors(os, ns)
                BY <2>1, <3>2 DEF CurDiff
            <4>3. \E r \in SchemaErrors(os, ns) :
                    e = [pair |-> <<VA, VB>>, field |-> r.field, tag |-> r.tag]
                BY <4>1, <4>2
            <4>4. QED
                BY <4>3 DEF PairErrors, os, ns
        <3>3. QED
            BY <3>1, <3>2
    <2>3. QED
        BY <1>1, <1>3, <2>2
<1>4. QED
    BY <1>2, <1>3

\* The strengthening used for the refinement and the soundness results.
RInv == IInv /\ ErrsInv

-----------------------------------------------------------------------------

\* A step that moves neither the versions nor the loop indices leaves the
\* closed forms of the finished pairs and of the current pair alone.
LEMMA FramePair ==
    ASSUME versions' = versions, ia' = ia, ib' = ib
    PROVE  /\ DoneErrs' = DoneErrs
           /\ VA' = VA /\ VB' = VB
           /\ CurDiff' = CurDiff
           /\ \A f : FieldErrs(f)' = FieldErrs(f)
           /\ \A f, T : Recs(f, T)' = Recs(f, T)
BY DEF DoneErrs, Visited, IdxErrors, VA, VB, CurDiff, FieldErrs, Recs

\* ... and if the field stays too, the rules' errors so far stay.
LEMMA FrameField ==
    ASSUME versions' = versions, ia' = ia, ib' = ib, field' = field
    PROVE  /\ OldD' = OldD /\ NewD' = NewD
           /\ \A K : RuleTags(K)' = RuleTags(K)
BY DEF OldD, NewD, VA, VB, RuleTags

\* The rule tags grow by the k-th rule's rejection.
LEMMA RuleTagsStep ==
    ASSUME NEW K \in Nat
    PROVE  RuleTags(K + 1) =
              RuleTags(K) \cup (IF RuleRejects(RuleOrder[K + 1], OldD, NewD)
                                THEN {RuleOrder[K + 1]} ELSE {})
BY DEF RuleTags

\* The records of a tag set split over a union of tag sets.
LEMMA RecsUnion ==
    ASSUME NEW f, NEW S, NEW T
    PROVE  Recs(f, S \cup T) = Recs(f, S) \cup Recs(f, T)
BY DEF Recs

\* The errors of the judged fields grow by those of one more field.
LEMMA FieldErrsAdd ==
    ASSUME NEW X, NEW x
    PROVE  (UNION {FieldErrs(g) : g \in X \cup {x}}) = (UNION {FieldErrs(g) : g \in X}) \cup FieldErrs(x)
<1>1. ASSUME NEW e
      PROVE  e \in (UNION {FieldErrs(g) : g \in X \cup {x}})
             <=> e \in (UNION {FieldErrs(g) : g \in X}) \/ e \in FieldErrs(x)
    OBVIOUS
<1>2. QED
    BY <1>1

\* Each iteration of the loops of Validate keeps the closed form of errs.
LEMMA NextErrsInv == RInv /\ [Next]_vars => ErrsInv'
<1> SUFFICES ASSUME RInv, [Next]_vars PROVE ErrsInv'
    OBVIOUS
<1>0. TypeOK /\ InLoop /\ ErrsInv
    BY DEF RInv, IInv
<1>1. CASE SkipSameVersion
    <2>1. DoneErrs' = DoneErrs \cup IdxErrors(<<ia, ib>>)
        BY <1>0, <1>1, DoneErrsAdvance DEF SkipSameVersion
    <2>2. IdxErrors(<<ia, ib>>) = {}
        BY <1>1 DEF SkipSameVersion, IdxErrors, VA, VB
    <2>3. errs = DoneErrs
        BY <1>0, <1>1 DEF SkipSameVersion, ErrsInv
    <2>4. QED
        BY <1>1, <2>1, <2>2, <2>3 DEF SkipSameVersion, ErrsInv
<1>2. CASE DiffError
    <2>1. DoneErrs' = DoneErrs \cup IdxErrors(<<ia, ib>>)
        BY <1>0, <1>2, DoneErrsAdvance DEF DiffError
    <2>2. IdxErrors(<<ia, ib>>) = {[pair |-> <<VA, VB>>, field |-> None, tag |-> "diff"]}
        BY <1>0, <1>2, CurPairErrors DEF DiffError
    <2>3. errs = DoneErrs
        BY <1>0, <1>2 DEF DiffError, ErrsInv
    <2>4. QED
        BY <1>2, <2>1, <2>2, <2>3 DEF DiffError, ErrsInv
<1>3. CASE ComparePair
    <2>1. DoneErrs' = DoneErrs /\ VA' = VA /\ VB' = VB /\ CurDiff' = CurDiff
        BY <1>3, FramePair DEF ComparePair
    <2>2. errs = DoneErrs
        BY <1>0, <1>3 DEF ComparePair, ErrsInv
    <2>3. fields' = CurDiff
        BY <1>3 DEF ComparePair, CurDiff
    <2>4. CurDiff \ fields' = {}
        BY <2>3
    <2>5. QED
        BY <1>3, <2>1, <2>2, <2>3, <2>4 DEF ComparePair, ErrsInv
<1>4. CASE NextField
    <2>1. DoneErrs' = DoneErrs /\ VA' = VA /\ VB' = VB /\ CurDiff' = CurDiff
          /\ \A f : FieldErrs(f)' = FieldErrs(f)
        BY <1>4, FramePair DEF NextField
    <2>2. PICK f \in fields : field' = f /\ fields' = fields \ {f}
        BY <1>4 DEF NextField
    <2>3. CurDiff \ (fields' \cup {field'}) = CurDiff \ fields
        BY <2>2
    <2>4. (RuleTags(k - 1))' = {}
        BY <1>4 DEF NextField, RuleTags
    <2>5. (Recs(field, RuleTags(k - 1)))' = {}
        BY <2>4 DEF Recs
    <2>6. errs = DoneErrs \cup (UNION {FieldErrs(g) : g \in CurDiff \ fields})
        BY <1>0, <1>4 DEF NextField, ErrsInv
    <2>7. /\ VA # VB /\ ~DiffFails(versions[VA], versions[VB])
          /\ fields \subseteq CurDiff
        BY <1>0, <1>4 DEF NextField, ErrsInv
    <2>8. \A j \in 1..(k' - 1) : ~HandledAfter(j, OldD', NewD')
        BY <1>4 DEF NextField
    <2>9. pc' = "rules" /\ errs' = errs /\ versions' = versions
        BY <1>4 DEF NextField
    <2>10. QED
        BY <2>1, <2>2, <2>3, <2>5, <2>6, <2>7, <2>8, <2>9 DEF ErrsInv
<1>5. CASE EndPair
    <2>1. DoneErrs' = DoneErrs \cup IdxErrors(<<ia, ib>>)
        BY <1>0, <1>5, DoneErrsAdvance DEF EndPair, InLoop
    <2>2. /\ VA # VB /\ ~DiffFails(versions[VA], versions[VB])
          /\ errs = DoneErrs \cup (UNION {FieldErrs(g) : g \in CurDiff \ fields})
        BY <1>0, <1>5 DEF EndPair, ErrsInv
    <2>3. IdxErrors(<<ia, ib>>) = (UNION {FieldErrs(g) : g \in CurDiff})
        BY <1>0, <1>5, <2>2, CurPairErrors DEF EndPair, InLoop
    <2>4. QED
        BY <1>5, <2>1, <2>2, <2>3 DEF EndPair, ErrsInv
<1>6. CASE ApplyRule
    <2> DEFINE Rest == DoneErrs \cup (UNION {FieldErrs(g) : g \in CurDiff \ (fields \cup {field})})
               new == IF RuleRejects(RuleOrder[k], OldD, NewD) THEN {RuleOrder[k]} ELSE {}
    <2>1. DoneErrs' = DoneErrs /\ VA' = VA /\ VB' = VB /\ CurDiff' = CurDiff
          /\ \A f : FieldErrs(f)' = FieldErrs(f)
        BY <1>6, FramePair DEF ApplyRule
    <2>2. OldD' = OldD /\ NewD' = NewD
        BY <1>6, FrameField DEF ApplyRule
    <2>3. k \in 1..NRules /\ NRules = 11
        BY <1>0, <1>6, RuleOrderFacts DEF ApplyRule, TypeOK
    <2>4. /\ VA # VB /\ ~DiffFails(versions[VA], versions[VB])
          /\ fields \subseteq CurDiff
          /\ field \in CurDiff \ fields
          /\ \A j \in 1..(k - 1) : ~HandledAfter(j, OldD, NewD)
          /\ errs = Rest \cup Recs(field, RuleTags(k - 1))
        BY <1>0, <1>6 DEF ApplyRule, ErrsInv, Rest
    <2>5. RuleTags(k) = RuleTags(k - 1) \cup new
        BY <2>3, RuleTagsStep
    <2>6. errs' = errs \cup Recs(field, new)
        BY <1>6 DEF ApplyRule, Recs
    <2>7. errs' = Rest \cup Recs(field, RuleTags(k))
        <3>1. Recs(field, RuleTags(k)) = Recs(field, RuleTags(k - 1)) \cup Recs(field, new)
            BY <2>5, RecsUnion
        <3>2. QED
            BY <2>4, <2>6, <3>1
    <2>8. CASE HandledAfter(k, OldD, NewD)
        <3>1. FieldErrorTags(OldD, NewD) = RuleTags(k)
            BY <2>3, <2>4, <2>8, TagsHandled DEF RuleTags
        <3>2. FieldErrs(field) = Recs(field, RuleTags(k))
            BY <3>1 DEF FieldErrs, OldD, NewD
        <3>3. CurDiff \ fields = (CurDiff \ (fields \cup {field})) \cup {field}
            BY <2>4
        <3>4. (UNION {FieldErrs(g) : g \in CurDiff \ fields})
                = (UNION {FieldErrs(g) : g \in CurDiff \ (fields \cup {field})})
                  \cup FieldErrs(field)
            BY <3>3, FieldErrsAdd
        <3>5. errs' = DoneErrs \cup (UNION {FieldErrs(g) : g \in CurDiff \ fields})
            BY <2>7, <3>2, <3>4 DEF Rest
        <3>6. pc' = "fields" /\ fields' = fields /\ versions' = versions
            BY <1>6, <2>8 DEF ApplyRule
        <3>7. QED
            BY <2>1, <2>4, <3>5, <3>6 DEF ErrsInv
    <2>9. CASE ~HandledAfter(k, OldD, NewD)
        <3>1. pc' = "rules" /\ k' = k + 1 /\ fields' = fields /\ field' = field
              /\ versions' = versions /\ ia' = ia /\ ib' = ib
            BY <1>6, <2>9 DEF ApplyRule
        <3>2. \A j \in 1..(k' - 1) : ~HandledAfter(j, OldD', NewD')
            BY <2>2, <2>3, <2>4, <2>9, <3>1
        <3>3. (Recs(field, RuleTags(k - 1)))' = Recs(field, RuleTags(k))
            <4>1. k' - 1 = k
                BY <2>3, <3>1
            <4>2. (RuleTags(k - 1))' = RuleTags(k)
                BY <3>1, <4>1 DEF RuleTags, OldD, NewD, VA, VB
            <4>3. QED
                BY <3>1, <4>2 DEF Recs, VA, VB
        <3>4. Rest' = Rest
            BY <2>1, <3>1 DEF Rest
        <3>5. QED
            BY <2>1, <2>2, <2>4, <2>7, <3>1, <3>2, <3>3, <3>4 DEF ErrsInv, Rest
    <2>10. QED
        BY <2>8, <2>9
<1>7. CASE UnknownChange
    <2> DEFINE Rest == DoneErrs \cup (UNION {FieldErrs(g) : g \in CurDiff \ (fields \cup {field})})
    <2>1. DoneErrs' = DoneErrs /\ VA' = VA /\ VB' = VB /\ CurDiff' = CurDiff
          /\ \A f : FieldErrs(f)' = FieldErrs(f)
        BY <1>7, FramePair DEF UnknownChange
    <2>2. k = NRules + 1 /\ NRules = 11
        BY <1>0, <1>7, RuleOrderFacts DEF UnknownChange, TypeOK
    <2>3. /\ VA # VB /\ ~DiffFails(versions[VA], versions[VB])
          /\ fields \subseteq CurDiff
          /\ field \in CurDiff \ fields
          /\ \A j \in 1..NRules : ~HandledAfter(j, OldD, NewD)
          /\ errs = Rest \cup Recs(field, RuleTags(NRules))
        BY <1>0, <1>7, <2>2 DEF UnknownChange, ErrsInv, Rest
    <2>4. FieldErrorTags(OldD, NewD) = RuleTags(NRules) \cup {"unknown"}
        BY <2>3, TagsUnknown DEF RuleTags
    <2>5. FieldErrs(field) = Recs(field, RuleTags(NRules)) \cup Recs(field, {"unknown"})
        BY <2>4, RecsUnion DEF FieldErrs, OldD, NewD
    <2>6. errs' = errs \cup Recs(field, {"unknown"})
        BY <1>7 DEF UnknownChange, Recs
    <2>7. CurDiff \ fields = (CurDiff \ (fields \cup {field})) \cup {field}
        BY <2>3
    <2>8. errs' = DoneErrs \cup (UNION {FieldErrs(g) : g \in CurDiff \ fields})
        <3>1. (UNION {FieldErrs(g) : g \in CurDiff \ fields})
                = (UNION {FieldErrs(g) : g \in CurDiff \ (fields \cup {field})})
                  \cup FieldErrs(field)
            BY <2>7, FieldErrsAdd
        <3>2. errs' = Rest \cup FieldErrs(field)
            BY <2>3, <2>5, <2>6
        <3>3. QED
            BY <3>1, <3>2 DEF Rest
    <2>9. pc' = "fields" /\ fields' = fields /\ versions' = versions
        BY <1>7 DEF UnknownChange
    <2>10. QED
        BY <2>1, <2>3, <2>8, <2>9 DEF ErrsInv
<1>8. CASE Return
    <2>1. DoneErrs' = DoneErrs
        BY <1>8, FramePair DEF Return
    <2>2. ia = NV + 1
        BY <1>0, <1>8, NVPositive DEF Return, TypeOK
    <2>3. QED
        BY <1>0, <1>8, <2>1, <2>2 DEF Return, ErrsInv
<1>9. CASE UNCHANGED vars
    <2>1. DoneErrs' = DoneErrs /\ VA' = VA /\ VB' = VB /\ CurDiff' = CurDiff
          /\ \A f : FieldErrs(f)' = FieldErrs(f)
          /\ \A g, T : Recs(g, T)' = Recs(g, T)
        BY <1>9, FramePair DEF vars
    <2>2. OldD' = OldD /\ NewD' = NewD /\ \A K : RuleTags(K)' = RuleTags(K)
        BY <1>9, FrameField DEF vars
    <2>3. pc' = pc /\ errs' = errs /\ fields' = fields /\ field' = field /\ k' = k
          /\ ia' = ia /\ versions' = versions
        BY <1>9 DEF vars
    <2>4. QED
        BY <1>0, <2>1, <2>2, <2>3 DEF ErrsInv
<1>10. QED
    BY <1>1, <1>2, <1>3, <1>4, <1>5, <1>6, <1>7, <1>8, <1>9 DEF Next

\* Before the loops no pair is finished and no error is appended.
LEMMA InitErrsInv == Init => ErrsInv
<1> SUFFICES ASSUME Init PROVE ErrsInv
    OBVIOUS
<1>1. Visited(ia, ib) = {}
    BY DEF Init, Visited, PairIdx
<1>2. DoneErrs = {}
    BY <1>1 DEF DoneErrs
<1>3. QED
    BY <1>2 DEF Init, ErrsInv

\* The loop invariant holds in every state of Validate.
LEMMA RInvariant == Spec => []RInv
<1>1. Init => RInv
    BY InitIInv, InitErrsInv DEF RInv
<1>2. RInv /\ [Next]_vars => RInv'
    BY NextIInv, NextErrsInv DEF RInv
<1>3. QED
    BY <1>1, <1>2, PTL DEF Spec

\* Once the outer loop is past the last version, the finished pairs are all
\* the ordered pairs of distinct declared versions.
LEMMA DoneErrsAll ==
    ASSUME TypeOK, ia = NV + 1
    PROVE  DoneErrs = CrossVersionErrors(versions)
<1> DEFINE Q == {q \in (DOMAIN versions) \X (DOMAIN versions) : q[1] # q[2]}
<1>1. DOMAIN versions = VersionNames
    BY DEF TypeOK
<1>2. NV \in Nat /\ VersionOrder \in Seq(VersionNames) /\ Len(VersionOrder) = NV
    BY NVPositive, OrderAssumption DEF NV
<1>3. Visited(ia, ib) = PairIdx
    BY <1>2 DEF Visited, PairIdx
<1>4. ASSUME NEW p \in PairIdx, NEW e \in IdxErrors(p)
      PROVE  e \in CrossVersionErrors(versions)
    <2>1. VersionOrder[p[1]] # VersionOrder[p[2]]
          /\ e \in PairErrors(versions, VersionOrder[p[1]], VersionOrder[p[2]])
        BY <1>4 DEF IdxErrors
    <2>2. <<VersionOrder[p[1]], VersionOrder[p[2]]>> \in Q
        BY <1>1, <1>2, <2>1 DEF PairIdx
    <2>3. QED
        BY <2>1, <2>2 DEF CrossVersionErrors
<1>5. ASSUME NEW q \in Q, NEW e \in PairErrors(versions, q[1], q[2])
      PROVE  \E p \in PairIdx : e \in IdxErrors(p)
    <2>1. PICK i \in 1..NV : VersionOrder[i] = q[1]
        BY <1>1, <1>2, OrderAssumption
    <2>2. PICK j \in 1..NV : VersionOrder[j] = q[2]
        BY <1>1, <1>2, OrderAssumption
    <2>3. <<i, j>> \in PairIdx /\ e \in IdxErrors(<<i, j>>)
        BY <1>5, <2>1, <2>2 DEF PairIdx, IdxErrors
    <2>4. QED
        BY <2>3
<1>6. QED
    BY <1>3, <1>4, <1>5 DEF DoneErrs, CrossVersionErrors

\* Validate returns the errors of every ordered pair of distinct declared
\* versions: the step-by-step loop of part_000 lines 136-176 computes the
\* closed form CrossVersionErrors, whatever order it visits the fields in.
THEOREM ReturnsAllPairErrors ==
    Spec => [](pc = "done" => errs = CrossVersionErrors(versions))
<1>1. RInv => (pc = "done" => errs = CrossVersionErrors(versions))
    BY DoneErrsAll DEF RInv, IInv, ErrsInv
<1>2. QED
    BY <1>1, RInvariant, PTL

\* The abstract specification's copies of the data definitions are the
\* definitions of the loop's module: both modules extend ChangeRules over the
\* same constants.
LEMMA AbsSameData ==
    /\ Abs!FlatSchema = FlatSchema
    /\ \A vs : Abs!CrossVersionErrors(vs) = CrossVersionErrors(vs)
<1>1. Abs!FlatSchema = FlatSchema
    BY DEF FlatSchema, Abs!FlatSchema, Descriptor, Abs!Descriptor, BoundVals, Abs!BoundVals,
           BoundAttrs, Abs!BoundAttrs, MaxAttrs, Abs!MaxAttrs, MinAttrs, Abs!MinAttrs
<1>2. \A vs : Abs!CrossVersionErrors(vs) = CrossVersionErrors(vs)
    BY DEF CrossVersionErrors, Abs!CrossVersionErrors, PairErrors, Abs!PairErrors, SchemaErrors, Abs!SchemaErrors,
    DiffFails, Abs!DiffFails, DiffFields, Abs!DiffFields, FieldErrorTags, Abs!FieldErrorTags,
    FirstHandled, Abs!FirstHandled, HandledAfter, Abs!HandledAfter, Cleared, Abs!Cleared,
    RuleOrder, Abs!RuleOrder, NRules, Abs!NRules, RuleRejects, Abs!RuleRejects,
    EnumUnsafe, Abs!EnumUnsafe, RequiredUnsafe, Abs!RequiredUnsafe, MaxUnsafe, Abs!MaxUnsafe,
    MinUnsafe, Abs!MinUnsafe, DefaultUnsafe, Abs!DefaultUnsafe, MaxAttrs, Abs!MaxAttrs,
    MinAttrs, Abs!MinAttrs, BoundAttrs, Abs!BoundAttrs, Attrs, Abs!Attrs
<1>3. QED
    BY <1>1, <1>2

\* The loop refines its one-step specification: every iteration before the
\* return is a stutter of the abstract state (nothing returned yet, the
\* versions unchanged), and the return step is the abstract Validate, whose
\* result is CrossVersionErrors.
THEOREM Refines == Spec => Refinement
<1> DEFINE result == IF pc = "done" THEN errs ELSE {}
           returned == pc = "done"
<1>1. Init => Abs!AbsInit
    BY AbsSameData DEF Init, Abs!AbsInit
<1>2. RInv /\ [Next]_vars => [Abs!AbsValidate]_<<versions, result, returned>>
    <2> SUFFICES ASSUME RInv, [Next]_vars
                 PROVE  [Abs!AbsValidate]_<<versions, result, returned>>
        OBVIOUS
    <2>1. CASE Return
        <3>1. ia = NV + 1 /\ TypeOK /\ errs = DoneErrs
            BY <2>1, NVPositive DEF Return, RInv, IInv, TypeOK, ErrsInv
        <3>2. errs = CrossVersionErrors(versions)
            BY <3>1, DoneErrsAll
        <3>3. QED
            BY <2>1, <3>2, AbsSameData DEF Return, Abs!AbsValidate
    <2>2. CASE Next /\ ~Return
        <3>1. pc # "done" /\ pc' # "done" /\ versions' = versions
            BY <2>2 DEF Next, SkipSameVersion, DiffError, ComparePair, NextField,
                        EndPair, ApplyRule, UnknownChange
        <3>2. QED
            BY <3>1
    <2>3. CASE UNCHANGED vars
        BY <2>3 DEF vars
    <2>4. QED
        BY <2>1, <2>2, <2>3
<1>3. QED
    BY <1>1, <1>2, RInvariant, PTL DEF Spec, Refinement, Abs!AbsSpec

-----------------------------------------------------------------------------
(***************************************************************************)
(* Soundness of the rule dispatch: the closed-form errors of a field are   *)
(* empty exactly when every changed attribute has a rule that accepts it.  *)
(***************************************************************************)

\* When some rule reports handled, FirstHandled is a rule that does.
LEMMA FirstHandledSpec ==
    ASSUME NEW o, NEW n, \E kk \in 1..NRules : HandledAfter(kk, o, n)
    PROVE  /\ FirstHandled(o, n) \in 1..NRules
           /\ HandledAfter(FirstHandled(o, n), o, n)
<1> DEFINE T == {j \in 1..NRules : HandledAfter(j, o, n)}
<1>1. NRules = 11
    BY RuleOrderFacts
<1>2. T \subseteq Nat /\ T # {}
    BY <1>1
<1>3. IsWellFoundedOn(OpToRel(<, Nat), Nat)
    BY NatLessThanWellFounded
<1>4. PICK m \in T : \A y \in T : ~(<<y, m>> \in OpToRel(<, Nat))
    BY <1>2, <1>3, WFMin
<1>5. \A y \in T : ~(y < m)
    <2> SUFFICES ASSUME NEW y \in T PROVE ~(y < m)
        OBVIOUS
    <2>1. y \in Nat /\ m \in Nat
        BY <1>2
    <2>2. ~(<<y, m>> \in OpToRel(<, Nat))
        BY <1>4
    <2>3. (<<y, m>> \in OpToRel(<, Nat)) <=> y < m
        BY <2>1, Zenon DEF OpToRel
    <2>4. QED
        BY <2>2, <2>3, Zenon
<1>55. \A j \in 1..(m - 1) : ~HandledAfter(j, o, n)
    BY <1>1, <1>2, <1>5
<1>6. FirstHandled(o, n) = m
    BY <1>4, <1>55, FirstHandledAt
<1>7. QED
    BY <1>4, <1>6

\* A bound attribute of a descriptor is a number or unset.
LEMMA BoundValue ==
    ASSUME NEW d \in Descriptor, NEW a \in BoundAttrs
    PROVE  d[a] \in Nat \cup {None}
BY ConstAssumption DEF Descriptor, BoundVals, BoundAttrs, MaxAttrs, MinAttrs

\* No rule rejects its attribute when that attribute did not change.
LEMMA UnchangedAccepted ==
    ASSUME NEW o \in Descriptor, NEW n \in Descriptor, NEW a \in RuleAttrs, o[a] = n[a]
    PROVE  ~RuleRejects(a, o, n)
<1>1. RuleAttrs = {"enum", "required", "default"} \cup MaxAttrs \cup MinAttrs
    BY DEF RuleAttrs, RuleOrder, NRules, MaxAttrs, MinAttrs
<1>2. CASE a = "enum"
    <2>1. o.enum = n.enum
        BY <1>2
    <2>2. ~EnumUnsafe(o, n)
        BY <2>1 DEF EnumUnsafe
    <2>3. RuleRejects(a, o, n) = EnumUnsafe(o, n)
        BY <1>2 DEF RuleRejects, MaxAttrs, MinAttrs
    <2>4. QED
        BY <2>2, <2>3
<1>3. CASE a = "required"
    <2>1. o.required = n.required
        BY <1>3
    <2>2. ~RequiredUnsafe(o, n)
        BY <2>1 DEF RequiredUnsafe
    <2>3. RuleRejects(a, o, n) = RequiredUnsafe(o, n)
        BY <1>3 DEF RuleRejects, MaxAttrs, MinAttrs
    <2>4. QED
        BY <2>2, <2>3
<1>4. CASE a = "default"
    BY <1>4 DEF RuleRejects, DefaultUnsafe
<1>5. CASE a \in MaxAttrs
    <2>1. n[a] \in Nat \cup {None}
        BY <1>5, BoundValue DEF BoundAttrs
    <2>2. ~MaxUnsafe(a, o, n)
        BY <2>1 DEF MaxUnsafe
    <2>3. QED
        BY <1>5, <2>2 DEF RuleRejects, MaxAttrs, MinAttrs
<1>6. CASE a \in MinAttrs
    <2>1. n[a] \in Nat \cup {None}
        BY <1>6, BoundValue DEF BoundAttrs
    <2>2. ~MinUnsafe(a, o, n)
        BY <2>1 DEF MinUnsafe
    <2>3. QED
        BY <1>6, <2>2 DEF RuleRejects, MaxAttrs, MinAttrs
<1>7. QED
    BY <1>1, <1>2, <1>3, <1>4, <1>5, <1>6

\* The rules judge every attribute but the type.
LEMMA RuleAttrsFacts ==
    /\ Cleared(NRules) = RuleAttrs
    /\ RuleAttrs \subseteq Attrs
    /\ Attrs \ RuleAttrs = {"type"}
BY DEF Cleared, RuleAttrs, RuleOrder, NRules, Attrs, BoundAttrs, MaxAttrs, MinAttrs

\* The dispatch loop records no error for a field exactly when every
\* attribute that changed has a rule and that rule accepts the change: the
\* rules before the first one that handles the field cover every changed
\* attribute, and a rule never rejects an unchanged one.
LEMMA TagsEmptyIffSafe ==
    ASSUME NEW o \in Descriptor, NEW n \in Descriptor
    PROVE  FieldErrorTags(o, n) = {} <=> FieldSafe(o, n)
<1>1. NRules = 11 /\ \A j \in 1..NRules : RuleOrder[j] \in RuleAttrs
    BY RuleOrderFacts
<1>2. ASSUME FieldSafe(o, n) PROVE FieldErrorTags(o, n) = {}
    <2>1. o.type = n.type
        BY <1>2, RuleAttrsFacts DEF FieldSafe, Attrs
    <2>2. HandledAfter(NRules, o, n)
        BY <2>1, RuleAttrsFacts DEF HandledAfter
    <2>3. FirstHandled(o, n) \in 1..NRules
        BY <1>1, <2>2, FirstHandledSpec
    <2>4. \A j \in 1..NRules : ~RuleRejects(RuleOrder[j], o, n)
        <3> SUFFICES ASSUME NEW j \in 1..NRules PROVE ~RuleRejects(RuleOrder[j], o, n)
            OBVIOUS
        <3>1. RuleOrder[j] \in RuleAttrs /\ RuleOrder[j] \in Attrs
            BY <1>1, RuleAttrsFacts
        <3>2. CASE o[RuleOrder[j]] = n[RuleOrder[j]]
            BY <3>1, <3>2, UnchangedAccepted
        <3>3. CASE o[RuleOrder[j]] # n[RuleOrder[j]]
            BY <1>2, <3>1, <3>3 DEF FieldSafe
        <3>4. QED
            BY <3>2, <3>3
    <2>5. QED
        BY <1>1, <2>3, <2>4 DEF FieldErrorTags
<1>3. ASSUME FieldErrorTags(o, n) = {} PROVE FieldSafe(o, n)
    <2>1. "unknown" \notin FieldErrorTags(o, n)
        BY <1>3
    <2>2. \E kk \in 1..NRules : HandledAfter(kk, o, n)
        <3>1. CASE \A j \in 1..NRules : ~HandledAfter(j, o, n)
            <4>1. FirstHandled(o, n) = NRules + 1
                BY <3>1, FirstHandledNone
            <4>2. "unknown" \in FieldErrorTags(o, n)
                BY <1>1, <4>1 DEF FieldErrorTags
            <4>3. QED
                BY <2>1, <4>2
        <3>2. QED
            BY <3>1
    <2> DEFINE fh == FirstHandled(o, n)
    <2>3. fh \in 1..NRules /\ HandledAfter(fh, o, n)
        BY <2>2, FirstHandledSpec
    <2>4. \A j \in 1..fh : ~RuleRejects(RuleOrder[j], o, n)
        BY <1>1, <1>3, <2>3 DEF FieldErrorTags
    <2>5. \A a \in Attrs : o[a] # n[a] => \E j \in 1..fh : a = RuleOrder[j]
        BY <2>3 DEF HandledAfter, Cleared
    <2>6. QED
        BY <1>1, <2>3, <2>4, <2>5 DEF FieldSafe
<1>4. QED
    BY <1>2, <1>3

\* A schema comparison records no error exactly when the diff succeeds and
\* every field that differs is a safe change.
LEMMA SchemaErrorsEmpty ==
    ASSUME NEW os \in FlatSchema, NEW ns \in FlatSchema
    PROVE  SchemaErrors(os, ns) = {} <=>
              /\ ~DiffFails(os, ns)
              /\ \A f \in DiffFields(os, ns) : FieldSafe(os[f], ns[f])
<1>1. CASE DiffFails(os, ns)
    BY <1>1 DEF SchemaErrors
<1>2. CASE ~DiffFails(os, ns)
    <2>1. \A f \in DiffFields(os, ns) : os[f] \in Descriptor /\ ns[f] \in Descriptor
        BY DEF DiffFields, FlatSchema
    <2>2. \A f \in DiffFields(os, ns) :
              FieldErrorTags(os[f], ns[f]) = {} <=> FieldSafe(os[f], ns[f])
        BY <2>1, TagsEmptyIffSafe
    <2>3. SchemaErrors(os, ns) = {} <=>
              \A f \in DiffFields(os, ns) : FieldErrorTags(os[f], ns[f]) = {}
        <3>1. SchemaErrors(os, ns) =
                (UNION {{[field |-> g, tag |-> u] : u \in FieldErrorTags(os[g], ns[g])} :
                        g \in DiffFields(os, ns)})
            BY <1>2 DEF SchemaErrors
        <3>2. ASSUME NEW f \in DiffFields(os, ns), NEW t \in FieldErrorTags(os[f], ns[f])
              PROVE  SchemaErrors(os, ns) # {}
            <4>0. [field |-> f, tag |-> t] \in {[field |-> f, tag |-> u] : u \in FieldErrorTags(os[f], ns[f])}
                BY <3>2
            <4> DEFINE Fam == {{[field |-> g, tag |-> u] : u \in FieldErrorTags(os[g], ns[g])} :
                                g \in DiffFields(os, ns)}
            <4>1. {[field |-> f, tag |-> u] : u \in FieldErrorTags(os[f], ns[f])} \in Fam
                BY <3>2
            <4>2. [field |-> f, tag |-> t] \in UNION Fam
                BY <4>0, <4>1
            <4>3. [field |-> f, tag |-> t] \in SchemaErrors(os, ns)
                BY <3>1, <4>2
            <4>4. QED
                BY <4>3
        <3>3. ASSUME NEW e \in SchemaErrors(os, ns)
              PROVE  \E f \in DiffFields(os, ns) : FieldErrorTags(os[f], ns[f]) # {}
            BY <3>1, <3>3
        <3>4. QED
            BY <3>2, <3>3
    <2>4. QED
        BY <1>2, <2>2, <2>3
<1>3. QED
    BY <1>1, <1>2

\* The cross-version errors of a CRD are empty exactly when its versions
\* are mutually compatible.
LEMMA NoErrorsIffCompatible ==
    ASSUME NEW vs \in [VersionNames -> FlatSchema]
    PROVE  CrossVersionErrors(vs) = {} <=> MutuallyCompatible(vs)
<1>1. \A a, b \in VersionNames : PairErrors(vs, a, b) = {} <=> SchemaErrors(vs[a], vs[b]) = {}
    BY DEF PairErrors
<1>2. CrossVersionErrors(vs) = {} <=>
          \A a, b \in VersionNames : a # b => PairErrors(vs, a, b) = {}
    <2>1. DOMAIN vs = VersionNames
        OBVIOUS
    <2>2. ASSUME NEW a \in VersionNames, NEW b \in VersionNames, a # b,
                 NEW e \in PairErrors(vs, a, b)
          PROVE  e \in CrossVersionErrors(vs)
        <3>1. <<a, b>> \in {q \in (DOMAIN vs) \X (DOMAIN vs) : q[1] # q[2]}
            BY <2>1, <2>2
        <3>2. QED
            BY <2>2, <3>1 DEF CrossVersionErrors
    <2>3. ASSUME NEW e \in CrossVersionErrors(vs)
          PROVE  \E a, b \in VersionNames : a # b /\ e \in PairErrors(vs, a, b)
        BY <2>1, <2>3 DEF CrossVersionErrors
    <2>4. QED
        BY <2>2, <2>3
<1>3. \A a, b \in VersionNames :
          SchemaErrors(vs[a], vs[b]) = {} <=>
              /\ ~DiffFails(vs[a], vs[b])
              /\ \A f \in DiffFields(vs[a], vs[b]) : FieldSafe(vs[a][f], vs[b][f])
    BY SchemaErrorsEmpty
<1>4. QED
    BY <1>1, <1>2, <1>3 DEF MutuallyCompatible

\* Deny by default, for every CRD and every order of its versions: when
\* Validate (part_000 lines 136-176) returns, it has returned no error
\* exactly when every ordered pair of distinct versions diffs cleanly and
\* every changed attribute of every field has a rule that accepts it.
THEOREM Sound == Spec => []CrossVersionSound
<1>1. TypeOK /\ (pc = "done" => errs = CrossVersionErrors(versions)) => CrossVersionSound
    BY NoErrorsIffCompatible DEF TypeOK, CrossVersionSound
<1>2. QED
    BY <1>1, TypeCorrect, ReturnsAllPairErrors, PTL

-----------------------------------------------------------------------------
(***************************************************************************)
(* Losslessness: a change every rule accepts keeps every valid instance    *)
(* valid.                                                                  *)
(***************************************************************************)

\* What an accepted change of each judged attribute means.
LEMMA AcceptedChange ==
    ASSUME NEW o \in Descriptor, NEW n \in Descriptor, FieldSafe(o, n)
    PROVE  /\ o.enum # n.enum => n.enum = {} \/ (o.enum # {} /\ o.enum \subseteq n.enum)
           /\ o.required # n.required => n.required \subseteq o.required
           /\ o.type = n.type
           /\ \A a \in MaxAttrs : o[a] # n[a] => ~MaxUnsafe(a, o, n)
           /\ \A a \in MinAttrs : o[a] # n[a] => ~MinUnsafe(a, o, n)
<1>1. {"enum", "required", "type"} \cup MaxAttrs \cup MinAttrs \subseteq Attrs
      /\ {"enum", "required"} \cup MaxAttrs \cup MinAttrs \subseteq RuleAttrs
    BY DEF Attrs, BoundAttrs, RuleAttrs, RuleOrder, NRules, MaxAttrs, MinAttrs
<1>2. o.enum # n.enum => ~EnumUnsafe(o, n)
    BY <1>1 DEF FieldSafe, RuleRejects, MaxAttrs, MinAttrs
<1>3. o.required # n.required => ~RequiredUnsafe(o, n)
    BY <1>1 DEF FieldSafe, RuleRejects, MaxAttrs, MinAttrs
<1>4. o.type = n.type
    BY RuleAttrsFacts DEF FieldSafe, Attrs
<1>5. \A a \in MaxAttrs : o[a] # n[a] => ~MaxUnsafe(a, o, n)
    BY <1>1 DEF FieldSafe, RuleRejects, MaxAttrs, MinAttrs
<1>6. \A a \in MinAttrs : o[a] # n[a] => ~MinUnsafe(a, o, n)
    BY <1>1 DEF FieldSafe, RuleRejects, MaxAttrs, MinAttrs
<1>7. QED
    BY <1>2, <1>3, <1>4, <1>5, <1>6 DEF EnumUnsafe, RequiredUnsafe

\* A change that the rule set accepts is lossless.
LEMMA SafeLossless ==
    ASSUME NEW o \in Descriptor, NEW n \in Descriptor, FieldSafe(o, n)
    PROVE  Lossless(o, n)
<1> SUFFICES ASSUME NEW v \in Instance, Valid(v, o) PROVE Valid(v, n)
    BY DEF Lossless
<1>1. n.enum # {} => v.val \in n.enum
    BY AcceptedChange DEF Valid
<1>2. ASSUME NEW a \in Bounded \cap MaxAttrs, n[a] # None PROVE v.size[a] <= n[a]
    <2>1. v.size[a] \in Nat /\ o[a] \in Nat \cup {None} /\ n[a] \in Nat
        BY <1>2, BoundValue, ConstAssumption DEF Instance, BoundAttrs
    <2>2. CASE o[a] = n[a]
        BY <1>2, <2>2 DEF Valid
    <2>3. CASE o[a] # n[a]
        <3>1. ~MaxUnsafe(a, o, n)
            BY <1>2, <2>3, AcceptedChange
        <3>a. o[a] # None /\ ~(n[a] < o[a])
            BY <1>2, <3>1 DEF MaxUnsafe
        <3>2. o[a] \in Nat /\ n[a] >= o[a]
            BY <2>1, <3>a
        <3>3. v.size[a] <= o[a]
            BY <1>2, <3>a DEF Valid
        <3>4. QED
            BY <2>1, <3>2, <3>3
    <2>4. QED
        BY <2>2, <2>3
<1>3. ASSUME NEW a \in Bounded \cap MinAttrs, n[a] # None PROVE v.size[a] >= n[a]
    <2>1. v.size[a] \in Nat /\ o[a] \in Nat \cup {None} /\ n[a] \in Nat
        BY <1>3, BoundValue, ConstAssumption DEF Instance, BoundAttrs
    <2>2. CASE o[a] = n[a]
        BY <1>3, <2>2 DEF Valid
    <2>3. CASE o[a] # n[a]
        <3>1. ~MinUnsafe(a, o, n)
            BY <1>3, <2>3, AcceptedChange
        <3>a. o[a] # None /\ ~(n[a] > o[a])
            BY <1>3, <3>1 DEF MinUnsafe
        <3>2. o[a] \in Nat /\ n[a] <= o[a]
            BY <2>1, <3>a
        <3>3. v.size[a] >= o[a]
            BY <1>3, <3>a DEF Valid
        <3>4. QED
            BY <2>1, <3>2, <3>3
    <2>4. QED
        BY <2>2, <2>3
<1>4. n.required \subseteq v.present
    BY AcceptedChange DEF Valid
<1>5. v.type = n.type
    BY AcceptedChange DEF Valid
<1>6. QED
    BY <1>1, <1>2, <1>3, <1>4, <1>5 DEF Valid

\* Mutually compatible versions are lossless between any two of them.
LEMMA CompatibleLossless ==
    ASSUME NEW vs \in [VersionNames -> FlatSchema], MutuallyCompatible(vs),
           NEW a \in VersionNames, NEW b \in VersionNames, NEW f \in DOMAIN vs[a]
    PROVE  f \in DOMAIN vs[b] /\ Lossless(vs[a][f], vs[b][f])
<1>1. vs[a][f] \in Descriptor
    BY DEF FlatSchema
<1>2. CASE a = b
    BY <1>2 DEF Lossless
<1>3. CASE a # b
    <2>1. ~DiffFails(vs[a], vs[b])
          /\ \A g \in DiffFields(vs[a], vs[b]) : FieldSafe(vs[a][g], vs[b][g])
        BY <1>3 DEF MutuallyCompatible
    <2>2. f \in DOMAIN vs[b] /\ vs[b][f] \in Descriptor
        BY <2>1 DEF DiffFails, FlatSchema
    <2>3. CASE vs[a][f] = vs[b][f]
        BY <2>2, <2>3 DEF Lossless
    <2>4. CASE vs[a][f] # vs[b][f]
        <3>1. FieldSafe(vs[a][f], vs[b][f])
            BY <2>1, <2>2, <2>4 DEF DiffFields
        <3>2. QED
            BY <1>1, <2>2, <3>1, SafeLossless
    <2>5. QED
        BY <2>3, <2>4
<1>4. QED
    BY <1>2, <1>3

\* A CRD that Validate accepts is lossless between its versions: every field
\* of one version exists in every other, and every instance valid under one
\* version is valid under any other.  This holds for every CRD, every order
\* of its versions and every order Go's map iteration gives the fields.
THEOREM LosslessAccepted == Spec => []CrossVersionLossless
<1>1. TypeOK /\ CrossVersionSound => CrossVersionLossless
    BY CompatibleLossless DEF TypeOK, CrossVersionSound, CrossVersionLossless
<1>2. QED
    BY <1>1, TypeCorrect, Sound, PTL

=============================================================================
