--------------------------- MODULE PreflightProofs ---------------------------
(***************************************************************************)
(* Proofs about the CRD upgrade-safety preflight (Preflight): Upgrade      *)
(* returns nil exactly for a safe release, and when no read or decode      *)
(* error ends it, it reports every failing CRD under each validator.       *)
(* The validators themselves (ValidateErrors, CrossVersionErrors) are used *)
(* as given: the proofs hold whatever they compute.                        *)
(***************************************************************************)
EXTENDS Preflight, SequenceTheorems, TLAPS

\* The j-th object of the manifest passed the checks that end the call:
\* it converts, and if it is a CRD the cluster has it.
Checked(j) ==
    /\ objs[j].kind # "badcrd"
    /\ objs[j].kind = "crd" => cluster[objs[j].name] # Absent

\* Every object before the current one passed those checks.
PrefixChecked == \A j \in 1..(i - 1) : Checked(j)

\* The j-th object is a CRD that fails the upgrade Validator, or the
\* cross-version check.
UpgradeFails(j) ==
    objs[j].kind = "crd" /\ ValidateErrors(cluster[objs[j].name], objs[j].crd) # {}
CrossFails(j) ==
    objs[j].kind = "crd" /\ CrossVersionErrors(objs[j].crd.versions) # {}

\* The errors ValidateCRD has appended for the objects 1..n-1.
Joined(n) ==
    {[kind |-> "upgrade", crd |-> objs[j].name] : j \in {m \in 1..(n - 1) : UpgradeFails(m)}}
    \cup
    {[kind |-> "crossVersion", crd |-> objs[j].name] : j \in {m \in 1..(n - 1) : CrossFails(m)}}

\* How each path of Upgrade ends, and what the loop has built so far.
LoopInv ==
    /\ pc = "start" => op = "none" /\ rel = "none" /\ i = 1 /\ errs = {} /\ result = {}
    /\ op = "upgrade" => rel # "none"
    /\ pc = "loop" =>
         /\ op = "upgrade" /\ rel = "manifest" /\ result = {}
         /\ i <= Len(objs) + 1 /\ PrefixChecked /\ errs = Joined(i)
    /\ op = "upgrade" /\ pc = "done" /\ rel = "nil" => result = {}
    /\ op = "upgrade" /\ pc = "done" /\ rel = "unparsable" => result = {[kind |-> "parse"]}
    /\ op = "upgrade" /\ pc = "done" /\ rel = "manifest" =>
         /\ PrefixChecked
         /\ \/ i = Len(objs) + 1 /\ result = Joined(i)
            \/ /\ i <= Len(objs) /\ objs[i].kind = "badcrd"
               /\ result = {[kind |-> "convert"]}
            \/ /\ i <= Len(objs) /\ objs[i].kind = "crd" /\ cluster[objs[i].name] = Absent
               /\ result = {[kind |-> "get", crd |-> objs[i].name]}

PInv == TypeOK /\ LoopInv

-----------------------------------------------------------------------------
(***************************************************************************)
(* Lemmas on the data of the model.                                        *)
(***************************************************************************)

\* A manifest object of kind "crd" is a CRD object: it has a name and a
\* definition.
LEMMA CRDKind ==
    ASSUME NEW o \in RelObject, o.kind = "crd"
    PROVE  o \in CRDObject
BY DEF RelObject, CRDObject

\* The sequence UpgradeBegin decodes is a manifest of at most MaxObjects
\* objects.
LEMMA DecodedManifest ==
    ASSUME NEW n \in 0..MaxObjects, NEW s \in [1..n -> RelObject]
    PROVE  s \in Seq(RelObject) /\ Len(s) = n
<1>1. n \in Nat
    BY PreflightAssumption
<1>2. s \in Seq(RelObject)
    BY <1>1, SeqDef
<1>3. QED
    BY <1>1, <1>2, LenProperties

\* The errors that ValidateCRD appends name the CRD of the manifest.
LEMMA ValidateErrorsTyped ==
    ASSUME NEW o \in CRDObject
    PROVE  /\ [kind |-> "upgrade", crd |-> o.name] \in UpgradeError
           /\ [kind |-> "crossVersion", crd |-> o.name] \in UpgradeError
           /\ [kind |-> "get", crd |-> o.name] \in UpgradeError
BY DEF CRDObject, UpgradeError

-----------------------------------------------------------------------------
(***************************************************************************)
(* Type correctness.                                                       *)
(***************************************************************************)

LEMMA InitTypeOK == Init => TypeOK
BY PreflightAssumption DEF Init, TypeOK

LEMMA NextTypeOK == TypeOK /\ [Next]_vars => TypeOK'
<1> SUFFICES ASSUME TypeOK, [Next]_vars PROVE TypeOK'
    OBVIOUS
<1> USE DEF TypeOK
<1>0. pc = "loop" /\ i <= Len(objs) => Obj \in RelObject /\ i + 1 \in 1..(MaxObjects + 1)
    BY PreflightAssumption DEF Obj
<1>1. CASE Install
    BY <1>1 DEF Install
<1>2. CASE UpgradeNilRelease
    BY <1>2 DEF UpgradeNilRelease
<1>3. CASE UpgradeParseError
    BY <1>3 DEF UpgradeParseError, UpgradeError
<1>4. CASE UpgradeBegin
    BY <1>4, DecodedManifest DEF UpgradeBegin
<1>5. CASE SkipObject
    BY <1>0, <1>5 DEF SkipObject
<1>6. CASE ConvertFailure
    BY <1>6 DEF ConvertFailure, UpgradeError
<1>7. CASE GetFailure
    BY <1>0, <1>7, CRDKind, ValidateErrorsTyped DEF GetFailure
<1>8. CASE ValidateCRD
    BY <1>0, <1>8, CRDKind, ValidateErrorsTyped DEF ValidateCRD
<1>9. CASE ReturnJoined
    BY <1>9 DEF ReturnJoined
<1>10. CASE UNCHANGED vars
    BY <1>10 DEF vars
<1>11. QED
    BY <1>1, <1>2, <1>3, <1>4, <1>5, <1>6, <1>7, <1>8, <1>9, <1>10 DEF Next

\* Upgrade keeps its state well typed: the objects decoded, the index, and
\* every error it collects or returns, for every value of the constants.
THEOREM TypeCorrect == Spec => []TypeOK
BY InitTypeOK, NextTypeOK, PTL DEF Spec

-----------------------------------------------------------------------------
(***************************************************************************)
(* The loop invariant.                                                     *)
(***************************************************************************)

\* Visiting object n adds its two validators' failures to the joined errors.
LEMMA JoinedStep ==
    ASSUME NEW n \in Nat \ {0}
    PROVE  Joined(n + 1) =
             Joined(n)
             \cup (IF UpgradeFails(n) THEN {[kind |-> "upgrade", crd |-> objs[n].name]} ELSE {})
             \cup (IF CrossFails(n) THEN {[kind |-> "crossVersion", crd |-> objs[n].name]} ELSE {})
<1>1. 1..(n + 1 - 1) = 1..(n - 1) \cup {n}
    OBVIOUS
<1>2. QED
    BY <1>1 DEF Joined

\* Nothing has been joined before the first object.
LEMMA JoinedFirst == Joined(1) = {}
BY DEF Joined

\* The joined errors and the checked prefix depend only on the manifest, the
\* cluster and the index.
LEMMA LoopFrame ==
    ASSUME objs' = objs, cluster' = cluster
    PROVE  /\ Joined(i)' = Joined(i')
           /\ PrefixChecked' = \A j \in 1..(i' - 1) : Checked(j)
BY DEF Joined, UpgradeFails, CrossFails, Checked, PrefixChecked

LEMMA InitLoopInv == Init => LoopInv
BY DEF Init, LoopInv

LEMMA NextLoopInv == TypeOK /\ LoopInv /\ [Next]_vars => LoopInv'
<1> SUFFICES ASSUME TypeOK, LoopInv, [Next]_vars PROVE LoopInv'
    OBVIOUS
<1> USE DEF TypeOK
<1>1. CASE Install
    BY <1>1 DEF Install, LoopInv
<1>2. CASE UpgradeNilRelease
    BY <1>2 DEF UpgradeNilRelease, LoopInv
<1>3. CASE UpgradeParseError
    BY <1>3 DEF UpgradeParseError, LoopInv
<1>4. CASE UpgradeBegin
    <2>1. Len(objs') \in Nat
        BY <1>4, DecodedManifest DEF UpgradeBegin
    <2>2. i' = 1 /\ errs' = {} /\ result' = {}
        BY <1>4 DEF UpgradeBegin, LoopInv
    <2>3. Joined(i)' = {} /\ PrefixChecked'
        BY <2>2 DEF Joined, PrefixChecked
    <2>4. QED
        BY <1>4, <2>1, <2>2, <2>3 DEF UpgradeBegin, LoopInv
<1>5. CASE SkipObject
    <2>1. Joined(i)' = Joined(i)
        <3>1. ~UpgradeFails(i) /\ ~CrossFails(i)
            BY <1>5 DEF SkipObject, Obj, UpgradeFails, CrossFails
        <3>2. i \in Nat \ {0}
            OBVIOUS
        <3>3. QED
            BY <1>5, <3>1, <3>2, JoinedStep, LoopFrame DEF SkipObject
    <2>2. PrefixChecked'
        <3>1. Checked(i)
            BY <1>5 DEF SkipObject, Obj, Checked
        <3>2. QED
            BY <1>5, <3>1, LoopFrame DEF SkipObject, LoopInv, PrefixChecked
    <2>3. QED
        BY <1>5, <2>1, <2>2 DEF SkipObject, LoopInv
<1>6. CASE ConvertFailure
    <2>1. PrefixChecked'
        BY <1>6, LoopFrame DEF ConvertFailure, LoopInv, PrefixChecked
    <2>2. QED
        BY <1>6, <2>1 DEF ConvertFailure, LoopInv, Obj
<1>7. CASE GetFailure
    <2>1. PrefixChecked'
        BY <1>7, LoopFrame DEF GetFailure, LoopInv, PrefixChecked
    <2>2. QED
        BY <1>7, <2>1 DEF GetFailure, LoopInv, Obj
<1>8. CASE ValidateCRD
    <2>1. Joined(i)' = errs'
        <3>1. i \in Nat \ {0}
            OBVIOUS
        <3>2. /\ UpgradeFails(i) <=> ValidateErrors(cluster[Obj.name], Obj.crd) # {}
              /\ CrossFails(i) <=> CrossVersionErrors(Obj.crd.versions) # {}
            BY <1>8 DEF ValidateCRD, Obj, UpgradeFails, CrossFails
        <3>3. Joined(i + 1) = errs'
            BY <1>8, <3>1, <3>2, JoinedStep DEF ValidateCRD, LoopInv, Obj
        <3>4. QED
            BY <1>8, <3>3, LoopFrame DEF ValidateCRD
    <2>2. PrefixChecked'
        <3>1. Checked(i)
            BY <1>8 DEF ValidateCRD, Obj, Checked
        <3>2. QED
            BY <1>8, <3>1, LoopFrame DEF ValidateCRD, LoopInv, PrefixChecked
    <2>3. QED
        BY <1>8, <2>1, <2>2 DEF ValidateCRD, LoopInv
<1>9. CASE ReturnJoined
    <2>1. i = Len(objs) + 1
        BY <1>9 DEF ReturnJoined, LoopInv
    <2>2. PrefixChecked' /\ Joined(i)' = Joined(i)
        BY <1>9, LoopFrame DEF ReturnJoined, LoopInv, PrefixChecked
    <2>3. QED
        BY <1>9, <2>1, <2>2 DEF ReturnJoined, LoopInv
<1>10. CASE UNCHANGED vars
    BY <1>10, LoopFrame DEF vars, LoopInv, PrefixChecked
<1>11. QED
    BY <1>1, <1>2, <1>3, <1>4, <1>5, <1>6, <1>7, <1>8, <1>9, <1>10 DEF Next

\* The loop invariant holds in every reachable state.
THEOREM PInvariant == Spec => []PInv
<1>1. Init => PInv
    BY InitTypeOK, InitLoopInv DEF PInv
<1>2. PInv /\ [Next]_vars => PInv'
    BY NextTypeOK, NextLoopInv DEF PInv
<1>3. QED
    BY <1>1, <1>2, PTL DEF Spec

-----------------------------------------------------------------------------
(***************************************************************************)
(* What the loop returns.                                                  *)
(***************************************************************************)

\* An object of the manifest is one of its indexed objects.
LEMMA ObjSetIndex ==
    ASSUME TypeOK
    PROVE  /\ \A j \in 1..Len(objs) : objs[j] \in ObjSet /\ objs[j] \in RelObject
           /\ \A o \in ObjSet : \E j \in 1..Len(objs) : o = objs[j]
BY DEF TypeOK, ObjSet

\* Once every object is checked, the joined errors are empty exactly when
\* every object converts and every CRD of the manifest passes both
\* validators.
LEMMA JoinedEmptyIffSafe ==
    ASSUME TypeOK, i = Len(objs) + 1, PrefixChecked
    PROVE  Joined(i) = {} <=> /\ \A o \in ObjSet : o.kind # "badcrd"
                              /\ \A o \in ObjSet \cap CRDObject : SafeCRD(o)
<1>1. \A j \in 1..Len(objs) : Checked(j)
    BY DEF PrefixChecked
<1>2. ASSUME Joined(i) = {} PROVE \A o \in ObjSet : o.kind # "badcrd"
    BY <1>1, ObjSetIndex DEF Checked
<1>3. ASSUME Joined(i) = {}, NEW o \in ObjSet \cap CRDObject PROVE SafeCRD(o)
    <2>1. PICK j \in 1..Len(objs) : o = objs[j]
        BY ObjSetIndex
    <2>2. o.kind = "crd"
        BY DEF CRDObject
    <2>3. cluster[o.name] # Absent
        BY <1>1, <2>1, <2>2 DEF Checked
    <2>4. j \in 1..(i - 1)
        BY <2>1
    <2>5. ~UpgradeFails(j)
        <3>1. [kind |-> "upgrade", crd |-> objs[j].name] \notin Joined(i)
            BY <1>3
        <3>2. QED
            BY <2>4, <3>1 DEF Joined
    <2>6. ~CrossFails(j)
        <3>1. [kind |-> "crossVersion", crd |-> objs[j].name] \notin Joined(i)
            BY <1>3
        <3>2. QED
            BY <2>4, <3>1 DEF Joined
    <2>7. QED
        BY <2>1, <2>2, <2>3, <2>5, <2>6 DEF UpgradeFails, CrossFails, SafeCRD
<1>4. ASSUME \A o \in ObjSet \cap CRDObject : SafeCRD(o) PROVE Joined(i) = {}
    <2>1. ASSUME NEW j \in 1..Len(objs), objs[j].kind = "crd"
          PROVE  ~UpgradeFails(j) /\ ~CrossFails(j)
        <3>1. objs[j] \in ObjSet \cap CRDObject
            BY <2>1, ObjSetIndex, CRDKind
        <3>2. SafeCRD(objs[j])
            BY <1>4, <3>1
        <3>3. QED
            BY <3>2 DEF SafeCRD, UpgradeFails, CrossFails
    <2>0. 1..(i - 1) = 1..Len(objs)
        BY DEF TypeOK
    <2>2. {m \in 1..(i - 1) : UpgradeFails(m)} = {} /\ {m \in 1..(i - 1) : CrossFails(m)} = {}
        BY <2>0, <2>1 DEF UpgradeFails, CrossFails
    <2>3. QED
        BY <2>2 DEF Joined
<1>5. QED
    BY <1>2, <1>3, <1>4

\* Once every object is checked, the joined errors name exactly the CRDs of
\* the manifest that fail each validator.
LEMMA JoinedReportsAll ==
    ASSUME TypeOK, i = Len(objs) + 1
    PROVE  Joined(i) =
             {[kind |-> "upgrade", crd |-> o.name] :
                o \in {p \in ObjSet \cap CRDObject :
                         ValidateErrors(cluster[p.name], p.crd) # {}}}
             \cup
             {[kind |-> "crossVersion", crd |-> o.name] :
                o \in {p \in ObjSet \cap CRDObject :
                         CrossVersionErrors(p.crd.versions) # {}}}
<1> DEFINE UIdx == {m \in 1..(i - 1) : UpgradeFails(m)}
           CIdx == {m \in 1..(i - 1) : CrossFails(m)}
           UObj == {p \in ObjSet \cap CRDObject : ValidateErrors(cluster[p.name], p.crd) # {}}
           CObj == {p \in ObjSet \cap CRDObject : CrossVersionErrors(p.crd.versions) # {}}
<1>1. {objs[j] : j \in UIdx} = UObj
    <2>1. \A j \in UIdx : objs[j] \in UObj
        BY ObjSetIndex, CRDKind DEF UpgradeFails
    <2>2. ASSUME NEW o \in UObj PROVE \E j \in UIdx : o = objs[j]
        <3>1. PICK j \in 1..Len(objs) : o = objs[j]
            BY ObjSetIndex
        <3>2. o.kind = "crd"
            BY DEF CRDObject
        <3>3. UpgradeFails(j)
            BY <3>1, <3>2 DEF UpgradeFails
        <3>4. QED
            BY <3>1, <3>3
    <2>3. QED
        BY <2>1, <2>2
<1>2. {objs[j] : j \in CIdx} = CObj
    <2>1. \A j \in CIdx : objs[j] \in CObj
        BY ObjSetIndex, CRDKind DEF CrossFails
    <2>2. ASSUME NEW o \in CObj PROVE \E j \in CIdx : o = objs[j]
        <3>1. PICK j \in 1..Len(objs) : o = objs[j]
            BY ObjSetIndex
        <3>2. o.kind = "crd"
            BY DEF CRDObject
        <3>3. CrossFails(j)
            BY <3>1, <3>2 DEF CrossFails
        <3>4. QED
            BY <3>1, <3>3
    <2>3. QED
        BY <2>1, <2>2
<1>3. {[kind |-> "upgrade", crd |-> objs[j].name] : j \in UIdx}
        = {[kind |-> "upgrade", crd |-> o.name] : o \in UObj}
    <2>1. ASSUME NEW j \in UIdx
          PROVE  [kind |-> "upgrade", crd |-> objs[j].name]
                   \in {[kind |-> "upgrade", crd |-> o.name] : o \in UObj}
        <3>1. objs[j] \in UObj
            BY <1>1
        <3>2. QED
            BY <3>1
    <2>2. ASSUME NEW o \in UObj
          PROVE  [kind |-> "upgrade", crd |-> o.name]
                   \in {[kind |-> "upgrade", crd |-> objs[j].name] : j \in UIdx}
        <3>1. PICK j \in UIdx : o = objs[j]
            BY <1>1
        <3>2. QED
            BY <3>1
    <2>3. QED
        BY <2>1, <2>2
<1>4. {[kind |-> "crossVersion", crd |-> objs[j].name] : j \in CIdx}
        = {[kind |-> "crossVersion", crd |-> o.name] : o \in CObj}
    <2>1. ASSUME NEW j \in CIdx
          PROVE  [kind |-> "crossVersion", crd |-> objs[j].name]
                   \in {[kind |-> "crossVersion", crd |-> o.name] : o \in CObj}
        <3>1. objs[j] \in CObj
            BY <1>2
        <3>2. QED
            BY <3>1
    <2>2. ASSUME NEW o \in CObj
          PROVE  [kind |-> "crossVersion", crd |-> o.name]
                   \in {[kind |-> "crossVersion", crd |-> objs[j].name] : j \in CIdx}
        <3>1. PICK j \in CIdx : o = objs[j]
            BY <1>2
        <3>2. QED
            BY <3>1
    <2>3. QED
        BY <2>1, <2>2
<1>5. QED
    BY <1>3, <1>4 DEF Joined

\* Upgrade returns nil exactly when there is no release, or when every
\* object of the manifest converts and every CRD in it is in the cluster and
\* passes both the upgrade Validator and the cross-version check: one unsafe
\* CRD anywhere in the release stops the upgrade (part_000 lines 94-129),
\* for every cluster, every manifest and whatever the validators compute.
THEOREM NilIffSafe == Spec => []UpgradeNilIffSafe
<1>1. PInv => UpgradeNilIffSafe
    <2> SUFFICES ASSUME PInv, op = "upgrade", pc = "done"
                 PROVE  result = {} <=>
                          \/ rel = "nil"
                          \/ /\ rel = "manifest"
                             /\ \A o \in ObjSet : o.kind # "badcrd"
                             /\ \A o \in ObjSet \cap CRDObject : SafeCRD(o)
        BY DEF UpgradeNilIffSafe
    <2>0. TypeOK /\ LoopInv
        BY DEF PInv
    <2>1. CASE rel = "nil"
        BY <2>0, <2>1 DEF LoopInv
    <2>2. CASE rel = "unparsable"
        BY <2>0, <2>2 DEF LoopInv
    <2>3. CASE rel = "manifest"
        <3>1. PrefixChecked
            BY <2>0, <2>3 DEF LoopInv
        <3>2. CASE i = Len(objs) + 1 /\ result = Joined(i)
            BY <2>0, <2>3, <3>1, <3>2, JoinedEmptyIffSafe
        <3>3. CASE i <= Len(objs) /\ objs[i].kind = "badcrd" /\ result = {[kind |-> "convert"]}
            <4>1. objs[i] \in ObjSet
                BY <2>0, <3>3, ObjSetIndex DEF TypeOK
            <4>2. QED
                BY <2>3, <3>3, <4>1
        <3>4. CASE /\ i <= Len(objs) /\ objs[i].kind = "crd" /\ cluster[objs[i].name] = Absent
                   /\ result = {[kind |-> "get", crd |-> objs[i].name]}
            <4>1. objs[i] \in ObjSet \cap CRDObject
                BY <2>0, <3>4, ObjSetIndex, CRDKind DEF TypeOK
            <4>2. ~SafeCRD(objs[i])
                BY <3>4 DEF SafeCRD
            <4>3. QED
                BY <2>3, <3>4, <4>1, <4>2
        <3>5. QED
            BY <2>0, <2>3, <3>2, <3>3, <3>4 DEF LoopInv
    <2>4. QED
        BY <2>0, <2>1, <2>2, <2>3 DEF LoopInv, TypeOK
<1>2. QED
    BY <1>1, PInvariant, PTL

\* The errors are aggregated, not short-circuited: when no read or decode
\* error ends Upgrade, its result names every CRD of the release that fails
\* each validator, and no other (the validateErrors loop of part_000 lines
\* 114-129 and errors.Join).
THEOREM ReportsEveryFailure == Spec => []UpgradeReportsEveryFailure
<1>1. PInv => UpgradeReportsEveryFailure
    <2> SUFFICES ASSUME PInv, op = "upgrade", pc = "done", rel = "manifest",
                        result \cap InfraError = {}
                 PROVE  result =
                          {[kind |-> "upgrade", crd |-> o.name] :
                             o \in {p \in ObjSet \cap CRDObject :
                                      ValidateErrors(cluster[p.name], p.crd) # {}}}
                          \cup
                          {[kind |-> "crossVersion", crd |-> o.name] :
                             o \in {p \in ObjSet \cap CRDObject :
                                      CrossVersionErrors(p.crd.versions) # {}}}
        BY DEF UpgradeReportsEveryFailure
    <2>0. TypeOK /\ LoopInv
        BY DEF PInv
    <2>1. [kind |-> "convert"] \in InfraError
        BY DEF InfraError, UpgradeError
    <2>2. ~(i <= Len(objs) /\ objs[i].kind = "crd" /\ result = {[kind |-> "get", crd |-> objs[i].name]})
        <3> SUFFICES ASSUME i <= Len(objs), objs[i].kind = "crd",
                            result = {[kind |-> "get", crd |-> objs[i].name]}
                     PROVE  FALSE
            OBVIOUS
        <3>1. objs[i] \in CRDObject
            BY <2>0, ObjSetIndex, CRDKind DEF TypeOK
        <3>2. [kind |-> "get", crd |-> objs[i].name] \in InfraError
            BY <3>1, ValidateErrorsTyped DEF InfraError
        <3>3. QED
            BY <3>2
    <2>3. i = Len(objs) + 1 /\ result = Joined(i)
        BY <2>0, <2>1, <2>2 DEF LoopInv
    <2>4. QED
        BY <2>0, <2>3, JoinedReportsAll
<1>2. QED
    BY <1>1, PInvariant, PTL

-----------------------------------------------------------------------------
(***************************************************************************)
(* No-op upgrades.                                                         *)
(***************************************************************************)

\* A schema compared with itself: the diff keeps every field and finds no
\* changed one, so no rule runs.
LEMMA SameSchemaNoErrors ==
    ASSUME NEW s
    PROVE  ~DiffFails(s, s) /\ SchemaErrors(s, s) = {}
<1>1. ~DiffFails(s, s) /\ DiffFields(s, s) = {}
    BY DEF DiffFails, DiffFields
<1>2. QED
    BY <1>1 DEF SchemaErrors

\* The upgrade Validator accepts a definition of the same scope and versions
\* as the one in the cluster: no scope change, every stored version is still
\* declared (the API server keeps stored versions declared), no field
\* removed and no field changed.
LEMMA NoOpValidates ==
    ASSUME NEW c \in ClusterCRD, NEW d, d.scope = c.scope, d.versions = c.versions
    PROVE  ValidateErrors(c, d) = {}
<1>1. ~ScopeChanged(c, d)
    BY DEF ScopeChanged
<1>2. ~StoredVersionRemoved(c, d)
    BY DEF StoredVersionRemoved, ClusterCRD
<1>3. ~ExistingFieldRemoved(c, d)
    BY SameSchemaNoErrors DEF ExistingFieldRemoved
<1>4. ChangeErrors(c, d) = {}
    <2>1. \A v \in CommonVersions(c, d) : SchemaErrors(c.versions[v], d.versions[v]) = {}
        BY SameSchemaNoErrors
    <2>2. QED
        BY <2>1 DEF ChangeErrors
<1>5. QED
    BY <1>1, <1>2, <1>3, <1>4 DEF ValidateErrors

\* A no-op upgrade is never refused by the upgrade Validator: when Upgrade
\* rejects a release whose CRDs all keep the cluster's scope and versions,
\* the result names exactly the CRDs whose own versions fail the
\* cross-version check (the finding of the preflight_noop run is therefore
\* due to that check alone), for every cluster and every manifest.
THEOREM NoOpOnlyCrossVersion == Spec => []NoOpRejectedOnlyByCrossVersion
<1>1. PInv => NoOpRejectedOnlyByCrossVersion
    <2> SUFFICES ASSUME PInv, op = "upgrade", pc = "done", rel = "manifest", NoOpRelease
                 PROVE  result =
                          {[kind |-> "crossVersion", crd |-> o.name] :
                             o \in {p \in ObjSet : CrossVersionErrors(p.crd.versions) # {}}}
        BY DEF NoOpRejectedOnlyByCrossVersion
    <2>0. TypeOK /\ LoopInv
        BY DEF PInv
    <2>1. i <= Len(objs) => objs[i].kind = "crd" /\ cluster[objs[i].name] # Absent
        BY <2>0, ObjSetIndex DEF TypeOK, NoOpRelease
    <2>2. i = Len(objs) + 1 /\ result = Joined(i)
        BY <2>0, <2>1 DEF LoopInv
    <2>3. \A p \in ObjSet : p \in CRDObject /\ cluster[p.name] \in ClusterCRD
        <3> SUFFICES ASSUME NEW p \in ObjSet PROVE p \in CRDObject /\ cluster[p.name] \in ClusterCRD
            OBVIOUS
        <3>1. p \in RelObject /\ p.kind = "crd"
            BY <2>0, ObjSetIndex DEF NoOpRelease
        <3>2. p \in CRDObject
            BY <3>1, CRDKind
        <3>3. QED
            BY <2>0, <3>2 DEF NoOpRelease, TypeOK, CRDObject
    <2>4. {p \in ObjSet \cap CRDObject : ValidateErrors(cluster[p.name], p.crd) # {}} = {}
        <3> SUFFICES ASSUME NEW p \in ObjSet PROVE ValidateErrors(cluster[p.name], p.crd) = {}
            OBVIOUS
        <3>1. QED
            BY <2>3, NoOpValidates DEF NoOpRelease
    <2>5. {p \in ObjSet \cap CRDObject : CrossVersionErrors(p.crd.versions) # {}}
            = {p \in ObjSet : CrossVersionErrors(p.crd.versions) # {}}
        BY <2>3
    <2>6. QED
        BY <2>0, <2>2, <2>4, <2>5, JoinedReportsAll
<1>2. QED
    BY <1>1, PInvariant, PTL

=============================================================================
