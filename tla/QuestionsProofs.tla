-------------------------- MODULE QuestionsProofs --------------------------
(***************************************************************************)
(* Proofs that questions keep apart from their templates and from each     *)
(* other, that only valid ones are sent, and that a load installs what it  *)
(* read, each name once, for any documents, variables, inputs and objects. *)
(***************************************************************************)
EXTENDS Questions, NatRecursion, TLAPS

USE DEF catalogueVars, serviceVars, vars

-----------------------------------------------------------------------------
(***************************************************************************)
(* Dictionaries.                                                           *)
(***************************************************************************)
LEMMA TemplateType ==
    ASSUME NEW d \in Documents
    PROVE  Template(d) \in Dictionaries /\ Template(d).doc = d
<1>1. d.name \in Names /\ d.defaults \in [VarNames -> Values]
    BY DocumentAssumption
<1>2. [base |-> d.name, uuid |-> 0] \in InstanceNames
    <2>1. 0 \in 0..MaxCalls
        BY BoundAssumption
    <2>2. d.name \in BaseNames
        BY <1>1 DEF BaseNames
    <2> QED
        BY <2>1, <2>2 DEF InstanceNames
<1> QED
    BY <1>1, <1>2 DEF Template, Dictionaries

(* The flag of the answer's keys is apart from the rest of a dictionary.   *)
LEMMA OneTableKeysKeep ==
    ASSUME NEW c \in Dictionaries, NEW b
    PROVE  /\ WithOneTableKeys(c, b) \in Dictionaries
           /\ Asks(WithOneTableKeys(c, b), c)
           /\ WithOneTableKeys(c, b).name = c.name
BY DEF WithOneTableKeys, Dictionaries, Extras, Asks

(***************************************************************************)
(* Every question object is some record, so an update of one field leaves  *)
(* the others as they were.                                                *)
(***************************************************************************)
LEMMA Updates ==
    ASSUME StateTypeOK, NEW q \in Objects, NEW r, Becomes(q, r)
    PROVE  question'[q] = r /\ \A p \in Objects \ {q} : question'[p] = question[p]
BY DEF StateTypeOK, Becomes

-----------------------------------------------------------------------------
(***************************************************************************)
(* Types.                                                                  *)
(***************************************************************************)
LEMMA NoNameType == NoName \in InstanceNames
<1>1. 0 \in 0..MaxCalls
    BY BoundAssumption
<1> QED
    BY <1>1 DEF NoName, InstanceNames, BaseNames

(* The catalogue starts empty, and no object has been made.                *)
LEMMA InitType == Init => StateTypeOK
<1> SUFFICES ASSUME Init PROVE StateTypeOK
    OBVIOUS
<1>1. store \in [Names \cup Objects -> MaybeDictionary]
    BY DEF Init, MaybeDictionary
<1>2. loader \in LoaderType
    BY BoundAssumption DEF Init, LoaderType, NoneLoaded
<1>3. question \in [Objects -> QuestionType]
    <2>1. (CHOOSE o \in Options : TRUE) \in OptionType
        BY OptionAssumption
    <2>2. 0 \in 0..MaxCalls /\ 0 \in 0..MaxWork
        BY BoundAssumption
    <2> QED
        BY <2>1, <2>2, NoNameType DEF Init, QuestionType, Steps, ErrorOf, MaybeDictionary
<1>4. calls \in 0..MaxCalls /\ queued \in 0..MaxWork
    BY BoundAssumption DEF Init
<1>5. uploaded \in [InstanceNames -> MaybeDictionary]
    BY DEF Init, MaybeDictionary
<1>6. work \in [1..MaxWork -> WorkType]
    BY NoNameType DEF Init, WorkType, MaybeDictionary
<1> QED
    BY <1>1, <1>2, <1>3, <1>4, <1>5, <1>6 DEF StateTypeOK

(* A question object that has been made works on a dictionary of its own.   *)
LEMMA OwnDictionary ==
    ASSUME IInv, NEW q \in Objects, question[q].pc # "unmade"
    PROVE  /\ question[q].ref = q /\ Dict(q) = store[q]
           /\ store[q] \in Dictionaries
BY DEF IInv, ObjectInv, Dict

(* An object that goes to another step, or ends, keeps its type.           *)
LEMMA GoesType ==
    ASSUME StateTypeOK, NEW q \in Objects
    PROVE  /\ question[q] \in QuestionType
           /\ \A step \in Steps : Goes(q, step) \in QuestionType
<1>1. question[q] \in QuestionType
    BY DEF StateTypeOK
<1> QED
    BY <1>1 DEF QuestionType, Goes

(* Giving an object a well-typed record keeps all of them well-typed.      *)
LEMMA BecomesType ==
    ASSUME StateTypeOK, NEW q \in Objects, NEW r \in QuestionType, Becomes(q, r)
    PROVE  question' \in [Objects -> QuestionType]
BY DEF StateTypeOK, Becomes

(* What a Set or the like leaves: a dictionary of the same document, under  *)
(* its old name or one without an identifier.                               *)
LEMMA StoreType ==
    ASSUME StateTypeOK, NEW r \in Names \cup Objects, NEW d \in Dictionaries,
           store' = [store EXCEPT ![r] = d]
    PROVE  /\ store' \in [Names \cup Objects -> MaybeDictionary]
           /\ store'[r] = d
           /\ \A p \in (Names \cup Objects) \ {r} : store'[p] = store[p]
BY DEF StateTypeOK, MaybeDictionary

(* The number of calls stays within its bound.                             *)
LEMMA CalledType ==
    ASSUME StateTypeOK, Called
    PROVE  calls' \in 0..MaxCalls /\ calls' = calls + 1
BY BoundAssumption DEF StateTypeOK, Called

-----------------------------------------------------------------------------
(***************************************************************************)
(* Steps by what they have in common, as far as the invariants see.        *)
(***************************************************************************)

(* A call that edits the dictionary of an idle object.                      *)
Edits(q) ==
    /\ question[q].pc = "idle" /\ Called
    /\ \E d \in Dictionaries :
          /\ store' = [store EXCEPT ![q] = d]
          /\ d.doc = store[q].doc
          /\ d.name.uuid \in {store[q].name.uuid, 0}
    /\ UNCHANGED <<loader, question, uploaded, work, queued>>

(* Question.Set of a variable writes the object's own dictionary only.     *)
LEMMA SetVariableEdits ==
    ASSUME IInv, NEW q \in Objects, NEW i \in Inputs, SetVariable(q, i)
    PROVE  Edits(q)
<1>1. question[q].pc = "idle" /\ Called
    BY DEF SetVariable, Idle
<1>2. question[q].ref = q /\ store[q] \in Dictionaries
    BY <1>1, OwnDictionary
<1> DEFINE d == [store[q] EXCEPT !.values[i[1]] = i[2]]
<1>3. i[1] \in VarNames /\ i[2] \in Values
    BY NameAssumption DEF Values
<1>4. d \in Dictionaries /\ d.doc = store[q].doc /\ d.name = store[q].name
    BY <1>2, <1>3 DEF Dictionaries
<1>5. store' = [store EXCEPT ![q] = d]
    BY <1>2 DEF SetVariable
<1> HIDE DEF d
<1> QED
    BY <1>1, <1>4, <1>5 DEF Edits, SetVariable

(* So does Question.Set of question_name.                                  *)
LEMMA SetQuestionNameEdits ==
    ASSUME IInv, NEW q \in Objects, NEW b \in UserNames, SetQuestionName(q, b)
    PROVE  Edits(q)
<1>1. question[q].pc = "idle" /\ Called
    BY DEF SetQuestionName, Idle
<1>2. question[q].ref = q /\ store[q] \in Dictionaries
    BY <1>1, OwnDictionary
<1> DEFINE m == [base |-> b, uuid |-> 0]
           d == [store[q] EXCEPT !.name = m]
<1>3. m \in InstanceNames /\ m.uuid = 0
    <2>1. 0 \in 0..MaxCalls
        BY BoundAssumption
    <2> QED
        BY <2>1 DEF InstanceNames, BaseNames
<1>4. store' = [store EXCEPT ![q] = d]
    BY <1>2 DEF SetQuestionName
<1> HIDE DEF m
<1>5. d \in Dictionaries /\ d.doc = store[q].doc /\ d.name = m
    BY <1>2, <1>3 DEF Dictionaries
<1> HIDE DEF d
<1> QED
    BY <1>1, <1>3, <1>4, <1>5 DEF Edits, SetQuestionName

(* And so do exclusions, assertions and the flag for one table's keys.     *)
LEMMA SetExtrasEdits ==
    ASSUME IInv, NEW q \in Objects,
           \/ SetExclusions(q) \/ SetAssertion(q)
           \/ \E b \in BOOLEAN : SetIncludeOneTableKeys(q, b)
    PROVE  Edits(q)
<1>1. question[q].pc = "idle" /\ Called
    BY DEF SetExclusions, SetAssertion, SetIncludeOneTableKeys, Idle
<1>2. question[q].ref = q /\ store[q] \in Dictionaries
    BY <1>1, OwnDictionary
<1>3. ASSUME NEW x \in Extras, store' = [store EXCEPT ![q].extras = @ \cup {x}],
             UNCHANGED <<loader, question, uploaded, work, queued>>
      PROVE  Edits(q)
    <2> DEFINE d == [store[q] EXCEPT !.extras = @ \cup {x}]
    <2>1. d \in Dictionaries /\ d.doc = store[q].doc /\ d.name = store[q].name
        BY <1>2, <1>3 DEF Dictionaries
    <2>2. store' = [store EXCEPT ![q] = d]
        BY <1>3
    <2> HIDE DEF d
    <2> QED
        BY <1>1, <1>3, <2>1, <2>2 DEF Edits
<1>4. CASE SetExclusions(q)
    BY <1>2, <1>3, <1>4 DEF SetExclusions, Extras
<1>5. CASE SetAssertion(q)
    BY <1>2, <1>3, <1>5 DEF SetAssertion, Extras
<1>6. ASSUME NEW b \in BOOLEAN, SetIncludeOneTableKeys(q, b)
      PROVE  Edits(q)
    <2> DEFINE d == WithOneTableKeys(store[q], b)
    <2>1. d \in Dictionaries /\ Asks(d, store[q]) /\ d.name = store[q].name
        BY <1>2, OneTableKeysKeep
    <2>2. store' = [store EXCEPT ![q] = d]
        BY <1>2, <1>6 DEF SetIncludeOneTableKeys
    <2> HIDE DEF d
    <2> QED
        BY <1>1, <1>6, <2>1, <2>2 DEF Edits, SetIncludeOneTableKeys, Asks
<1> QED
    BY <1>4, <1>5, <1>6

(* A step of the loader leaves the question objects alone.                  *)
LEMMA LoadingSteps ==
    ASSUME IInv, Loading
    PROVE  /\ UNCHANGED <<question, calls, uploaded, work, queued>>
           /\ store' \in [Names \cup Objects -> MaybeDictionary]
           /\ \A q \in Objects : store'[q] = store[q]
           /\ loader' \in LoaderType
           /\ LoadedByName' /\ TemplatesStayAsLoaded'
<1>0. StateTypeOK /\ LoadedByName /\ TemplatesStayAsLoaded
    BY DEF IInv
<1>1. /\ store \in [Names \cup Objects -> MaybeDictionary]
      /\ loader \in LoaderType
    BY <1>0 DEF StateTypeOK
<1>2. ASSUME NEW s \in Sources, Load(s)
      PROVE  loader' \in LoaderType /\ LoadedByName'
    <2>1. s \in Sources /\ DOMAIN Shelf[s] \in SUBSET Nat
        BY DocumentAssumption
    <2>2. loader.loads + 1 \in 0..MaxLoads
        BY <1>1, <1>2, BoundAssumption DEF Load, LoaderType
    <2>3. NoneLoaded \in [Names -> Documents \cup {None}]
        BY DEF NoneLoaded
    <2> QED
        BY <1>2, <2>1, <2>2, <2>3 DEF Load, LoaderType, LoadedByName, NoneLoaded
<1>3. CASE LoadFails
    BY <1>0, <1>1, <1>3 DEF LoadFails, LoaderType, LoadedByName, TemplatesStayAsLoaded
<1>4. ASSUME NEW k \in loader.left, LoadDocument(k)
      PROVE  loader' \in LoaderType /\ LoadedByName'
    <2> DEFINE d == Shelf[loader.src][k]
    <2>1. loader.src \in Sources /\ loader.src # None
        BY <1>1, <1>4 DEF LoadDocument, LoaderType
    <2>2. Shelf[loader.src] \in Seq(Documents) /\ k \in DOMAIN Shelf[loader.src]
        BY <1>0, <2>1, <1>4, DocumentAssumption DEF LoadedByName
    <2>3. d \in Documents
        BY <2>2
    <2>4. d.name \in Names
        BY <2>3, DocumentAssumption
    <2> HIDE DEF d
    <2>5. loader' = [loader EXCEPT !.left = @ \ {k},
                        !.loaded = IF LoadsFrom(d) THEN [@ EXCEPT ![d.name] = d] ELSE @]
        BY <1>4 DEF LoadDocument, d
    <2>6. loader' \in LoaderType
        BY <1>1, <2>3, <2>4, <2>5 DEF LoaderType
    <2>7. loader'.src = loader.src /\ loader'.left \subseteq loader.left
        BY <1>1, <2>5 DEF LoaderType
    <2>8. \A n \in Names : loader'.loaded[n] \in {loader.loaded[n]} \cup
                              (IF n = d.name THEN {d} ELSE {})
        BY <1>1, <2>5, <2>4 DEF LoaderType
    <2> QED
        BY <1>0, <2>6, <2>7, <2>8 DEF LoadedByName
<1>5. CASE Install
    <2>1. loader' \in LoaderType /\ LoadedByName'
        BY <1>1, <1>5 DEF Install, LoaderType, LoadedByName, NoneLoaded
    <2>2. \A n \in Names : store'[n] = IF loader.loaded[n] # None
                                       THEN Template(loader.loaded[n]) ELSE store[n]
        BY <1>1, <1>5 DEF Install, Loaded
    <2>3. \A q \in Objects : store'[q] = store[q]
        BY <1>1, <1>5, NameAssumption DEF Install, Loaded
    <2>4. \A n \in Names : loader.loaded[n] # None =>
              /\ loader.loaded[n] \in Documents
              /\ loader.loaded[n].name = n
              /\ Template(loader.loaded[n]) \in Dictionaries
              /\ Template(loader.loaded[n]).doc = loader.loaded[n]
        BY <1>0, <1>1, TemplateType DEF LoaderType, LoadedByName
    <2>5. \A r \in Names \cup Objects : store'[r] \in MaybeDictionary
        BY <1>1, <2>2, <2>3, <2>4 DEF MaybeDictionary
    <2>6. store' \in [Names \cup Objects -> MaybeDictionary]
        BY <1>1, <1>5, <2>5 DEF Install
    <2>7. TemplatesStayAsLoaded'
        BY <1>0, <2>2, <2>4 DEF TemplatesStayAsLoaded
    <2> QED
        BY <1>5, <2>1, <2>3, <2>6, <2>7 DEF Install
<1>6. ASSUME NEW s \in Sources, Load(s)
      PROVE  UNCHANGED <<question, calls, uploaded, work, queued, store>>
    BY <1>6 DEF Load
<1>7. ASSUME NEW k \in loader.left, LoadDocument(k)
      PROVE  UNCHANGED <<question, calls, uploaded, work, queued, store>>
    BY <1>7 DEF LoadDocument
<1>8. UNCHANGED store => TemplatesStayAsLoaded'
    BY <1>0 DEF TemplatesStayAsLoaded
<1> QED
    BY <1>1, <1>2, <1>3, <1>4, <1>5, <1>6, <1>7, <1>8 DEF Loading, LoadFails

-----------------------------------------------------------------------------
(***************************************************************************)
(* A step of one question object: it keeps the invariant of the object and *)
(* of the service's copy of its question, takes at most the identifier of  *)
(* this very call, and uploads nothing but its own question.               *)
(***************************************************************************)
ObjectStep(q) ==
    /\ StateTypeOK'
    /\ UNCHANGED loader
    /\ \A p \in Objects \ {q} : question'[p] = question[p] /\ store'[p] = store[p]
    /\ \A n \in Names : store'[n] = store[n]
    /\ calls' \in {calls, calls + 1}
    /\ ObjectInv(question'[q], store'[q], q)
    /\ Ids(question'[q], store'[q]) \subseteq
           Ids(question[q], store[q]) \cup (IF calls' = calls THEN {} ELSE {calls'})
    /\ ServiceHas(question[q])'
    /\ \A m \in InstanceNames :
          \/ uploaded'[m] = uploaded[m]
          \/ /\ question[q].pc = "upload" /\ m = question[q].sentAs
             /\ Valid(uploaded'[m])

(* The identifiers an object may have at the service are numbers.          *)
LEMMA IdsAreNumbers ==
    ASSUME IInv, NEW q \in Objects
    PROVE  Ids(question[q], store[q]) \subseteq Nat
<1>1. question[q] \in QuestionType
    BY GoesType DEF IInv
<1>2. /\ question[q].call \in Nat
      /\ question[q].sentAs.uuid \in Nat
    BY <1>1 DEF QuestionType, InstanceNames
<1>3. CASE question[q].pc = "unmade"
    BY <1>3 DEF Ids
<1>4. CASE question[q].pc # "unmade"
    <2>1. store[q].name.uuid \in Nat
        BY <1>4, OwnDictionary DEF Dictionaries, InstanceNames
    <2> QED
        BY <1>2, <1>4, <2>1 DEF Ids
<1> QED
    BY <1>3, <1>4

(* What an object may do keeps the invariant of all others.                *)
LEMMA ObjectStepKeeps ==
    ASSUME IInv, NEW q \in Objects, ObjectStep(q)
    PROVE  IInv'
<1>1. StateTypeOK' /\ LoadedByName' /\ TemplatesStayAsLoaded'
    BY DEF IInv, ObjectStep, LoadedByName, TemplatesStayAsLoaded
<1>2. \A p \in Objects : ObjectInv(question'[p], store'[p], p)
    BY DEF IInv, ObjectStep
<1>3. IdentifiersApart'
    <2>1. /\ calls \in Nat /\ calls' \in {calls, calls + 1}
          /\ \A p \in Objects : Ids(question[p], store[p]) \subseteq Nat
        BY IdsAreNumbers, BoundAssumption DEF IInv, StateTypeOK, ObjectStep
    <2>2. \A p \in Objects \ {q} :
              Ids(question'[p], store'[p]) = Ids(question[p], store[p])
        BY DEF ObjectStep
    <2>3. \A k \in Ids(question'[q], store'[q]) :
              \/ k \in Ids(question[q], store[q])
              \/ k = calls' /\ calls' = calls + 1
        BY <2>1 DEF ObjectStep
    <2>4. \A p \in Objects : \A k \in Ids(question[p], store[p]) :
              k <= calls /\ k # calls + 1 /\ k <= calls'
        BY <2>1 DEF IInv, IdentifiersApart
    <2>5. \A p, r \in Objects : p # r =>
              Ids(question[p], store[p]) \cap Ids(question[r], store[r]) = {}
        BY DEF IInv, IdentifiersApart
    <2>6. \A p \in Objects : \A k \in Ids(question'[p], store'[p]) : k <= calls'
        BY <2>1, <2>2, <2>3, <2>4
    <2>7. ASSUME NEW p \in Objects \ {q}
          PROVE  Ids(question'[q], store'[q]) \cap Ids(question'[p], store'[p]) = {}
        <3>1. \A k \in Ids(question[p], store[p]) :
                  k # calls + 1 /\ k \notin Ids(question[q], store[q])
            BY <2>4, <2>5
        <3> QED
            BY <3>1, <2>2, <2>3
    <2>8. \A p, r \in Objects : p # r =>
              Ids(question'[p], store'[p]) \cap Ids(question'[r], store'[r]) = {}
        BY <2>2, <2>5, <2>7
    <2> QED
        BY <2>6, <2>8 DEF IdentifiersApart
<1>4. ASSUME NEW p \in Objects PROVE ServiceHas(question[p])'
    <2>1. CASE p = q
        BY <2>1 DEF ObjectStep
    <2>2. CASE p # q
        <3> SUFFICES ASSUME question[p].pc \in Sending \ {"upload"},
                            question[p].sentAs.uuid # 0
                     PROVE  uploaded'[question[p].sentAs] = question[p].json
            BY <2>2 DEF ObjectStep, ServiceHas
        <3>1. uploaded[question[p].sentAs] = question[p].json
            BY DEF IInv, ServiceHas
        <3>2. question[p].sentAs \in InstanceNames
            BY GoesType DEF IInv, QuestionType
        <3>3. question[p].sentAs.uuid \in Ids(question[p], store[p])
            BY DEF Ids, Sending
        <3>4. question[q].pc = "upload" /\ question[q].sentAs = question[p].sentAs
              => question[p].sentAs.uuid \in Ids(question[q], store[q])
            BY DEF Ids
        <3>5. Ids(question[p], store[p]) \cap Ids(question[q], store[q]) = {}
            BY <2>2 DEF IInv, IdentifiersApart
        <3> QED
            BY <3>1, <3>2, <3>3, <3>4, <3>5 DEF ObjectStep
    <2> QED
        BY <2>1, <2>2
<1>5. \A m \in InstanceNames : uploaded'[m] # None => Valid(uploaded'[m])
    BY DEF IInv, ObjectStep
<1> QED
    BY <1>1, <1>2, <1>3, <1>4, <1>5 DEF IInv

(* A step that changes the record of the object only.                       *)
LEMMA RecordStep ==
    ASSUME IInv, NEW q \in Objects, NEW r \in QuestionType, Becomes(q, r),
           UNCHANGED <<store, loader, uploaded>>,
           work' \in [1..MaxWork -> WorkType] /\ queued' \in 0..MaxWork,
           calls' \in 0..MaxCalls /\ calls' \in {calls, calls + 1},
           ObjectInv(r, store[q], q), ServiceHas(r),
           Ids(r, store[q]) \subseteq Ids(question[q], store[q]) \cup
               (IF calls' = calls THEN {} ELSE {calls'})
    PROVE  ObjectStep(q)
<1>1. StateTypeOK
    BY DEF IInv
<1>2. question'[q] = r /\ \A p \in Objects \ {q} : question'[p] = question[p]
    BY <1>1, Updates
<1>3. question' \in [Objects -> QuestionType]
    BY <1>1, BecomesType
<1>4. StateTypeOK'
    BY <1>1, <1>3 DEF StateTypeOK
<1>5. ServiceHas(question[q])'
    BY <1>2 DEF ServiceHas
<1> QED
    BY <1>2, <1>4, <1>5 DEF ObjectStep

(* The steps above are steps of this kind; the next lemmas show the same   *)
(* of every other action of an object.                                     *)
LEMMA EditsStep ==
    ASSUME IInv, NEW q \in Objects, Edits(q)
    PROVE  ObjectStep(q)
<1>1. StateTypeOK /\ question[q] \in QuestionType
    BY GoesType DEF IInv
<1>2. PICK d \in Dictionaries :
          /\ store' = [store EXCEPT ![q] = d]
          /\ d.doc = store[q].doc
          /\ d.name.uuid \in {store[q].name.uuid, 0}
    BY DEF Edits
<1>3. /\ store' \in [Names \cup Objects -> MaybeDictionary]
      /\ store'[q] = d
      /\ \A p \in (Names \cup Objects) \ {q} : store'[p] = store[p]
    BY <1>1, <1>2, StoreType
<1>4. calls' \in 0..MaxCalls /\ calls' = calls + 1
    BY <1>1, CalledType DEF Edits
<1>5. StateTypeOK'
    BY <1>1, <1>3, <1>4 DEF StateTypeOK, Edits
<1>6. /\ \A p \in Objects \ {q} : store'[p] = store[p]
      /\ \A n \in Names : store'[n] = store[n]
    BY <1>3, NameAssumption
<1>7. ObjectInv(question'[q], store'[q], q)
    BY <1>3 DEF IInv, ObjectInv, Edits, Sending
<1>8. Ids(question'[q], store'[q]) \subseteq Ids(question[q], store[q])
    BY <1>2, <1>3 DEF Ids, Edits
<1>9. ServiceHas(question[q])'
    BY DEF IInv, ServiceHas, Edits
<1> QED
    BY <1>4, <1>5, <1>6, <1>7, <1>8, <1>9 DEF ObjectStep, Edits

(* Making an object: its copy of the template is its own, its identifier   *)
(* fresh.                                                                  *)
LEMMA NewStep ==
    ASSUME IInv, NEW q \in Objects, NEW n \in Names, New(q, n)
    PROVE  ObjectStep(q)
<1> DEFINE m == [base |-> store[n].name.base, uuid |-> calls']
           d == [store[n] EXCEPT !.name = m]
           r == [Goes(q, "idle") EXCEPT !.ref = q]
<1>1. StateTypeOK /\ question[q] \in QuestionType /\ question[q].pc = "unmade"
    BY GoesType DEF IInv, New
<1>2. calls' \in 0..MaxCalls /\ calls' = calls + 1
    BY <1>1, CalledType DEF New
<1>3. store[n] \in Dictionaries
    BY <1>1 DEF New, StateTypeOK, MaybeDictionary
<1>4. m \in InstanceNames /\ m.uuid = calls'
    BY <1>2, <1>3 DEF Dictionaries, InstanceNames
<1>5. store' = [store EXCEPT ![q] = d]
    BY DEF New
<1> HIDE DEF m
<1>6. d \in Dictionaries /\ d.name = m
    BY <1>3, <1>4 DEF Dictionaries
<1> HIDE DEF d
<1>7. /\ store' \in [Names \cup Objects -> MaybeDictionary]
      /\ store'[q] = d
      /\ \A p \in (Names \cup Objects) \ {q} : store'[p] = store[p]
    BY <1>1, <1>5, <1>6, StoreType
<1>8. r \in QuestionType /\ Becomes(q, r)
    BY <1>1, GoesType DEF QuestionType, New, Steps
<1>9. r = [question[q] EXCEPT !.pc = "idle", !.ref = q]
    BY <1>1 DEF Goes, QuestionType
<1>10. /\ r.pc = "idle" /\ r.ref = q /\ r.call = 0 /\ r.sentAs = NoName
       /\ r.got = None
    BY <1>1, <1>9, ZenonT(60) DEF QuestionType, IInv, ObjectInv
<1> HIDE DEF r
<1>11. question'[q] = r /\ \A p \in Objects \ {q} : question'[p] = question[p]
    BY <1>1, <1>8, Updates
<1>12. question' \in [Objects -> QuestionType]
    BY <1>1, <1>8, BecomesType
<1>13. StateTypeOK'
    BY <1>1, <1>2, <1>7, <1>12 DEF StateTypeOK, New
<1>14. /\ \A p \in Objects \ {q} : store'[p] = store[p]
       /\ \A x \in Names : store'[x] = store[x]
    BY <1>7, NameAssumption
<1>15. ObjectInv(question'[q], store'[q], q)
    BY <1>6, <1>7, <1>10, <1>11 DEF ObjectInv, Sending
<1>16. Ids(question'[q], store'[q]) \subseteq {calls'}
    <2>0. NoName.uuid = 0
        BY DEF NoName
    <2>1. r.sentAs.uuid = 0
        BY <1>10, <2>0
    <2>2. Ids(question'[q], store'[q]) = {d.name.uuid, r.call, r.sentAs.uuid} \ {0}
        BY <1>7, <1>10, <1>11 DEF Ids
    <2> QED
        BY <1>4, <1>6, <1>10, <2>1, <2>2
<1>17. ServiceHas(question[q])'
    BY <1>10, <1>11 DEF ServiceHas, Sending
<1>18. calls' # calls
    BY <1>1, <1>2, BoundAssumption DEF StateTypeOK
<1> QED
    BY <1>2, <1>11, <1>13, <1>14, <1>15, <1>16, <1>17, <1>18 DEF ObjectStep, New

(* A variable that the template does not have: the error sticks.           *)
LEMMA SetUnsupportedStep ==
    ASSUME IInv, NEW q \in Objects, NEW i \in Inputs, SetUnsupported(q, i)
    PROVE  ObjectStep(q)
<1> DEFINE r == [question[q] EXCEPT !.err = i[1]]
<1>1. StateTypeOK /\ question[q] \in QuestionType /\ question[q].pc = "idle"
    BY GoesType DEF IInv, SetUnsupported, Idle
<1>2. calls' \in 0..MaxCalls /\ calls' = calls + 1
    BY <1>1, CalledType DEF SetUnsupported
<1>3. r \in QuestionType /\ Becomes(q, r)
    BY <1>1 DEF QuestionType, ErrorOf, SetUnsupported
<1>4. /\ r.pc = "idle" /\ r.ref = question[q].ref /\ r.call = question[q].call
      /\ r.sentAs = question[q].sentAs /\ r.got = question[q].got
      /\ r.asked = question[q].asked
    BY <1>1 DEF QuestionType
<1> HIDE DEF r
<1>5. ObjectInv(r, store[q], q) /\ ServiceHas(r)
    BY <1>1, <1>4 DEF IInv, ObjectInv, ServiceHas, Sending
<1>6. Ids(r, store[q]) = Ids(question[q], store[q])
    BY <1>1, <1>4 DEF Ids
<1>7. work' \in [1..MaxWork -> WorkType] /\ queued' \in 0..MaxWork
    BY <1>1 DEF StateTypeOK, SetUnsupported
<1> QED
    BY <1>2, <1>3, <1>5, <1>6, <1>7, RecordStep DEF SetUnsupported

(* The checks before validation; what will be asked is fixed here.         *)
LEMMA AnswerStep ==
    ASSUME IInv, NEW q \in Objects, NEW o \in Options, Answer(q, o)
    PROVE  ObjectStep(q)
<1> DEFINE r == [Goes(q, "validate") EXCEPT
                   !.todo = Declared(q), !.valid = TRUE, !.opts = o, !.json = None,
                   !.call = calls', !.item = 0, !.asked = Dict(q), !.got = None]
<1>1. StateTypeOK /\ question[q] \in QuestionType /\ question[q].pc = "idle"
    BY GoesType DEF IInv, Answer, Idle
<1>2. calls' \in 0..MaxCalls /\ calls' = calls + 1
    BY <1>1, CalledType DEF Answer
<1>3. question[q].ref = q /\ Dict(q) = store[q] /\ store[q] \in Dictionaries
    BY <1>1, OwnDictionary
<1>4. /\ o \in OptionType
      /\ 0 \in 0..MaxWork
      /\ Declared(q) \in SUBSET VarNames
      /\ Dict(q) \in MaybeDictionary /\ None \in MaybeDictionary
      /\ Goes(q, "validate") \in QuestionType
    <2>1. o \in OptionType
        BY OptionAssumption
    <2>2. 0 \in 0..MaxWork
        BY BoundAssumption
    <2>3. Declared(q) \in SUBSET VarNames
        BY DEF Declared
    <2>4. Dict(q) \in MaybeDictionary /\ None \in MaybeDictionary
        BY <1>3 DEF MaybeDictionary
    <2>5. Goes(q, "validate") \in QuestionType
        BY <1>1, GoesType DEF Steps
    <2> QED
        BY <2>1, <2>2, <2>3, <2>4, <2>5
<1>5. r \in QuestionType /\ Becomes(q, r)
    <2>1. r \in QuestionType
        BY <1>2, <1>4 DEF QuestionType
    <2>2. Becomes(q, r)
        BY DEF Answer
    <2> QED
        BY <2>1, <2>2
<1>6. /\ r.pc = "validate" /\ r.ref = q /\ r.err = None /\ r.call = calls'
      /\ r.sentAs = question[q].sentAs /\ r.got = None /\ r.asked = store[q]
      /\ r.todo = Declared(q) /\ r.opts = o
    BY <1>1, <1>3 DEF QuestionType, Goes, Answer
<1> HIDE DEF r
<1>7. Validating(r, store[q])
    BY <1>3, <1>6 DEF Validating, Declared, Answer
<1>8. ObjectInv(r, store[q], q) /\ ServiceHas(r)
    BY <1>3, <1>6, <1>7 DEF ObjectInv, ServiceHas, Sending
<1>9. Ids(r, store[q]) \subseteq Ids(question[q], store[q]) \cup {calls'}
    BY <1>1, <1>6 DEF Ids
<1>10. calls' # calls
    BY <1>1, <1>2, BoundAssumption DEF StateTypeOK
<1>11. work' \in [1..MaxWork -> WorkType] /\ queued' \in 0..MaxWork
    BY <1>1 DEF StateTypeOK, Answer
<1> QED
    BY <1>2, <1>5, <1>8, <1>9, <1>10, <1>11, RecordStep DEF Answer

(* One turn of validation: the variable visited is accepted.               *)
LEMMA CheckStep ==
    ASSUME IInv, NEW q \in Objects, NEW v \in VarNames, Check(q, v)
    PROVE  ObjectStep(q)
<1> DEFINE ok == VariableAccepted(Dict(q).doc.declared[v], Dict(q).values[v])
           b == question[q].valid /\ ok
           r == [question[q] EXCEPT !.todo = @ \ {v}, !.valid = b]
<1>1. StateTypeOK /\ question[q] \in QuestionType /\ question[q].pc = "validate"
    BY GoesType DEF IInv, Check
<1>2. question[q].ref = q /\ Dict(q) = store[q] /\ store[q] \in Dictionaries
    BY <1>1, OwnDictionary
<1>3. Becomes(q, r)
    BY DEF Check
<1>4. b \in BOOLEAN /\ (b => question[q].valid /\ ok)
    OBVIOUS
<1> HIDE DEF b
<1>5. /\ r \in QuestionType
      /\ r.pc = "validate" /\ r.ref = q /\ r.err = question[q].err
      /\ r.call = question[q].call /\ r.sentAs = question[q].sentAs
      /\ r.got = question[q].got /\ r.asked = question[q].asked
      /\ r.todo = question[q].todo \ {v} /\ r.valid = b /\ r.opts = question[q].opts
    BY <1>1, <1>2, <1>4 DEF QuestionType
<1> HIDE DEF r
<1>6. Validating(question[q], store[q]) /\ question[q].got = None
      /\ question[q].err = None
    BY <1>1 DEF IInv, ObjectInv
<1>7. Validating(r, store[q])
    <2>1. r.valid => \A u \in VarNames \ r.todo : store[q].values[u] # Undeclared =>
                        VariableAccepted(store[q].doc.declared[u], store[q].values[u])
        <3> SUFFICES ASSUME r.valid, NEW u \in VarNames \ r.todo,
                            store[q].values[u] # Undeclared
                     PROVE  VariableAccepted(store[q].doc.declared[u], store[q].values[u])
            OBVIOUS
        <3>1. CASE u = v
            BY <1>2, <1>4, <1>5, <3>1
        <3>2. CASE u # v
            BY <1>4, <1>5, <1>6, <3>2 DEF Validating
        <3> QED
            BY <3>1, <3>2
    <2> QED
        BY <1>5, <1>6, <2>1 DEF Validating
<1>8. ObjectInv(r, store[q], q) /\ ServiceHas(r)
    BY <1>2, <1>5, <1>6, <1>7 DEF ObjectInv, ServiceHas, Sending
<1>9. Ids(r, store[q]) = Ids(question[q], store[q])
    BY <1>1, <1>5 DEF Ids
<1>10. /\ work' \in [1..MaxWork -> WorkType] /\ queued' \in 0..MaxWork
       /\ calls' \in 0..MaxCalls /\ calls' = calls
    BY <1>1 DEF StateTypeOK, Check
<1> QED
    BY <1>3, <1>5, <1>8, <1>9, <1>10, RecordStep DEF Check

(* A call that only moves on, back to idle or from one request to the next. *)
LEMMA MovesOnStep ==
    ASSUME IInv, NEW q \in Objects, Invalid(q) \/ Fail(q) \/ Poll(q)
    PROVE  ObjectStep(q)
<1>1. StateTypeOK /\ question[q] \in QuestionType /\ question[q].pc # "unmade"
    BY GoesType DEF IInv, Invalid, Fail, Poll
<1>2. PICK step \in {"idle", "fetch"} :
          /\ Becomes(q, Goes(q, step))
          /\ step = "fetch" => question[q].pc = "wait"
    BY DEF Invalid, Fail, Poll
<1> DEFINE r == Goes(q, step)
<1>3. r \in QuestionType
    BY <1>1, GoesType DEF Steps
<1>4. /\ r.pc = step /\ r.ref = question[q].ref /\ r.err = question[q].err
      /\ r.call = question[q].call /\ r.sentAs = question[q].sentAs
      /\ r.got = question[q].got /\ r.asked = question[q].asked
      /\ r.json = question[q].json /\ r.opts = question[q].opts
    BY <1>1 DEF Goes, QuestionType
<1> HIDE DEF r
<1>5. ObjectInv(question[q], store[q], q) /\ ServiceHas(question[q])
    BY DEF IInv
<1>6. question[q].pc = "wait" => SendingValid(question[q])
    BY <1>5 DEF ObjectInv, Sending
<1>7. question[q].pc = "wait" => SendingValid(r)
    BY <1>4, <1>6 DEF SendingValid
<1>8. ObjectInv(r, store[q], q)
    BY <1>1, <1>2, <1>4, <1>5, <1>7 DEF ObjectInv, Sending
<1>9. ServiceHas(r)
    BY <1>2, <1>4, <1>5 DEF ServiceHas, Sending
<1>10. Ids(r, store[q]) = Ids(question[q], store[q])
    BY <1>1, <1>2, <1>4 DEF Ids
<1>11. UNCHANGED <<store, loader, calls, uploaded, work, queued>>
    BY DEF Invalid, Fail, Poll
<1>12. /\ work' \in [1..MaxWork -> WorkType] /\ queued' \in 0..MaxWork
       /\ calls' \in 0..MaxCalls
    BY <1>1, <1>11 DEF StateTypeOK
<1>13. Becomes(q, r)
    BY <1>2 DEF r
<1> QED
    BY <1>3, <1>8, <1>9, <1>10, <1>11, <1>12, <1>13, RecordStep

(* The answer that is fetched is the one to the question asked.            *)
LEMMA FetchStep ==
    ASSUME IInv, NEW q \in Objects, Fetch(q)
    PROVE  ObjectStep(q)
<1> DEFINE c == uploaded[question[q].sentAs]
           r == [Goes(q, "idle") EXCEPT !.got = c]
<1>1. StateTypeOK /\ question[q] \in QuestionType /\ question[q].pc = "fetch"
    BY GoesType DEF IInv, Fetch
<1>2. Becomes(q, r)
    BY DEF Fetch
<1>3. c \in MaybeDictionary
    BY <1>1 DEF StateTypeOK, QuestionType
<1>4. question[q].sentAs.uuid # 0 => c = question[q].json
    BY <1>1 DEF IInv, ServiceHas, Sending
<1> HIDE DEF c
<1>5. r \in QuestionType
    BY <1>1, <1>3, GoesType DEF QuestionType, Steps
<1>6. /\ r.pc = "idle" /\ r.ref = question[q].ref
      /\ r.call = question[q].call /\ r.sentAs = question[q].sentAs
      /\ r.got = c /\ r.asked = question[q].asked
    BY <1>1 DEF Goes, QuestionType
<1> HIDE DEF r
<1>7. ObjectInv(question[q], store[q], q)
    BY DEF IInv
<1>8. Asks(question[q].json, question[q].asked)
    BY <1>1, <1>7 DEF ObjectInv, Sending, SendingValid
<1>9. ObjectInv(r, store[q], q) /\ ServiceHas(r)
    BY <1>1, <1>4, <1>6, <1>7, <1>8 DEF ObjectInv, ServiceHas, Sending
<1>10. Ids(r, store[q]) = Ids(question[q], store[q])
    BY <1>1, <1>6 DEF Ids
<1>11. /\ work' \in [1..MaxWork -> WorkType] /\ queued' \in 0..MaxWork
       /\ calls' \in 0..MaxCalls /\ calls' = calls
    BY <1>1 DEF StateTypeOK, Fetch
<1> QED
    BY <1>2, <1>5, <1>9, <1>10, <1>11, RecordStep DEF Fetch

(* Queueing work for the question that was uploaded.                       *)
LEMMA QueueStep ==
    ASSUME IInv, NEW q \in Objects, Queue(q)
    PROVE  ObjectStep(q)
<1>1. StateTypeOK /\ question[q] \in QuestionType /\ question[q].pc = "queue"
    BY GoesType DEF IInv, Queue
<1>2. PICK step \in {"wait", "idle"} :
          Becomes(q, [Goes(q, step) EXCEPT !.item = queued + 1])
    BY DEF Queue
<1> DEFINE k == queued + 1
           r == [Goes(q, step) EXCEPT !.item = k]
<1>3. queued' = k /\ k \in 0..MaxWork /\ k \in 1..MaxWork
    <2>1. queued \in 0..MaxWork /\ queued < MaxWork /\ queued' = queued + 1
        BY <1>1 DEF StateTypeOK, Queue
    <2> QED
        BY <2>1, BoundAssumption
<1> HIDE DEF k
<1>4. r \in QuestionType
    BY <1>1, <1>3, GoesType DEF QuestionType, Steps
<1>5. /\ r.pc = step /\ r.ref = question[q].ref /\ r.err = question[q].err
      /\ r.call = question[q].call /\ r.sentAs = question[q].sentAs
      /\ r.got = question[q].got /\ r.asked = question[q].asked
      /\ r.json = question[q].json /\ r.opts = question[q].opts
    BY <1>1 DEF Goes, QuestionType
<1>6. Becomes(q, r)
    BY <1>2 DEF k
<1> HIDE DEF r
<1>7. ObjectInv(question[q], store[q], q) /\ ServiceHas(question[q])
    BY DEF IInv
<1>8. SendingValid(question[q])
    BY <1>1, <1>7 DEF ObjectInv, Sending
<1>9. SendingValid(r)
    BY <1>5, <1>8 DEF SendingValid
<1>10. ObjectInv(r, store[q], q)
    BY <1>1, <1>5, <1>7, <1>9 DEF ObjectInv, Sending
<1>11. ServiceHas(r)
    BY <1>1, <1>5, <1>7 DEF ServiceHas, Sending
<1>12. Ids(r, store[q]) = Ids(question[q], store[q])
    BY <1>1, <1>5 DEF Ids
<1>13. work' \in [1..MaxWork -> WorkType]
    <2> DEFINE sn == GetSnapshot(question[q].opts)
               w == [name |-> question[q].sentAs, snapshot |-> sn,
                     reference |-> question[q].opts.reference,
                     content |-> None, status |-> "running"]
    <2>1. question[q].opts \in OptionType
        BY <1>1 DEF QuestionType
    <2>2. sn \in Snapshots \cup {None}
        BY <2>1, OptionAssumption DEF OptionType, GetSnapshot, Queue
    <2>3. work' = [work EXCEPT ![k] = w]
        BY DEF Queue, k
    <2> HIDE DEF sn
    <2>4. w \in WorkType
        BY <1>1, <2>1, <2>2 DEF WorkType, QuestionType, OptionType, MaybeDictionary
    <2> HIDE DEF w
    <2> QED
        BY <1>1, <1>3, <2>3, <2>4 DEF StateTypeOK
<1>14. calls' \in 0..MaxCalls /\ calls' = calls
    BY <1>1 DEF StateTypeOK, Queue
<1> QED
    BY <1>3, <1>4, <1>6, <1>10, <1>11, <1>12, <1>13, <1>14, RecordStep DEF Queue

(* The upload reaches a name that no other object uses.                    *)
LEMMA UploadStep ==
    ASSUME IInv, NEW q \in Objects, Upload(q)
    PROVE  ObjectStep(q)
<1>1. StateTypeOK /\ question[q] \in QuestionType /\ question[q].pc = "upload"
    BY GoesType DEF IInv, Upload
<1>2. PICK step \in {"queue", "idle"} : Becomes(q, Goes(q, step))
    BY DEF Upload
<1> DEFINE r == Goes(q, step)
<1>3. r \in QuestionType
    BY <1>1, GoesType DEF Steps
<1>4. /\ r.pc = step /\ r.ref = question[q].ref /\ r.err = question[q].err
      /\ r.call = question[q].call /\ r.sentAs = question[q].sentAs
      /\ r.got = question[q].got /\ r.asked = question[q].asked
      /\ r.json = question[q].json /\ r.opts = question[q].opts
    BY <1>1 DEF Goes, QuestionType
<1>5. Becomes(q, r)
    BY <1>2
<1> HIDE DEF r
<1>6. ObjectInv(question[q], store[q], q) /\ SendingValid(question[q])
    BY <1>1 DEF IInv, ObjectInv, Sending
<1>7. ObjectInv(r, store[q], q)
    <2>1. SendingValid(r)
        BY <1>4, <1>6 DEF SendingValid
    <2> QED
        BY <1>1, <1>4, <1>6, <2>1 DEF ObjectInv, Sending
<1>8. Ids(r, store[q]) = Ids(question[q], store[q])
    BY <1>1, <1>4 DEF Ids
<1>9. question'[q] = r /\ \A p \in Objects \ {q} : question'[p] = question[p]
    BY <1>1, <1>5, Updates
<1>10. question' \in [Objects -> QuestionType]
    BY <1>1, <1>3, <1>5, BecomesType
<1>11. /\ question[q].json \in Dictionaries /\ Valid(question[q].json)
       /\ question[q].sentAs \in InstanceNames
    BY <1>1, <1>6 DEF SendingValid, QuestionType
<1>12. /\ uploaded' \in [InstanceNames -> MaybeDictionary]
       /\ uploaded'[question[q].sentAs] = question[q].json
       /\ \A m \in InstanceNames \ {question[q].sentAs} : uploaded'[m] = uploaded[m]
    BY <1>1, <1>11 DEF Upload, StateTypeOK, MaybeDictionary
<1>13. StateTypeOK'
    BY <1>1, <1>10, <1>12 DEF StateTypeOK, Upload
<1>14. ServiceHas(question[q])'
    BY <1>4, <1>9, <1>12 DEF ServiceHas
<1>15. \A m \in InstanceNames :
          \/ uploaded'[m] = uploaded[m]
          \/ /\ question[q].pc = "upload" /\ m = question[q].sentAs
             /\ Valid(uploaded'[m])
    BY <1>1, <1>11, <1>12
<1> QED
    BY <1>7, <1>8, <1>9, <1>13, <1>14, <1>15 DEF ObjectStep, Upload

(* The end of validation: all variables were visited.                      *)
LEMMA PrepareStep ==
    ASSUME IInv, NEW q \in Objects, Prepare(q)
    PROVE  ObjectStep(q)
<1> DEFINE c == WithOneTableKeys(Dict(q), question[q].opts.oneTable)
           m == IF c.name = NoName THEN [base |-> "", uuid |-> question[q].call]
                ELSE c.name
           r == [Goes(q, "upload") EXCEPT !.json = c, !.sentAs = m]
<1>1. /\ StateTypeOK /\ question[q] \in QuestionType
      /\ question[q].pc = "validate" /\ question[q].todo = {} /\ question[q].valid
    BY GoesType DEF IInv, Prepare
<1>2. question[q].ref = q /\ Dict(q) = store[q] /\ store[q] \in Dictionaries
    BY <1>1, OwnDictionary
<1>3. c \in Dictionaries /\ Asks(c, store[q]) /\ c.name = store[q].name
    BY <1>2, OneTableKeysKeep
<1>4. m \in InstanceNames /\ m.uuid \in {question[q].call, store[q].name.uuid}
    <2>1. question[q].call \in 0..MaxCalls /\ "" \in BaseNames
        BY <1>1 DEF QuestionType, BaseNames
    <2>2. [base |-> "", uuid |-> question[q].call] \in InstanceNames
        BY <2>1 DEF InstanceNames
    <2>3. c.name \in InstanceNames
        BY <1>3 DEF Dictionaries
    <2> QED
        BY <1>3, <2>2, <2>3
<1>5. store' = [store EXCEPT ![q] = c] /\ Becomes(q, r)
    BY <1>2 DEF Prepare
<1> HIDE DEF c, m
<1>6. r \in QuestionType
    <2>1. Goes(q, "upload") \in QuestionType
        BY <1>1, GoesType DEF Steps
    <2>2. c \in MaybeDictionary /\ m \in InstanceNames
        BY <1>3, <1>4 DEF MaybeDictionary
    <2> QED
        BY <2>1, <2>2 DEF QuestionType
<1>7. /\ r.pc = "upload" /\ r.ref = q /\ r.err = question[q].err
      /\ r.call = question[q].call /\ r.sentAs = m /\ r.json = c
      /\ r.got = question[q].got /\ r.asked = question[q].asked
      /\ r.opts = question[q].opts
    BY <1>1, <1>2 DEF Goes, QuestionType
<1> HIDE DEF r
<1>8. /\ store' \in [Names \cup Objects -> MaybeDictionary]
      /\ store'[q] = c
      /\ \A p \in (Names \cup Objects) \ {q} : store'[p] = store[p]
    BY <1>1, <1>3, <1>5, StoreType
<1>9. /\ \A p \in Objects \ {q} : store'[p] = store[p]
      /\ \A n \in Names : store'[n] = store[n]
    BY <1>8, NameAssumption
<1>10. question'[q] = r /\ \A p \in Objects \ {q} : question'[p] = question[p]
    BY <1>1, <1>5, Updates
<1>11. question' \in [Objects -> QuestionType]
    BY <1>1, <1>5, <1>6, BecomesType
<1>12. StateTypeOK'
    BY <1>1, <1>8, <1>11 DEF StateTypeOK, Prepare
<1>13. /\ Validating(question[q], store[q])
       /\ question[q].got = None /\ question[q].err = None
    BY <1>1 DEF IInv, ObjectInv
<1>14. Valid(store[q])
    BY <1>1, <1>13 DEF Validating, Valid
<1>15. SendingValid(r)
    BY <1>3, <1>7, <1>13, <1>14 DEF SendingValid, Validating, Asks, Valid
<1>16. ObjectInv(question'[q], store'[q], q)
    BY <1>3, <1>7, <1>8, <1>10, <1>13, <1>15 DEF ObjectInv, Sending
<1>17. Ids(question'[q], store'[q]) \subseteq Ids(question[q], store[q])
    BY <1>1, <1>3, <1>4, <1>7, <1>8, <1>10 DEF Ids
<1>18. ServiceHas(question[q])'
    BY <1>7, <1>10 DEF ServiceHas, Sending
<1> QED
    BY <1>9, <1>10, <1>12, <1>16, <1>17, <1>18 DEF ObjectStep, Prepare

-----------------------------------------------------------------------------
(***************************************************************************)
(* The inductive invariant.                                                *)
(***************************************************************************)
LEMMA InitIInv == Init => IInv
<1> SUFFICES ASSUME Init PROVE IInv
    OBVIOUS
<1>1. StateTypeOK
    BY InitType
<1>2. LoadedByName /\ TemplatesStayAsLoaded
    BY NameAssumption DEF Init, LoadedByName, TemplatesStayAsLoaded, NoneLoaded
<1>3. \A q \in Objects : ObjectInv(question[q], store[q], q) /\ ServiceHas(question[q])
    BY DEF Init, ObjectInv, ServiceHas, Sending
<1>4. IdentifiersApart
    BY DEF Init, IdentifiersApart, Ids
<1>5. \A n \in InstanceNames : uploaded[n] = None
    BY DEF Init
<1> QED
    BY <1>1, <1>2, <1>3, <1>4, <1>5 DEF IInv

(* The service runs or drops a work item.                                  *)
LEMMA ExecuteKeeps ==
    ASSUME IInv, NEW w \in 1..MaxWork, NEW s \in {"done", "failed", "byUser"},
           Execute(w, s)
    PROVE  IInv'
<1>1. work' \in [1..MaxWork -> WorkType]
    <2> DEFINE c == IF s = "done" THEN uploaded[work[w].name] ELSE None
    <2>1. work[w] \in WorkType
        BY DEF IInv, StateTypeOK
    <2>2. c \in MaybeDictionary
        BY <2>1 DEF IInv, StateTypeOK, WorkType, MaybeDictionary
    <2>3. work' = [work EXCEPT ![w] = [work[w] EXCEPT !.status = s, !.content = c]]
        BY DEF Execute
    <2> HIDE DEF c
    <2>4. [work[w] EXCEPT !.status = s, !.content = c] \in WorkType
        BY <2>1, <2>2 DEF WorkType
    <2> QED
        BY <2>3, <2>4 DEF IInv, StateTypeOK
<1>2. UNCHANGED <<store, loader, question, calls, uploaded, queued>>
    BY DEF Execute
<1> QED
    BY <1>1, <1>2 DEF IInv, StateTypeOK, LoadedByName, TemplatesStayAsLoaded,
                      ServiceHas, IdentifiersApart

(* Loading templates touches no object and no question at the service.     *)
LEMMA LoadingKeeps ==
    ASSUME IInv, Loading
    PROVE  IInv'
<1>1. /\ UNCHANGED <<question, calls, uploaded, work, queued>>
      /\ store' \in [Names \cup Objects -> MaybeDictionary]
      /\ \A q \in Objects : store'[q] = store[q]
      /\ loader' \in LoaderType
      /\ LoadedByName' /\ TemplatesStayAsLoaded'
    BY LoadingSteps
<1> QED
    BY <1>1 DEF IInv, StateTypeOK, ServiceHas, IdentifiersApart

(* Nothing happens.                                                        *)
LEMMA StutterKeeps ==
    ASSUME IInv, UNCHANGED vars
    PROVE  IInv'
BY DEF IInv, StateTypeOK, LoadedByName, TemplatesStayAsLoaded, ServiceHas,
       IdentifiersApart

(* Every action of an object is a step of the kind that keeps IInv.        *)
LEMMA ObjectSteps ==
    ASSUME IInv, NEW q \in Objects, Using(q) \/ Answering(q)
    PROVE  ObjectStep(q)
<1>1. CASE Using(q)
    BY <1>1, NewStep, SetVariableEdits, SetUnsupportedStep, SetQuestionNameEdits,
       SetExtrasEdits, EditsStep DEF Using
<1>2. CASE Answering(q)
    BY <1>2, AnswerStep, CheckStep, MovesOnStep, PrepareStep, UploadStep, QueueStep,
       FetchStep DEF Answering
<1> QED
    BY <1>1, <1>2

(* IInv is inductive.                                                      *)
LEMMA NextIInv == IInv /\ [Next]_vars => IInv'
<1> SUFFICES ASSUME IInv, [Next]_vars PROVE IInv'
    OBVIOUS
<1>1. CASE Loading
    BY <1>1, LoadingKeeps
<1>2. ASSUME NEW q \in Objects, Using(q) \/ Answering(q)
      PROVE  IInv'
    BY <1>2, ObjectSteps, ObjectStepKeeps
<1>3. CASE Serving
    BY <1>3, ExecuteKeeps DEF Serving
<1>4. CASE UNCHANGED vars
    BY <1>4, StutterKeeps
<1> QED
    BY <1>1, <1>2, <1>3, <1>4 DEF Next

(* IInv holds in every reachable state.                                     *)
THEOREM IInvAlways == Spec => []IInv
<1>1. Init => IInv
    BY InitIInv
<1>2. IInv /\ [Next]_vars => IInv'
    BY NextIInv
<1> QED
    BY <1>1, <1>2, PTL DEF Spec

(* New copies deeply: however many objects are made, changed and answered,  *)
(* a template equals its document.                                          *)
THEOREM TemplatesStay == Spec => []TemplatesStayAsLoaded
<1>1. IInv => TemplatesStayAsLoaded
    BY DEF IInv
<1> QED
    BY <1>1, IInvAlways, PTL

(* What validate accepts of a variable is what the rules ask for.           *)
LEMMA AcceptedIsAcceptable ==
    ASSUME NEW d, NEW v, VariableAccepted(d, v)
    PROVE  Acceptable(d, v)
<1>1. CASE v = Absent
    BY <1>1 DEF VariableAccepted, Acceptable
<1>2. CASE v # Absent /\ d.minElements = Absent
    BY <1>2 DEF VariableAccepted, Acceptable, Elements, ElementAccepted
<1>3. CASE v # Absent /\ d.minElements # Absent
    <2>1. /\ v.kind = "list" /\ Len(v.items) >= d.minElements
          /\ \A k \in DOMAIN v.items : ElementAccepted(d, v.items[k])
        BY <1>3 DEF VariableAccepted
    <2>2. \A e \in Elements(d, v) : ElementAccepted(d, e)
        BY <1>3, <2>1 DEF Elements
    <2> QED
        BY <1>3, <2>1, <2>2 DEF Acceptable, ElementAccepted
<1> QED
    BY <1>1, <1>2, <1>3

(* The service only holds questions all of whose variables are acceptable,  *)
(* in whatever order validate visits them.                                  *)
THEOREM SentIsValid == Spec => []OnlyValidQuestionsSent
<1>1. IInv => OnlyValidQuestionsSent
    BY AcceptedIsAcceptable DEF IInv, OnlyValidQuestionsSent, Valid
<1> QED
    BY <1>1, IInvAlways, PTL

(* A differential question is sent with a reference snapshot only.          *)
THEOREM ReferenceForDifferential == Spec => []DifferentialHasReference
<1>1. IInv => DifferentialHasReference
    <2> SUFFICES ASSUME IInv, NEW q \in Objects,
                        question[q].pc \in {"upload", "queue", "wait", "fetch"}
                 PROVE  /\ question[q].json # None
                        /\ question[q].json.doc.differential =>
                               question[q].opts.reference # None
        BY DEF DifferentialHasReference
    <2>1. SendingValid(question[q])
        BY DEF IInv, ObjectInv, Sending
    <2> QED
        BY <2>1, NilAssumption DEF SendingValid
<1> QED
    BY <1>1, IInvAlways, PTL

(* An answer is to the question as it was when Answer was called.           *)
THEOREM AnswersMatch == Spec => []AnswerMatchesQuestion
<1>1. IInv => AnswerMatchesQuestion
    BY DEF IInv, ObjectInv, Asks, AnswerMatchesQuestion
<1> QED
    BY <1>1, IInvAlways, PTL

-----------------------------------------------------------------------------
(***************************************************************************)
(* A refused question.                                                     *)
(***************************************************************************)
LEMMA OthersLeave ==
    ASSUME IInv, [Next]_vars, NEW q \in Objects, ~Using(q), ~Answering(q)
    PROVE  question'[q] = question[q] /\ store'[q] = store[q]
<1>1. ASSUME NEW p \in Objects, Using(p) \/ Answering(p)
      PROVE  question'[q] = question[q] /\ store'[q] = store[q]
    <2>1. p # q
        BY <1>1
    <2>2. ObjectStep(p)
        BY <1>1, ObjectSteps
    <2> QED
        BY <2>1, <2>2 DEF ObjectStep
<1>2. CASE Loading
    BY <1>2, LoadingSteps
<1>3. CASE Serving
    BY <1>3 DEF Serving, Execute
<1> QED
    BY <1>1, <1>2, <1>3 DEF Next

(* After a refusal an object keeps its error and its dictionary.           *)
LEMMA RefusedStep ==
    ASSUME IInv, [Next]_vars, NEW q \in Objects, question[q].err # None
    PROVE  /\ question'[q].err = question[q].err
           /\ question'[q].pc = "idle"
           /\ store'[question[q].ref].values = Dict(q).values
<1>1. question[q].pc = "idle" /\ question[q].ref = q /\ store[q] \in Dictionaries
    BY OwnDictionary DEF IInv, ObjectInv
<1>2. CASE ~Using(q) /\ ~Answering(q)
    BY <1>1, <1>2, OthersLeave DEF Dict
<1>3. ASSUME SetAssertion(q) \/ \E b \in BOOLEAN : SetIncludeOneTableKeys(q, b)
      PROVE  /\ question'[q] = question[q]
             /\ store'[q].values = store[q].values
    <2>1. question' = question
        BY <1>3 DEF SetAssertion, SetIncludeOneTableKeys
    <2>2. q \in Names \cup Objects /\ store \in [Names \cup Objects -> MaybeDictionary]
        BY DEF IInv, StateTypeOK
    <2>3. CASE SetAssertion(q)
        <3>1. store' = [store EXCEPT ![q].extras = @ \cup {"assertion"}]
            BY <1>1, <2>3 DEF SetAssertion
        <3> QED
            BY <1>1, <2>1, <2>2, <3>1 DEF Dictionaries
    <2>4. ASSUME NEW b \in BOOLEAN, SetIncludeOneTableKeys(q, b)
          PROVE  store'[q].values = store[q].values
        <3>1. store' = [store EXCEPT ![q] = WithOneTableKeys(store[q], b)]
            BY <1>1, <2>4 DEF SetIncludeOneTableKeys
        <3> QED
            BY <1>1, <2>2, <3>1, OneTableKeysKeep DEF Asks
    <2> QED
        BY <1>3, <2>1, <2>3, <2>4
<1>4. CASE Using(q)
    <2>1. SetAssertion(q) \/ \E b \in BOOLEAN : SetIncludeOneTableKeys(q, b)
        BY <1>1, <1>4 DEF Using, New, SetVariable, SetUnsupported, SetQuestionName,
                          SetExclusions
    <2> QED
        BY <1>1, <1>3, <2>1 DEF Dict
<1>5. ~Answering(q)
    BY <1>1 DEF Answering, Answer, Check, Invalid, Prepare, Upload, Queue, Poll,
                Fetch, Fail
<1> QED
    BY <1>2, <1>4, <1>5

(* After the first unsupported variable, Set changes no variable and Answer *)
(* sends nothing.                                                           *)
THEOREM RefusedStaysFrozen == Spec => RefusedQuestionIsFrozen
<1>1. IInv /\ [Next]_vars =>
          [\A q \in Objects : question[q].err # None =>
              /\ question'[q].err = question[q].err
              /\ question'[q].pc = "idle"
              /\ store'[question[q].ref].values = Dict(q).values]_vars
    BY RefusedStep
<1> QED
    BY <1>1, IInvAlways, PTL DEF Spec, RefusedQuestionIsFrozen

-----------------------------------------------------------------------------
(***************************************************************************)
(* The catalogue: what Install appends, and what the loop over the         *)
(* documents has so far.                                                   *)
(***************************************************************************)
(* One turn of the loop of Sorted.                                          *)
Grows(f, k, N) ==
    f[k] = IF Alphabetical[k] \in N THEN Append(f[k - 1], Alphabetical[k]) ELSE f[k - 1]

(* Every name is at one place of the alphabetical list.                    *)
LEMMA AlphabeticalLists ==
    /\ Alphabetical \in Seq(Names) /\ Len(Alphabetical) \in Nat
    /\ DOMAIN Alphabetical = 1..Len(Alphabetical)
    /\ \A j, k \in 1..Len(Alphabetical) : Alphabetical[j] = Alphabetical[k] => j = k
    /\ \A x \in Names : \E k \in 1..Len(Alphabetical) : Alphabetical[k] = x
    /\ \A k \in 1..Len(Alphabetical) : Alphabetical[k] \in Names
<1>1. Alphabetical \in Seq(Names)
    BY NameAssumption
<1>2. \A x \in Names : \E k \in DOMAIN Alphabetical : Alphabetical[k] = x
    BY DEF Names
<1>3. DOMAIN Alphabetical = 1..Len(Alphabetical) /\ Len(Alphabetical) \in Nat
    BY <1>1
<1>4. \A k \in 1..Len(Alphabetical) : Alphabetical[k] \in Names
    BY <1>1
<1> QED
    BY <1>1, <1>2, <1>3, <1>4, NameAssumption

(* The recursive function of Sorted exists: it does what each turn says.    *)
LEMMA SortedIsRecursive ==
    ASSUME NEW N \in SUBSET Names
    PROVE  \E f : /\ f[0] = <<>> /\ Sorted(N) = f[Len(Alphabetical)]
                  /\ \A k \in 1..Len(Alphabetical) : Grows(f, k, N)
<1> DEFINE n == Len(Alphabetical)
           V == Seq(Names)
           Turn(k, v) == IF k \in 1..n /\ Alphabetical[k] \in N
                         THEN Append(v, Alphabetical[k]) ELSE v
           step == [k \in Nat |-> [v \in V |-> Turn(k, v)]]
           Body(f) == [k \in 0..n |->
                          IF k = 0 THEN <<>>
                          ELSE IF Alphabetical[k] \in N THEN Append(f[k - 1], Alphabetical[k])
                          ELSE f[k - 1]]
           upTo == CHOOSE f : f = Body(f)
<1>1. \A k \in Nat, v \in V : Turn(k, v) \in V
    BY AlphabeticalLists
<1>2. step \in [Nat -> [V -> V]]
    <2> HIDE DEF Turn
    <2> QED
        BY <1>1
<1>3. \A k \in Nat, v \in V : step[k][v] = Turn(k, v)
    <2> HIDE DEF Turn
    <2> QED
        OBVIOUS
<1>4. PICK f : Recurs(f, n, V, <<>>, step)
    <2>1. <<>> \in V /\ n \in Nat
        BY AlphabeticalLists
    <2> HIDE DEF step, n, V
    <2> QED
        BY <1>2, <2>1, Recursion
<1>5. \A k \in 1..n : f[k] = Turn(k, f[k - 1])
    <2>1. n \in Nat
        BY AlphabeticalLists
    <2> HIDE DEF n, V, step, Turn
    <2>2. \A k \in 1..n : k \in Nat /\ f[k - 1] \in V
        BY <1>4, <2>1 DEF Recurs
    <2> QED
        BY <1>3, <1>4, <2>2 DEF Recurs
<1>6. f = Body(f)
    <2>1. n \in Nat
        BY AlphabeticalLists
    <2>2. \A k \in 1..n : f[k] = IF Alphabetical[k] \in N THEN Append(f[k - 1], Alphabetical[k])
                                ELSE f[k - 1]
        BY <1>5
    <2>3. f = [k \in 0..n |-> f[k]] /\ f[0] = <<>>
        BY <1>4 DEF Recurs
    <2>4. \A k \in 0..n : k = 0 \/ k \in 1..n
        BY <2>1
    <2> HIDE DEF n, V
    <2>5. \A k \in 0..n : f[k] = IF k = 0 THEN <<>>
              ELSE IF Alphabetical[k] \in N THEN Append(f[k - 1], Alphabetical[k])
              ELSE f[k - 1]
        BY <2>2, <2>3, <2>4
    <2> QED
        BY <2>3, <2>5, Zenon
<1>7. upTo = Body(upTo)
    <2> HIDE DEF Body
    <2> QED
        BY <1>6
<1>8. Sorted(N) = upTo[n]
    BY Zenon DEF Sorted
<1> HIDE DEF upTo
<1>9. upTo[0] = <<>> /\ \A k \in 1..n : Grows(upTo, k, N)
    <2>1. \A k \in 0..n : upTo[k] = Body(upTo)[k]
        BY <1>7, Zenon
    <2>2. 0 \in 0..n /\ \A k \in 1..n : k \in 0..n /\ k # 0
        BY AlphabeticalLists
    <2> QED
        BY <2>1, <2>2 DEF Grows
<1> QED
    BY <1>8, <1>9

(* u lists those of the first k names that are in N, each once.             *)
ListsUpTo(u, k, N) ==
    /\ u \in Seq(Names)
    /\ \A i \in DOMAIN u : u[i] \in {Alphabetical[j] : j \in 1..k} \cap N
    /\ \A x \in {Alphabetical[j] : j \in 1..k} \cap N : \E i \in DOMAIN u : u[i] = x
    /\ \A i, j \in DOMAIN u : u[i] = u[j] => i = j

(* Sorted(N) lists the names of N, each once.                               *)
LEMMA SortedLists ==
    ASSUME NEW N \in SUBSET Names
    PROVE  /\ Sorted(N) \in Seq(Names)
           /\ \A x \in N : \E k \in DOMAIN Sorted(N) : Sorted(N)[k] = x
           /\ \A k \in DOMAIN Sorted(N) : Sorted(N)[k] \in N
           /\ \A j, k \in DOMAIN Sorted(N) : Sorted(N)[j] = Sorted(N)[k] => j = k
<1> DEFINE n == Len(Alphabetical)
<1>1. PICK f : /\ f[0] = <<>> /\ Sorted(N) = f[n]
               /\ \A k \in 1..n : Grows(f, k, N)
    BY SortedIsRecursive
<1> DEFINE S == {k \in Nat : k <= n => ListsUpTo(f[k], k, N)}
<1>2. n \in Nat
    BY AlphabeticalLists
<1> HIDE DEF n
<1>3. 0 \in S
    <2>1. ListsUpTo(<<>>, 0, N)
        BY DEF ListsUpTo
    <2> QED
        BY <1>1, <2>1
<1>4. ASSUME NEW k \in Nat, k \in S PROVE k + 1 \in S
    <2> SUFFICES ASSUME k + 1 <= n PROVE ListsUpTo(f[k + 1], k + 1, N)
        OBVIOUS
    <2> DEFINE a == Alphabetical[k + 1]
               u == f[k]
               w == f[k + 1]
    <2>1. ListsUpTo(u, k, N)
        BY <1>2, <1>4
    <2>2. k + 1 \in 1..n /\ (k + 1) - 1 = k
        BY <1>2
    <2>3. w = IF a \in N THEN Append(u, a) ELSE u
        <3>1. Grows(f, k + 1, N)
            BY <1>1, <2>2
        <3> QED
            BY <2>2, <3>1 DEF Grows
    <2>4. a \in Names /\ a \notin {Alphabetical[j] : j \in 1..k}
        BY <1>2, <2>2, AlphabeticalLists DEF n
    <2>5. {Alphabetical[j] : j \in 1..(k + 1)} = {Alphabetical[j] : j \in 1..k} \cup {a}
        OBVIOUS
    <2> DEFINE A == {Alphabetical[j] : j \in 1..k}
    <2> HIDE DEF u, w, a, A
    <2>6. CASE a \notin N
        BY <2>1, <2>3, <2>5, <2>6 DEF ListsUpTo, w, A
    <2>7. CASE a \in N
        <3>1. /\ w \in Seq(Names) /\ u \in Seq(Names) /\ Len(u) \in Nat
              /\ DOMAIN w = 1..(Len(u) + 1) /\ DOMAIN u = 1..Len(u)
              /\ \A i \in 1..Len(u) : w[i] = u[i]
              /\ w[Len(u) + 1] = a
            BY <2>1, <2>3, <2>4, <2>7 DEF ListsUpTo
        <3>2. /\ \A i \in 1..Len(u) : u[i] \in A \cap N
              /\ \A x \in A \cap N : \E i \in 1..Len(u) : u[i] = x
              /\ \A i, j \in 1..Len(u) : u[i] = u[j] => i = j
            BY <2>1, <3>1 DEF ListsUpTo, A
        <3>3. \A i \in DOMAIN w : w[i] \in (A \cup {a}) \cap N
            BY <2>7, <3>1, <3>2
        <3>4. \A x \in (A \cup {a}) \cap N : \E i \in DOMAIN w : w[i] = x
            BY <2>7, <3>1, <3>2
        <3>5. a \notin A
            BY <2>4 DEF A
        <3>6. \A i, j \in DOMAIN w : w[i] = w[j] => i = j
            BY <3>1, <3>2, <3>5
        <3> QED
            BY <2>5, <3>1, <3>3, <3>4, <3>6 DEF ListsUpTo, A, w
    <2> QED
        BY <2>6, <2>7
<1>5. ListsUpTo(Sorted(N), n, N)
    <2>1. n \in S
        <3> HIDE DEF S
        <3> QED
            BY <1>2, <1>3, <1>4, Induction
    <2> QED
        BY <1>1, <1>2, <2>1
<1>6. N \subseteq {Alphabetical[j] : j \in 1..n}
    BY AlphabeticalLists DEF n
<1> QED
    BY <1>5, <1>6 DEF ListsUpTo

(* Install appends exactly the names that were not in the catalogue, so    *)
(* the order goes on listing each installed template once.                 *)
LEMMA InstallLists ==
    ASSUME IInv, CatalogueInv, Install
    PROVE  order' \in Seq(Names) /\ OrderListsCatalogue'
<1> DEFINE N == {n \in Loaded : store[n] = None}
           u == Sorted(N)
<1>1. /\ order \in Seq(Names) /\ OrderListsCatalogue
      /\ order' = order \o u
    BY DEF CatalogueInv, Install
<1>2. N \in SUBSET Names
    BY DEF Loaded
<1> HIDE DEF N
<1>3. /\ u \in Seq(Names)
      /\ \A x \in N : \E k \in DOMAIN u : u[k] = x
      /\ \A k \in DOMAIN u : u[k] \in N
      /\ \A j, k \in DOMAIN u : u[j] = u[k] => j = k
    BY <1>2, SortedLists
<1> HIDE DEF u
<1>4. /\ order' \in Seq(Names)
      /\ Len(order) \in Nat /\ Len(u) \in Nat
      /\ DOMAIN order = 1..Len(order) /\ DOMAIN u = 1..Len(u)
      /\ DOMAIN order' = 1..(Len(order) + Len(u))
      /\ \A k \in 1..Len(order) : order'[k] = order[k]
      /\ \A k \in 1..Len(u) : order'[Len(order) + k] = u[k]
    BY <1>1, <1>3
<1>5. \A k \in DOMAIN order' : \/ k \in DOMAIN order /\ order'[k] = order[k]
                               \/ k - Len(order) \in DOMAIN u /\ order'[k] = u[k - Len(order)]
    <2> SUFFICES ASSUME NEW k \in DOMAIN order', k \notin DOMAIN order
                 PROVE  k - Len(order) \in DOMAIN u /\ order'[k] = u[k - Len(order)]
        BY <1>4
    <2>1. k - Len(order) \in 1..Len(u) /\ Len(order) + (k - Len(order)) = k
        BY <1>4
    <2> QED
        BY <1>4, <2>1
<1>6. \A n \in Names : /\ store'[n] # None <=> store[n] # None \/ n \in N
                       /\ n \in N => store[n] = None
    <2>1. \A n \in Names : store'[n] = IF n \in Loaded THEN Template(loader.loaded[n]) ELSE store[n]
        BY DEF IInv, StateTypeOK, Install
    <2>2. \A n \in Loaded : loader.loaded[n] \in Documents
        BY DEF IInv, StateTypeOK, LoaderType, Loaded
    <2>3. \A n \in Loaded : Template(loader.loaded[n]) # None
        BY <2>2, TemplateType, NilAssumption
    <2> QED
        BY <2>1, <2>3 DEF N
<1>7. \A k \in DOMAIN order : order[k] \in Names /\ store[order[k]] # None
    BY <1>1 DEF OrderListsCatalogue
<1>8. \A n \in Names : store'[n] # None => \E k \in DOMAIN order' : order'[k] = n
    <2> SUFFICES ASSUME NEW n \in Names, store'[n] # None
                 PROVE  \E k \in DOMAIN order' : order'[k] = n
        OBVIOUS
    <2>1. CASE store[n] # None
        <3>1. PICK k \in DOMAIN order : order[k] = n
            BY <1>1, <2>1 DEF OrderListsCatalogue
        <3>2. k \in DOMAIN order' /\ order'[k] = n
            BY <1>4, <3>1
        <3> QED
            BY <3>2
    <2>2. CASE n \in N
        <3>1. PICK k \in DOMAIN u : u[k] = n
            BY <1>3, <2>2
        <3>2. Len(order) + k \in DOMAIN order' /\ order'[Len(order) + k] = n
            BY <1>4, <3>1
        <3> QED
            BY <3>2
    <2> QED
        BY <1>6, <2>1, <2>2
<1>9. \A k \in DOMAIN order' : store'[order'[k]] # None
    BY <1>2, <1>3, <1>5, <1>6, <1>7
<1>10. ASSUME NEW j \in DOMAIN order', NEW k \in DOMAIN order', order'[j] = order'[k]
       PROVE  j = k
    <2>1. CASE j \in DOMAIN order /\ order'[j] = order[j]
        <3>1. order'[k] \notin N
            BY <1>2, <1>6, <1>7, <1>10, <2>1
        <3>2. k \in DOMAIN order /\ order'[k] = order[k]
            BY <1>3, <1>5, <3>1
        <3> QED
            BY <1>1, <1>10, <2>1, <3>2 DEF OrderListsCatalogue
    <2>2. CASE j - Len(order) \in DOMAIN u /\ order'[j] = u[j - Len(order)]
        <3>1. order'[k] \in N
            BY <1>3, <1>10, <2>2
        <3>2. ~(k \in DOMAIN order /\ order'[k] = order[k])
            BY <1>2, <1>6, <1>7, <3>1
        <3>3. k - Len(order) \in DOMAIN u /\ order'[k] = u[k - Len(order)]
            BY <1>5, <3>2
        <3>4. j - Len(order) = k - Len(order)
            BY <1>3, <1>10, <2>2, <3>3
        <3> QED
            BY <1>4, <3>4
    <2> QED
        BY <1>5, <2>1, <2>2
<1> QED
    BY <1>4, <1>8, <1>9, <1>10 DEF OrderListsCatalogue

(* What is done with question objects leaves the order of the catalogue.    *)
LEMMA ObjectsLeaveOrder ==
    ASSUME NEW q \in Objects, Using(q) \/ Answering(q)
    PROVE  UNCHANGED order
BY DEF Using, Answering, New, SetVariable, SetUnsupported, SetQuestionName,
       SetExclusions, SetAssertion, SetIncludeOneTableKeys, Answer, Check, Invalid,
       Prepare, Upload, Queue, Poll, Fetch, Fail

(* A step that leaves the catalogue alone keeps what is said of it.         *)
LEMMA CatalogueUnchanged ==
    ASSUME CatalogueInv, UNCHANGED <<order, loader>>, \A n \in Names : store'[n] = store[n]
    PROVE  CatalogueInv'
BY DEF CatalogueInv, OrderListsCatalogue, LoadedSoFar

(* Reading one document: the name it is filed under keeps a good document, *)
(* for a directory the last one read.                                      *)
LEMMA DocumentKeepsLoadedSoFar ==
    ASSUME IInv, LoadedSoFar, NEW k \in loader.left, LoadDocument(k)
    PROVE  LoadedSoFar'
<1> DEFINE s == loader.src
           d == Shelf[s][k]
           Seen(n) == Good(s, n) \ loader.left
<1>1. /\ loader \in LoaderType /\ s # None /\ s \in Sources
      /\ loader.left \subseteq DOMAIN Shelf[s] /\ Shelf[s] \in Seq(Documents)
    BY DocumentAssumption DEF IInv, StateTypeOK, LoadedByName, LoadDocument, LoaderType
<1>2. d \in Documents /\ d.name \in Names /\ k \in DOMAIN Shelf[s]
      /\ DOMAIN Shelf[s] \subseteq Nat
    BY <1>1, DocumentAssumption
<1>3. /\ s # Remote => \A j \in loader.left : k <= j
      /\ loader' = [loader EXCEPT !.left = @ \ {k},
                       !.loaded = IF LoadsFrom(d) THEN [@ EXCEPT ![d.name] = d] ELSE @]
    BY DEF LoadDocument
<1> HIDE DEF d
<1>4. /\ loader'.src = s /\ loader'.left = loader.left \ {k}
      /\ \A n \in Names : loader'.loaded[n] =
             IF LoadsFrom(d) /\ d.name = n THEN d ELSE loader.loaded[n]
    BY <1>1, <1>2, <1>3 DEF LoaderType
<1>5. /\ \A n \in Names : Seen(n) # {} =>
            \E j \in Seen(n) :
                /\ loader.loaded[n] = Shelf[s][j]
                /\ s # Remote => \A i \in Seen(n) : i <= j
      /\ s # Remote => \A i \in DOMAIN Shelf[s] \ loader.left, j \in loader.left : i < j
    BY <1>1 DEF LoadedSoFar
<1>6. ASSUME NEW n \in Names, Good(s, n) \ (loader.left \ {k}) # {}
      PROVE  \E j \in Good(s, n) \ (loader.left \ {k}) :
                 /\ loader'.loaded[n] = Shelf[s][j]
                 /\ s # Remote => \A i \in Good(s, n) \ (loader.left \ {k}) : i <= j
    <2>1. CASE LoadsFrom(d) /\ d.name = n
        <3>1. k \in Good(s, n) \ (loader.left \ {k})
            BY <1>2, <2>1 DEF Good, d
        <3>2. loader'.loaded[n] = Shelf[s][k]
            BY <1>4, <2>1 DEF d
        <3>3. s # Remote => \A i \in Good(s, n) \ (loader.left \ {k}) : i <= k
            BY <1>2, <1>5 DEF Good
        <3> QED
            BY <3>1, <3>2, <3>3
    <2>2. CASE ~(LoadsFrom(d) /\ d.name = n)
        <3>1. k \notin Good(s, n)
            BY <2>2 DEF Good, d
        <3>2. Good(s, n) \ (loader.left \ {k}) = Seen(n)
            BY <3>1
        <3> QED
            BY <1>4, <1>5, <1>6, <2>2, <3>2
    <2> QED
        BY <2>1, <2>2
<1>7. s # Remote => \A i \in DOMAIN Shelf[s] \ (loader.left \ {k}), j \in loader.left \ {k} : i < j
    <2> SUFFICES ASSUME s # Remote, NEW i \in DOMAIN Shelf[s] \ (loader.left \ {k}),
                        NEW j \in loader.left \ {k}
                 PROVE  i < j
        OBVIOUS
    <2>1. i \in Nat /\ j \in Nat /\ k \in Nat
        BY <1>1, <1>2
    <2>2. CASE i = k
        BY <1>3, <2>1, <2>2
    <2>3. CASE i # k
        BY <1>5, <2>3
    <2> QED
        BY <2>2, <2>3
<1> QED
    BY <1>4, <1>6, <1>7 DEF LoadedSoFar

(* Before the first load nothing is listed.                                *)
LEMMA InitCatalogueInv == Init => CatalogueInv
<1> SUFFICES ASSUME Init PROVE CatalogueInv
    OBVIOUS
<1>1. order = <<>> /\ loader.src = None /\ \A n \in Names : store[n] = None
    BY DEF Init
<1> QED
    BY <1>1 DEF CatalogueInv, OrderListsCatalogue, LoadedSoFar

(* With IInv, CatalogueInv is inductive.                                   *)
LEMMA NextCatalogueInv == IInv /\ CatalogueInv /\ [Next]_vars => CatalogueInv'
<1> SUFFICES ASSUME IInv, CatalogueInv, [Next]_vars PROVE CatalogueInv'
    OBVIOUS
<1>1. ASSUME NEW s \in Sources, Load(s) PROVE CatalogueInv'
    <2>1. /\ UNCHANGED <<order, store>> /\ loader'.src = s
          /\ loader'.left = DOMAIN Shelf[s]
        BY <1>1 DEF Load
    <2>2. LoadedSoFar'
        BY <2>1 DEF LoadedSoFar, Good
    <2> QED
        BY <2>1, <2>2 DEF CatalogueInv, OrderListsCatalogue
<1>2. CASE LoadFails
    <2>1. UNCHANGED <<order, store>> /\ loader'.src = None
        BY <1>2 DEF LoadFails, IInv, StateTypeOK, LoaderType
    <2> QED
        BY <2>1 DEF CatalogueInv, OrderListsCatalogue, LoadedSoFar
<1>3. ASSUME NEW k \in loader.left, LoadDocument(k) PROVE CatalogueInv'
    <2>1. UNCHANGED <<order, store>>
        BY <1>3 DEF LoadDocument
    <2>2. LoadedSoFar'
        BY <1>3, DocumentKeepsLoadedSoFar DEF CatalogueInv
    <2> QED
        BY <2>1, <2>2 DEF CatalogueInv, OrderListsCatalogue
<1>4. CASE Install
    <2>1. loader'.src = None
        BY <1>4 DEF Install, IInv, StateTypeOK, LoaderType
    <2>2. LoadedSoFar'
        BY <2>1 DEF LoadedSoFar
    <2> QED
        BY <1>4, <2>2, InstallLists DEF CatalogueInv
<1>5. ASSUME NEW q \in Objects, Using(q) \/ Answering(q) PROVE CatalogueInv'
    <2>1. UNCHANGED loader /\ \A n \in Names : store'[n] = store[n]
        BY <1>5, ObjectSteps DEF ObjectStep
    <2>2. UNCHANGED order
        BY <1>5, ObjectsLeaveOrder
    <2> QED
        BY <2>1, <2>2, CatalogueUnchanged
<1>6. CASE Serving
    BY <1>6, CatalogueUnchanged DEF Serving, Execute
<1>7. CASE UNCHANGED vars
    BY <1>7, CatalogueUnchanged
<1> QED
    BY <1>1, <1>2, <1>3, <1>4, <1>5, <1>6, <1>7 DEF Next, Loading

(* The second induction, on top of the first.                               *)
THEOREM CatalogueAlways == Spec => []CatalogueInv
BY InitCatalogueInv, NextCatalogueInv, IInvAlways, PTL DEF Spec

(* The order lists what is installed, and each name once: Install appends   *)
(* the names that have no template yet, however often it is repeated.       *)
THEOREM OrderFollowsTemplates == Spec => []OrderListsCatalogue
<1>1. CatalogueInv => OrderListsCatalogue
    BY DEF CatalogueInv
<1> QED
    BY <1>1, CatalogueAlways, PTL

(* The state of the catalogue, the objects and the service keeps its type.  *)
THEOREM TypeCorrect == Spec => []TypeOK
<1>1. IInv /\ CatalogueInv => TypeOK
    BY DEF IInv, CatalogueInv, TypeOK
<1> QED
    BY <1>1, IInvAlways, CatalogueAlways, PTL

(* A step that ends a load, all its documents read, is Install.             *)
LEMMA LoadEnds ==
    ASSUME IInv, CatalogueInv, [Next]_vars, NEW s \in Sources, NEW n \in Names,
           loader.src = s, loader'.src = None, loader.left = {}, Good(s, n) # {}
    PROVE  \E k \in Good(s, n) :
               /\ store'[n] # None /\ store'[n].doc = Shelf[s][k]
               /\ s # Remote => \A j \in Good(s, n) : j <= k
<1>1. s # None /\ Shelf[s] \in Seq(Documents) /\ loader \in LoaderType
    BY DocumentAssumption DEF IInv, StateTypeOK
<1>2. PICK k \in Good(s, n) :
          /\ loader.loaded[n] = Shelf[s][k]
          /\ s # Remote => \A j \in Good(s, n) : j <= k
    <2>1. Good(s, n) \ loader.left = Good(s, n)
        OBVIOUS
    <2> QED
        BY <1>1, <2>1 DEF CatalogueInv, LoadedSoFar
<1>3. Shelf[s][k] \in Documents
    BY <1>1 DEF Good
<1>4. CASE Install
    <2>1. n \in Loaded
        BY <1>2, <1>3, NameAssumption DEF Loaded
    <2>2. store'[n] = Template(Shelf[s][k])
        BY <1>2, <1>4, <2>1 DEF Install, IInv, StateTypeOK
    <2>3. store'[n] # None /\ store'[n].doc = Shelf[s][k]
        BY <1>3, <2>2, TemplateType, NilAssumption
    <2> QED
        BY <1>2, <2>3
<1>5. ~LoadFails
    BY DEF LoadFails, Good
<1>6. ~\E r \in Sources : Load(r)
    BY <1>1 DEF Load
<1>7. ~\E j \in loader.left : LoadDocument(j)
    OBVIOUS
<1>8. ASSUME NEW q \in Objects, Using(q) \/ Answering(q) PROVE FALSE
    BY <1>1, <1>8, ObjectSteps DEF ObjectStep
<1>9. ~Serving /\ ~UNCHANGED vars
    BY <1>1 DEF Serving, Execute
<1> QED
    BY <1>4, <1>5, <1>6, <1>7, <1>8, <1>9 DEF Next, Loading

(* Bad documents cost the others nothing: a load that ends has installed    *)
(* every question with a good document, the last by path from a directory.  *)
THEOREM LoadIsComplete == Spec => LoadInstallsEveryGoodQuestion
<1>1. IInv /\ CatalogueInv /\ [Next]_vars =>
          [\A s \in Sources, n \in Names :
              /\ loader.src = s /\ loader'.src = None /\ loader.left = {}
              /\ Good(s, n) # {}
              => \E k \in Good(s, n) :
                    /\ store'[n] # None /\ store'[n].doc = Shelf[s][k]
                    /\ s # Remote => \A j \in Good(s, n) : j <= k]_vars
    BY LoadEnds
<1> QED
    BY <1>1, IInvAlways, CatalogueAlways, PTL DEF Spec, LoadInstallsEveryGoodQuestion
=============================================================================
