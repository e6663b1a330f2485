----------------------------- MODULE Questions -----------------------------
(***************************************************************************)
(* The questions of one session (question/question.go, validate of         *)
(* validation.go): a catalogue of templates loaded from the service or     *)
(* from directories, the question objects made from them, and Answer, which*)
(* validates the object, uploads it under the object's name, queues a work *)
(* item that refers to it by name and fetches the answer by name.  Every   *)
(* question object belongs to a goroutine of its own; the service is       *)
(* external.  Validation visits the variables in any order, as ranging     *)
(* over a map does.                                                        *)
(***************************************************************************)
EXTENDS VariableTypes

CONSTANTS
    Documents,      \* question documents, as the service or the disk has them
    Shelf,          \* the documents of each source, in the order of their paths
    Remote,         \* the source that is the service
    Alphabetical,   \* the question names, sorted
    VarNames,
    Undeclared,     \* a variable that the question does not have
    Inputs,         \* the arguments <<name, value>> that callers give to Set
    UserNames,      \* the values that callers give to question_name
    Options,        \* the options that callers give to Answer
    Snapshots,
    Active,         \* the session's own snapshot, None if it has none
    Objects,        \* the question objects that callers make
    None,           \* a nil pointer, or no template, content or error
    MaxCalls,       \* bound: calls of New, Set and the like, and Answer
    MaxWork,        \* bound: work items queued
    MaxLoads        \* bound: calls of Load

Names == {Alphabetical[k] : k \in DOMAIN Alphabetical}
Sources == DOMAIN Shelf

(* A document, reduced to its name, what is wrong with it, the declarations *)
(* and the default values of its variables, and whether it is differential. *)
Defects == {"none", "unreadable", "noInstance", "badName", "blankDescription",
            "noDescription", "badVariable"}
Values == {i[2] : i \in Inputs} \cup
          UNION {{d.defaults[v] : v \in VarNames} : d \in Documents}

ASSUME DocumentAssumption ==
    /\ \A d \in Documents :
          /\ d.name \in Names /\ d.defect \in Defects /\ d.differential \in BOOLEAN
          /\ \A v \in VarNames : d.declared[v] = Undeclared <=> d.defaults[v] = Undeclared
          /\ DOMAIN d.declared = VarNames /\ d.defaults \in [VarNames -> Values]
    /\ \A s \in Sources : Shelf[s] \in Seq(Documents)
    /\ Remote \in Sources /\ None \notin Sources
ASSUME NameAssumption ==
    /\ Alphabetical \in Seq(Names)
    /\ \A j, k \in DOMAIN Alphabetical : Alphabetical[j] = Alphabetical[k] => j = k
    /\ "" \notin Names
    /\ None \notin Names /\ None \notin Objects /\ None \notin Documents
    /\ Names \cap Objects = {}
    /\ Undeclared \notin {i[2] : i \in Inputs}
    /\ \A i \in Inputs : i[1] \in VarNames /\ i[1] \notin {"exclusions", "question_name"}
ASSUME BoundAssumption == MaxCalls \in Nat /\ MaxWork \in Nat /\ MaxLoads \in Nat

(* The name of a question: a template's or a caller's own, or a base with a *)
(* random identifier, "__<base>_<uuid>".  A call draws one identifier at    *)
(* most, so the number of the call stands for it.                           *)
BaseNames == Names \cup UserNames \cup {""}
InstanceNames == [base : BaseNames, uuid : 0..MaxCalls]

(* The dictionary behind a template or a question object.  extras are the   *)
(* keys that do not take part in validation.                                *)
Extras == {"assertion", "exclusions", "oneTableKeys"}
Dictionaries ==
    [doc : Documents, name : InstanceNames,
     values : [VarNames -> Values], extras : SUBSET Extras]
ASSUME NilAssumption == None \notin Dictionaries

(* snapshot and reference as pointers; oneTable is nil or the value to set. *)
OptionType ==
    [snapshot : Snapshots \cup {"", None}, reference : Snapshots \cup {None},
     oneTable : BOOLEAN \cup {None}, background : BOOLEAN]
ASSUME OptionAssumption ==
    /\ Options \subseteq OptionType /\ Options # {}
    /\ Active \in Snapshots \cup {None}
    /\ None \notin Snapshots \cup {""} /\ "" \notin Snapshots

VARIABLES
    store,      \* the dictionary of every installed template and question object
    order,      \* the names of the catalogue, in order of installation
    loader,     \* the call of Load under way
    question,   \* the question objects, and the call of Answer on each
    calls,      \* calls made so far
    uploaded,   \* the questions of the network at the service, by name
    work,       \* the work items of the service
    queued      \* work items queued so far

serviceVars == <<uploaded, work, queued>>
catalogueVars == <<order, loader>>
vars == <<store, catalogueVars, question, calls, serviceVars>>

MaybeDictionary == Dictionaries \cup {None}
ErrorOf == {i[1] : i \in Inputs} \cup {None}

(* ref: whose dictionary the object works on; err: the variable that Set    *)
(* refused first; todo and valid: the loop of validate; json and sentAs:    *)
(* what AnswerQuestion is called with; got: the content that was answered;  *)
(* asked is history: the dictionary when Answer was called.                 *)
Steps == {"unmade", "idle", "validate", "upload", "queue", "wait", "fetch"}
QuestionType ==
    [pc : Steps,
     ref : Names \cup Objects \cup {None}, err : ErrorOf,
     todo : SUBSET VarNames, valid : BOOLEAN, opts : OptionType,
     json : MaybeDictionary, sentAs : InstanceNames, call : 0..MaxCalls, item : 0..MaxWork,
     asked : MaybeDictionary, got : MaybeDictionary]

WorkType ==
    [name : InstanceNames, snapshot : Snapshots \cup {None}, reference : Snapshots \cup {None},
     content : MaybeDictionary,
     status : {"unqueued", "running", "done", "failed", "byUser"}]

LoaderType ==
    [src : Sources \cup {None}, left : SUBSET Nat,
     loaded : [Names -> Documents \cup {None}], loads : 0..MaxLoads]

StateTypeOK ==
    /\ store \in [Names \cup Objects -> MaybeDictionary]
    /\ loader \in LoaderType
    /\ question \in [Objects -> QuestionType]
    /\ calls \in 0..MaxCalls
    /\ uploaded \in [InstanceNames -> MaybeDictionary]
    /\ work \in [1..MaxWork -> WorkType]
    /\ queued \in 0..MaxWork

TypeOK == StateTypeOK /\ order \in Seq(Names)

NoName == [base |-> "", uuid |-> 0]
NoneLoaded == [n \in Names |-> None]

Init ==
    /\ store = [r \in Names \cup Objects |-> None]
    /\ order = <<>>
    /\ loader = [src |-> None, left |-> {}, loaded |-> NoneLoaded, loads |-> 0]
    /\ question = [q \in Objects |->
          [pc |-> "unmade", ref |-> None, err |-> None, todo |-> {}, valid |-> TRUE,
           opts |-> CHOOSE o \in Options : TRUE, json |-> None, sentAs |-> NoName,
           call |-> 0, item |-> 0, asked |-> None, got |-> None]]
    /\ work = [w \in 1..MaxWork |->
          [name |-> NoName, snapshot |-> None, reference |-> None,
           content |-> None, status |-> "unqueued"]]
    /\ calls = 0
    /\ uploaded = [m \in InstanceNames |-> None]
    /\ queued = 0

-----------------------------------------------------------------------------
(* The catalogue: Load, LoadQuestionsFromDir, LoadRemoteQuestionsTemplates, *)
(* LoadQuestionDict and Install.  A nil description prints as "<nil>", so   *)
(* only a blank one is refused.                                             *)
LoadsFrom(d) == d.defect \in {"none", "noDescription"}

Template(d) ==
    [doc |-> d, name |-> [base |-> d.name, uuid |-> 0],
     values |-> d.defaults, extras |-> {}]

Load(s) ==
    /\ loader.src = None
    /\ loader.loads < MaxLoads
    /\ loader' = [src |-> s, left |-> DOMAIN Shelf[s], loaded |-> NoneLoaded,
                  loads |-> loader.loads + 1]
    /\ UNCHANGED <<store, order, question, calls, serviceVars>>

(* FetchQuestionTemplates fails: Load returns before it installs anything.  *)
LoadFails ==
    /\ loader.src = Remote
    /\ loader.left = DOMAIN Shelf[Remote]
    /\ loader' = [loader EXCEPT !.src = None, !.left = {}]
    /\ UNCHANGED <<store, order, question, calls, serviceVars>>

(* Faulty: a bad document ends the loop over the documents.                 *)
LoadDocumentOrStop(k) ==
    LET d == Shelf[loader.src][k]
    IN  /\ loader.src # None
        /\ k \in loader.left
        /\ loader.src # Remote => \A j \in loader.left : k <= j
        /\ loader' = [loader EXCEPT !.left = IF LoadsFrom(d) THEN @ \ {k} ELSE {},
                         !.loaded = IF LoadsFrom(d) THEN [@ EXCEPT ![d.name] = d] ELSE @]
        /\ UNCHANGED <<store, order, question, calls, serviceVars>>

(* The service's documents arrive in a map, those of a directory by path.   *)
LoadDocument(k) ==
    LET d == Shelf[loader.src][k]
    IN  /\ loader.src # None
        /\ k \in loader.left
        /\ loader.src # Remote => \A j \in loader.left : k <= j
        /\ loader' = [loader EXCEPT !.left = @ \ {k},
                         !.loaded = IF LoadsFrom(d) THEN [@ EXCEPT ![d.name] = d] ELSE @]
        /\ UNCHANGED <<store, order, question, calls, serviceVars>>

(* The names of a set, sorted.                                              *)
Sorted(names) ==
    LET upTo[k \in 0..Len(Alphabetical)] ==
            IF k = 0 THEN <<>>
            ELSE IF Alphabetical[k] \in names THEN Append(upTo[k - 1], Alphabetical[k])
            ELSE upTo[k - 1]
    IN  upTo[Len(Alphabetical)]

Loaded == {n \in Names : loader.loaded[n] # None}

(* Faulty: every template is appended to the order, known or not.           *)
InstallAgain ==
    /\ loader.src # None
    /\ loader.left = {}
    /\ store' = [r \in DOMAIN store |->
                    IF r \in Loaded THEN Template(loader.loaded[r]) ELSE store[r]]
    /\ order' = order \o Sorted(Loaded)
    /\ loader' = [loader EXCEPT !.src = None, !.loaded = NoneLoaded]
    /\ UNCHANGED <<question, calls, serviceVars>>

Install ==
    /\ loader.src # None
    /\ loader.left = {}
    /\ store' = [r \in DOMAIN store |->
                    IF r \in Loaded THEN Template(loader.loaded[r]) ELSE store[r]]
    /\ order' = order \o Sorted({n \in Loaded : store[n] = None})
    /\ loader' = [loader EXCEPT !.src = None, !.loaded = NoneLoaded]
    /\ UNCHANGED <<question, calls, serviceVars>>

-----------------------------------------------------------------------------
(* Question objects.                                                        *)
Idle(q) == question[q].pc = "idle"
Dict(q) == store[question[q].ref]
Becomes(q, r) == question' = [question EXCEPT ![q] = r]
Called == calls < MaxCalls /\ calls' = calls + 1
Goes(q, step) == [question[q] EXCEPT !.pc = step]

(* Faulty: the object works on the dictionary of its template.              *)
NewShallow(q, n) ==
    /\ question[q].pc = "unmade"
    /\ store[n] # None
    /\ Called
    /\ Becomes(q, [Goes(q, "idle") EXCEPT !.ref = n])
    /\ UNCHANGED <<store, catalogueVars, serviceVars>>

(* Faulty: the identifier is drawn once, not for every object.              *)
NewSameName(q, n) ==
    /\ question[q].pc = "unmade"
    /\ store[n] # None
    /\ Called
    /\ store' = [store EXCEPT ![q] = [store[n] EXCEPT
                    !.name = [base |-> store[n].name.base, uuid |-> 1]]]
    /\ Becomes(q, [Goes(q, "idle") EXCEPT !.ref = q])
    /\ UNCHANGED <<catalogueVars, serviceVars>>

(* Get and QuestionTemplate.New: a deep copy under a name of its own.       *)
New(q, n) ==
    /\ question[q].pc = "unmade"
    /\ store[n] # None
    /\ Called
    /\ store' = [store EXCEPT ![q] = [store[n] EXCEPT
                    !.name = [base |-> store[n].name.base, uuid |-> calls']]]
    /\ Becomes(q, [Goes(q, "idle") EXCEPT !.ref = q])
    /\ UNCHANGED <<catalogueVars, serviceVars>>

(* Faulty: Set goes on after an error.                                      *)
SetVariableAnyway(q, i) ==
    /\ Idle(q) /\ Called
    /\ Dict(q).values[i[1]] # Undeclared
    /\ store' = [store EXCEPT ![question[q].ref].values[i[1]] = i[2]]
    /\ UNCHANGED <<catalogueVars, question, serviceVars>>

(* Set, once for each branch; it does nothing after the first error.        *)
SetVariable(q, i) ==
    /\ Idle(q) /\ question[q].err = None /\ Called
    /\ Dict(q).values[i[1]] # Undeclared
    /\ store' = [store EXCEPT ![question[q].ref].values[i[1]] = i[2]]
    /\ UNCHANGED <<catalogueVars, question, serviceVars>>

SetUnsupported(q, i) ==
    /\ Idle(q) /\ question[q].err = None /\ Called
    /\ Dict(q).values[i[1]] = Undeclared
    /\ Becomes(q, [question[q] EXCEPT !.err = i[1]])
    /\ UNCHANGED <<store, catalogueVars, serviceVars>>

SetExclusions(q) ==
    /\ Idle(q) /\ question[q].err = None /\ Called
    /\ store' = [store EXCEPT ![question[q].ref].extras = @ \cup {"exclusions"}]
    /\ UNCHANGED <<catalogueVars, question, serviceVars>>

SetQuestionName(q, b) ==
    /\ Idle(q) /\ question[q].err = None /\ Called
    /\ store' = [store EXCEPT ![question[q].ref].name = [base |-> b, uuid |-> 0]]
    /\ UNCHANGED <<catalogueVars, question, serviceVars>>

(* SetAssertion and MakeCheck do not look at the error.                     *)
SetAssertion(q) ==
    /\ Idle(q) /\ Called
    /\ store' = [store EXCEPT ![question[q].ref].extras = @ \cup {"assertion"}]
    /\ UNCHANGED <<catalogueVars, question, serviceVars>>

WithOneTableKeys(c, b) ==
    CASE b = TRUE -> [c EXCEPT !.extras = @ \cup {"oneTableKeys"}]
      [] b = FALSE -> [c EXCEPT !.extras = @ \ {"oneTableKeys"}]
      [] OTHER -> c

SetIncludeOneTableKeys(q, b) ==
    /\ Idle(q) /\ Called
    /\ store' = [store EXCEPT ![question[q].ref] = WithOneTableKeys(@, b)]
    /\ UNCHANGED <<catalogueVars, question, serviceVars>>

-----------------------------------------------------------------------------
(* Answer.                                                                  *)
GetSnapshot(o) == IF o.snapshot # None THEN o.snapshot ELSE Active
Declared(q) == {v \in VarNames : Dict(q).values[v] # Undeclared}

(* Faulty: a differential question needs no reference snapshot.             *)
AnswerWithoutReference(q, o) ==
    /\ Idle(q) /\ question[q].err = None /\ Called
    /\ GetSnapshot(o) # None
    /\ Becomes(q, [Goes(q, "validate") EXCEPT
            !.todo = Declared(q), !.valid = TRUE, !.opts = o, !.json = None,
            !.call = calls', !.item = 0, !.asked = Dict(q), !.got = None])
    /\ UNCHANGED <<store, catalogueVars, serviceVars>>

(* The checks before Validate; a call that fails one of them returns.       *)
Answer(q, o) ==
    /\ Idle(q) /\ question[q].err = None /\ Called
    /\ GetSnapshot(o) # None
    /\ o.reference # None \/ ~Dict(q).doc.differential
    /\ Becomes(q, [Goes(q, "validate") EXCEPT
            !.todo = Declared(q), !.valid = TRUE, !.opts = o, !.json = None,
            !.call = calls', !.item = 0, !.asked = Dict(q), !.got = None])
    /\ UNCHANGED <<store, catalogueVars, serviceVars>>

(* Faulty: a variable without a value ends the loop.                        *)
CheckOrStop(q, v) ==
    /\ question[q].pc = "validate"
    /\ v \in question[q].todo
    /\ Becomes(q, [question[q] EXCEPT
            !.todo = IF Dict(q).values[v] = Absent THEN {} ELSE @ \ {v},
            !.valid = @ /\ VariableAccepted(Dict(q).doc.declared[v], Dict(q).values[v])])
    /\ UNCHANGED <<store, catalogueVars, calls, serviceVars>>

(* One turn of the loop of validate.                                        *)
Check(q, v) ==
    /\ question[q].pc = "validate"
    /\ v \in question[q].todo
    /\ Becomes(q, [question[q] EXCEPT !.todo = @ \ {v},
            !.valid = @ /\ VariableAccepted(Dict(q).doc.declared[v], Dict(q).values[v])])
    /\ UNCHANGED <<store, catalogueVars, calls, serviceVars>>

Invalid(q) ==
    /\ question[q].pc = "validate"
    /\ question[q].todo = {}
    /\ ~question[q].valid
    /\ Becomes(q, Goes(q, "idle"))
    /\ UNCHANGED <<store, catalogueVars, calls, serviceVars>>

(* The option, JSON, and the name that AnswerQuestion makes up for a blank  *)
(* one; the JSON itself keeps the blank name.                               *)
Prepare(q) ==
    LET c == WithOneTableKeys(Dict(q), question[q].opts.oneTable)
        blank == c.name = NoName
    IN  /\ question[q].pc = "validate"
        /\ question[q].todo = {}
        /\ question[q].valid
        /\ store' = [store EXCEPT ![question[q].ref] = c]
        /\ Becomes(q, [Goes(q, "upload") EXCEPT !.json = c,
               !.sentAs = IF blank THEN [base |-> "", uuid |-> question[q].call]
                          ELSE c.name])
        /\ UNCHANGED <<catalogueVars, calls, serviceVars>>

(* A request that returns an error: it was refused, or its effect is done   *)
(* but the reply was lost; see Upload and Queue.  Work without a snapshot   *)
(* name is refused by execute.                                              *)
Fail(q) ==
    /\ question[q].pc \in {"upload", "queue", "wait", "fetch"}
    /\ Becomes(q, Goes(q, "idle"))
    /\ UNCHANGED <<store, catalogueVars, calls, serviceVars>>

Upload(q) ==
    /\ question[q].pc = "upload"
    /\ uploaded' = [uploaded EXCEPT ![question[q].sentAs] = question[q].json]
    /\ \E step \in {"queue", "idle"} : Becomes(q, Goes(q, step))
    /\ UNCHANGED <<store, catalogueVars, calls, work, queued>>

(* Faulty: work is queued for a blank snapshot name too.                    *)
QueueBlank(q) ==
    /\ question[q].pc = "queue"
    /\ queued < MaxWork
    /\ queued' = queued + 1
    /\ work' = [work EXCEPT ![queued + 1] =
            [name |-> question[q].sentAs, snapshot |-> GetSnapshot(question[q].opts),
             reference |-> question[q].opts.reference,
             content |-> None, status |-> "running"]]
    /\ \E step \in {"wait", "idle"} :
          /\ question[q].opts.background => step = "idle"
          /\ Becomes(q, [Goes(q, step) EXCEPT !.item = queued + 1])
    /\ UNCHANGED <<store, catalogueVars, calls, uploaded>>

(* queueWork; a background call returns, and so does one with a lost reply. *)
Queue(q) ==
    /\ question[q].pc = "queue"
    /\ GetSnapshot(question[q].opts) # ""
    /\ queued < MaxWork
    /\ queued' = queued + 1
    /\ work' = [work EXCEPT ![queued + 1] =
            [name |-> question[q].sentAs, snapshot |-> GetSnapshot(question[q].opts),
             reference |-> question[q].opts.reference,
             content |-> None, status |-> "running"]]
    /\ \E step \in {"wait", "idle"} :
          /\ question[q].opts.background => step = "idle"
          /\ Becomes(q, [Goes(q, step) EXCEPT !.item = queued + 1])
    /\ UNCHANGED <<store, catalogueVars, calls, uploaded>>

(* The loop of execute; only a work item that ended well, or was ended by a *)
(* user, goes on to GetAnswer.                                              *)
Poll(q) ==
    /\ question[q].pc = "wait"
    /\ work[question[q].item].status \in {"done", "failed", "byUser"}
    /\ Becomes(q, Goes(q, IF work[question[q].item].status = "failed"
                          THEN "idle" ELSE "fetch"))
    /\ UNCHANGED <<store, catalogueVars, calls, serviceVars>>

(* The service runs the question it has under the name of the work item.    *)
Execute(w, status) ==
    /\ work[w].status = "running"
    /\ work' = [work EXCEPT ![w].status = status,
            ![w].content = IF status = "done" THEN uploaded[work[w].name] ELSE None]
    /\ UNCHANGED <<store, catalogueVars, question, calls, uploaded, queued>>

(* GetAnswer: the service answers by name, for the question it has under    *)
(* that name now, if some work item has run it on the snapshots asked for.  *)
Fetch(q) ==
    LET r == question[q]
    IN  /\ r.pc = "fetch"
        /\ \E w \in 1..MaxWork :
              /\ work[w].status = "done" /\ work[w].name = r.sentAs
              /\ work[w].snapshot = GetSnapshot(r.opts)
              /\ work[w].reference = r.opts.reference
              /\ work[w].content = uploaded[r.sentAs]
        /\ Becomes(q, [Goes(q, "idle") EXCEPT !.got = uploaded[r.sentAs]])
        /\ UNCHANGED <<store, catalogueVars, calls, serviceVars>>

Loading ==
    \/ \E s \in Sources : Load(s)
    \/ LoadFails
    \/ \E k \in loader.left : LoadDocument(k)
    \/ Install

Using(q) ==
    \/ \E n \in Names : New(q, n)
    \/ \E i \in Inputs : SetVariable(q, i) \/ SetUnsupported(q, i)
    \/ \E b \in UserNames : SetQuestionName(q, b)
    \/ SetExclusions(q) \/ SetAssertion(q)
    \/ \E b \in BOOLEAN : SetIncludeOneTableKeys(q, b)

Answering(q) ==
    \/ \E o \in Options : Answer(q, o)
    \/ \E v \in VarNames : Check(q, v)
    \/ Invalid(q) \/ Prepare(q)
    \/ Upload(q) \/ Queue(q) \/ Poll(q) \/ Fetch(q) \/ Fail(q)

Serving == \E w \in 1..MaxWork, s \in {"done", "failed", "byUser"} : Execute(w, s)

Next == Loading \/ (\E q \in Objects : Using(q) \/ Answering(q)) \/ Serving

Spec == Init /\ [][Next]_vars

-----------------------------------------------------------------------------
(* The order lists every installed name exactly once, so Names and List     *)
(* show what Get finds, however often Load and Install are repeated.        *)
OrderListsCatalogue ==
    /\ \A n \in Names : store[n] # None => \E k \in DOMAIN order : order[k] = n
    /\ \A k \in DOMAIN order : store[order[k]] # None
    /\ \A j, k \in DOMAIN order : order[j] = order[k] => j = k

(* Nothing done to a question reaches the template it was made from: New    *)
(* copies deeply, so a template always equals its document as loaded.       *)
TemplatesStayAsLoaded ==
    \A n \in Names : store[n] # None =>
        store[n] = Template(store[n].doc) /\ store[n].doc.name = n

(* The rules for a variable, said of what a value must be: a mandatory      *)
(* variable has one, a list variable has a list that is long enough, and    *)
(* each element has the type, the length and one of the allowed names.      *)
Elements(d, v) == IF d.minElements = Absent THEN {v} ELSE {v.items[k] : k \in DOMAIN v.items}
Acceptable(d, v) ==
    /\ v = Absent => d.optional
    /\ v # Absent =>
          /\ d.minElements # Absent => v.kind = "list" /\ Len(v.items) >= d.minElements
          /\ \A e \in Elements(d, v) :
                /\ ValidateType(e, d.type)
                /\ d.minLength # Absent => LengthOf(e) >= d.minLength
                /\ AllowedValues(d) = {} \/ e.text \in AllowedValues(d)

(* Whatever order validate visits the variables in, the service only ever   *)
(* holds questions all of whose variables are acceptable.                   *)
OnlyValidQuestionsSent ==
    \A m \in InstanceNames : uploaded[m] # None =>
        \A v \in VarNames : uploaded[m].values[v] # Undeclared =>
            Acceptable(uploaded[m].doc.declared[v], uploaded[m].values[v])

(* A differential question is only sent with a reference snapshot, even if  *)
(* the object was answered before, with other options.                      *)
DifferentialHasReference ==
    \A q \in Objects :
        question[q].pc \in {"upload", "queue", "wait", "fetch"} =>
            /\ question[q].json # None
            /\ question[q].json.doc.differential => question[q].opts.reference # None

(* The answer is to the question as it was when Answer was called, although *)
(* the service knows it by name only: a name with a random identifier is    *)
(* never that of another question.                                          *)
AnswerMatchesQuestion ==
    \A q \in Objects :
        question[q].got # None /\ question[q].sentAs.uuid # 0 =>
            /\ question[q].got.doc = question[q].asked.doc
            /\ question[q].got.values = question[q].asked.values

(* The first unsupported variable is the one Err reports for good: after it *)
(* Set changes no variable and Answer sends nothing.                        *)
RefusedQuestionIsFrozen ==
    [][\A q \in Objects : question[q].err # None =>
            /\ question'[q].err = question[q].err
            /\ question'[q].pc = "idle"
            /\ store'[question[q].ref].values = Dict(q).values]_vars

(* A load that ends installs every question that has a good document, from  *)
(* one of them (the last by path, in a directory): bad documents cost the   *)
(* others nothing.                                                          *)
Good(s, n) == {k \in DOMAIN Shelf[s] : LoadsFrom(Shelf[s][k]) /\ Shelf[s][k].name = n}
LoadInstallsEveryGoodQuestion ==
    [][\A s \in Sources, n \in Names :
            /\ loader.src = s /\ loader'.src = None /\ loader.left = {}
            /\ Good(s, n) # {}
            => \E k \in Good(s, n) :
                  /\ store'[n] # None /\ store'[n].doc = Shelf[s][k]
                  /\ s # Remote => \A j \in Good(s, n) : j <= k]_vars

-----------------------------------------------------------------------------
(* The inductive invariant of QuestionsProofs: what every question object   *)
(* keeps to, who an identifier belongs to, and that the service has the     *)
(* question of a call under way.                                            *)
Sending == {"upload", "queue", "wait", "fetch"}

Valid(c) ==
    \A v \in VarNames : c.values[v] # Undeclared =>
        VariableAccepted(c.doc.declared[v], c.values[v])

Asks(c, d) == c.doc = d.doc /\ c.values = d.values

(* q is r and d is its dictionary.                                          *)
Validating(r, d) ==
    /\ r.asked = d
    /\ r.valid => \A v \in VarNames \ r.todo : d.values[v] # Undeclared =>
                     VariableAccepted(d.doc.declared[v], d.values[v])
    /\ d.doc.differential => r.opts.reference # None

SendingValid(r) ==
    /\ r.json \in Dictionaries /\ Valid(r.json) /\ Asks(r.json, r.asked)
    /\ r.json.doc.differential => r.opts.reference # None

ObjectInv(r, d, q) ==
    /\ r.pc = "unmade" => r.call = 0 /\ r.sentAs = NoName
    /\ r.pc # "unmade" => r.ref = q /\ d \in Dictionaries
    /\ r.err # None => r.pc = "idle"
    /\ r.pc = "validate" => Validating(r, d)
    /\ r.pc \in Sending => SendingValid(r)
    /\ r.pc # "idle" => r.got = None
    /\ r.got # None /\ r.sentAs.uuid # 0 => Asks(r.got, r.asked)

Ids(r, d) ==
    IF r.pc = "unmade" THEN {}
    ELSE {d.name.uuid, r.call, r.sentAs.uuid} \ {0}

IdentifiersApart ==
    /\ \A q \in Objects : \A k \in Ids(question[q], store[q]) : k <= calls
    /\ \A q, r \in Objects : q # r =>
          Ids(question[q], store[q]) \cap Ids(question[r], store[r]) = {}

ServiceHas(r) ==
    r.pc \in Sending \ {"upload"} /\ r.sentAs.uuid # 0 => uploaded[r.sentAs] = r.json

LoadedByName ==
    /\ \A n \in Names : loader.loaded[n] # None => loader.loaded[n].name = n
    /\ loader.src # None => loader.left \subseteq DOMAIN Shelf[loader.src]

(* What the loop over the documents has so far: of every name the document  *)
(* that Load will install if no other comes; directories go by path.        *)
LoadedSoFar ==
    LET s == loader.src
        Seen(n) == Good(s, n) \ loader.left
    IN  s # None =>
            /\ \A n \in Names : Seen(n) # {} =>
                  \E k \in Seen(n) :
                      /\ loader.loaded[n] = Shelf[s][k]
                      /\ s # Remote => \A j \in Seen(n) : j <= k
            /\ s # Remote =>
                  \A j \in DOMAIN Shelf[s] \ loader.left, k \in loader.left : j < k

CatalogueInv == order \in Seq(Names) /\ OrderListsCatalogue /\ LoadedSoFar

IInv ==
    /\ StateTypeOK
    /\ LoadedByName /\ TemplatesStayAsLoaded
    /\ \A q \in Objects : ObjectInv(question[q], store[q], q) /\ ServiceHas(question[q])
    /\ IdentifiersApart
    /\ \A m \in InstanceNames : uploaded[m] # None => Valid(uploaded[m])

(* A template without a description is refused.                             *)
InstalledHaveDescription ==
    \A n \in Names : store[n] # None => store[n].doc.defect # "noDescription"
=============================================================================
