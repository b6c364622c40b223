------------------------- MODULE ProcessInstallProofs -------------------------
(***************************************************************************)
(* Proofs about ProcessInstall, for any schema, any number of              *)
(* administrators, processes and projects, and any older process.          *)
(***************************************************************************)
EXTENDS ProcessInstall, TLAPS

(* The steps of administrator a. *)
Step(a) ==
    \/ detectInstallState(a) \/ detectTypes(a)
    \/ \E p \in Processes : createRefused(a, p)
    \/ \E answered \in BOOLEAN : Requests(a, answered)
    \/ listPicklists(a) \/ preflightOrgFields(a) \/ listTypesToCreate(a)
    \/ upgradeSchema(a) \/ listTypesToUpgrade(a) \/ listOrgFields(a)
    \/ \E w \in Wits : listAttached(a, w)
    \/ getExistingStates(a) \/ nextType(a)
    \/ \E j \in Projects : assignProject(a, j)
    \/ installComplete(a) \/ updateMarker(a)
    \/ fail(a)

(* Every step is the step of one administrator. *)
LEMMA StepOfSomebody == Next <=> \E a \in Admins : Step(a)
BY DEF Next, Step

-----------------------------------------------------------------------------
(* The inductive invariant *)

(* A version marker comes with a process, and an absent one has nothing. *)
MarkedExists == \A p \in Processes : process[p].marker = 0 => process[p] = NoProcess

NoConflict == \A f \in SchemaFields : orgFields[f] \in {"none", "ours"}

InTypes(a) == job[a].stage \in {"listFields", "next", "fields", "states"}
InOneType(a) == job[a].stage \in {"fields", "states"}

(* A type is complete, or waits for its turn, or has it. *)
HandledComplete(a) ==
    \A w \in Wits : \/ w \in job[a].todo
                    \/ InOneType(a) /\ w = job[a].wit
                    \/ TypeComplete(job[a].proc, w)

(* What the type that has its turn lacks is still on the list of the job. *)
CurrentType(a) ==
    /\ job[a].wit \in Wits
    /\ job[a].wit \in process[job[a].proc].types
    /\ job[a].fields \subseteq FieldsOf[job[a].wit]
    /\ \A f \in FieldsOf[job[a].wit] :
          f \in job[a].fields \/ << job[a].wit, f >> \in process[job[a].proc].fields
    /\ job[a].stage = "states" =>
          /\ job[a].fields = {}
          /\ \A s \in StatesOf[job[a].wit] :
                s \in job[a].states \/ << job[a].wit, s >> \in process[job[a].proc].states

(* What a job has learned stays true, whatever the others do meanwhile. *)
DetectFits(a) ==
    /\ Exists(job[a].proc)
    /\ job[a].version = Current => process[job[a].proc].marker = Current

DecisionFits(a) ==
    /\ job[a].found = "needs-upgrade" =>
          /\ job[a].proc \in Processes /\ Exists(job[a].proc)
          /\ Wits \subseteq process[job[a].proc].types
    /\ job[a].found = "installed" =>
          job[a].proc \in Processes /\ process[job[a].proc].marker = Current

InstallFits(a) ==
    /\ process[job[a].proc].marker = Current
    /\ ~InTypes(a) => process[job[a].proc].types = {}
    /\ job[a].stage \notin {"lists", "picklists"} => NoConflict

UpgradeFits(a) == Wits \subseteq process[job[a].proc].types

WorkFits(a) ==
    /\ Exists(job[a].proc)
    /\ InTypes(a) => HandledComplete(a)
    /\ InOneType(a) => CurrentType(a)
    /\ job[a].op = "install" => InstallFits(a)
    /\ job[a].op = "upgrade" => UpgradeFits(a)

JobFits(a) ==
    /\ job[a].op = "detect" => DetectFits(a)
    /\ job[a].op = "decided" => DecisionFits(a)
    /\ Working(a) => WorkFits(a)

(* The jobs on a process that was there before, and the installs. *)
Claims(a) ==
    \/ Working(a)
    \/ job[a].op = "detect" /\ job[a].version # Current
    \/ job[a].op = "decided" /\ job[a].found = "needs-upgrade"

(* Nobody else works, or will work, on a process that is being installed. *)
InstallsAlone ==
    \A a, b \in Admins : (/\ a # b
                          /\ job[a].op = "install"
                          /\ Claims(b)) => job[a].proc # job[b].proc

CurrentIsComplete ==
    \A p \in Processes :
        process[p].marker = Current => Complete(p) \/ p \in cut \/ InstallUnderWay(p)

IInv == /\ TypeOK
        /\ MarkedExists
        /\ \A a \in Admins : JobFits(a)
        /\ InstallsAlone
        /\ CurrentIsComplete
        /\ ProjectsGetCompleteProcesses

(* The operation of a job tells its kind. *)
LEMMA JobKinds ==
    ASSUME TypeOK, NEW a \in Admins
    PROVE  /\ job[a].op = "idle" => job[a] = Idle
           /\ job[a].op = "detect" => job[a] \in Detections
           /\ job[a].op = "decided" => job[a] \in Decisions
           /\ Working(a) => job[a] \in WorkJobs
           /\ job[a] = Idle => job[a].op = "idle"
           /\ job[a].op \in {"idle", "detect", "decided", "install", "upgrade"}
<1>1. job[a] \in {Idle} \cup Detections \cup Decisions \cup WorkJobs
  BY DEF TypeOK
<1>2. CASE job[a] = Idle
  BY <1>2 DEF Idle, Working
<1>3. CASE job[a] \in Detections
  BY <1>3 DEF Detections, Idle, Working
<1>4. CASE job[a] \in Decisions
  BY <1>4 DEF Decisions, Idle, Working
<1>5. CASE job[a] \in WorkJobs
  BY <1>5 DEF WorkJobs, Idle, Working
<1>. QED BY <1>1, <1>2, <1>3, <1>4, <1>5

-----------------------------------------------------------------------------
(* What a step does to the organization *)

Writes(a) ==
    \/ \E p \in Processes, answered \in BOOLEAN : createProcess(a, p, answered)
    \/ \E w \in Wits, answered \in BOOLEAN : createType(a, w, answered)
    \/ \E f \in Fields, answered \in BOOLEAN : \/ createPicklist(a, f, answered)
                                               \/ createFieldAtOrg(a, f, answered)
                                               \/ attachField(a, f, answered)
    \/ \E s \in States, answered \in BOOLEAN : createState(a, s, answered)
    \/ \E j \in Projects : assignProject(a, j)
    \/ updateMarker(a)

Organization == << process, orgFields, lists, template >>

(* A step that is none of the writing ones leaves the organization alone. *)
LEMMA OthersOnlyRead ==
    ASSUME NEW a \in Admins, Step(a)
    PROVE  Writes(a) \/ UNCHANGED Organization
BY DEF Step, Requests, Writes, Organization, detectInstallState, detectTypes,
       createRefused, listPicklists, preflightOrgFields, listTypesToCreate,
       upgradeSchema, listTypesToUpgrade, listOrgFields, listAttached,
       getExistingStates, nextType, installComplete, fail

ProcessItems == [marker: {0, Old, Current}, types: SUBSET Wits,
                 fields: SUBSET (Wits \X Fields), states: SUBSET (Wits \X States)]

(* Nothing is ever taken back from a process or from the organization. *)
ProcessGrows(p) ==
    /\ process[p].types \subseteq process'[p].types
    /\ process[p].fields \subseteq process'[p].fields
    /\ process[p].states \subseteq process'[p].states
    /\ Exists(p) => Exists(p)'
    /\ process[p].marker = Current => process'[p].marker = Current

FieldGrows(f) == orgFields[f] \in {"none", "ours"} => orgFields'[f] \in {"none", "ours"}

Attached(p) == \A item \in process[p].fields :
                  item[1] \in process[p].types /\ item[2] \in FieldsOf[item[1]]

ProcessFits(p) ==
    /\ process[p] \in ProcessItems
    /\ Attached(p)
    /\ process[p].marker = 0 => process[p] = NoProcess

(* A step writes to one process at most: the one of the job, or a new one. *)
OwnProcess(a) ==
    \A p \in Processes :
        process'[p] # process[p] => \/ Working(a) /\ p = job[a].proc
                                    \/ ~Exists(p)

(* What the type invariant says of one process. *)
LEMMA AttachedItem ==
    ASSUME TypeOK, MarkedExists, NEW p \in Processes
    PROVE  ProcessFits(p)
BY DEF TypeOK, MarkedExists, ProcessFits, ProcessItems, Attached

(* The two schema versions and the marker of no process are three numbers. *)
LEMMA Distinct == Old # Current /\ Old # 0 /\ Current # 0 /\ Old < Current
                  /\ Old \in Nat /\ Current \in Nat
BY InstallAssumption DEF InstallAssumption

(* A step keeps every process well formed and takes nothing from it. *)
LEMMA ProcessStep ==
    ASSUME IInv, NEW a \in Admins, Step(a), NEW p \in Processes
    PROVE  /\ ProcessFits(p)'
           /\ ProcessGrows(p)
           /\ process'[p] # process[p] =>
                 \/ Working(a) /\ p = job[a].proc
                 \/ ~Exists(p)
<1>. USE InstallAssumption, Distinct DEF InstallAssumption
<1>1. ProcessFits(p) /\ process \in [Processes -> ProcessItems]
  BY AttachedItem DEF IInv, TypeOK, ProcessItems
<1>2. Working(a) => /\ job[a] \in WorkJobs /\ job[a].proc \in Processes
                    /\ JobFits(a) /\ WorkFits(a) /\ Exists(job[a].proc)
  BY JobKinds DEF IInv, JobFits, WorkFits, WorkJobs
<1>3. CASE process' = process
  BY <1>1, <1>3 DEF ProcessFits, ProcessGrows, Attached, Exists
<1>4. CASE \E q \in Processes, answered \in BOOLEAN : createProcess(a, q, answered)
  <2>1. PICK q \in Processes, answered \in BOOLEAN : createProcess(a, q, answered)
    BY <1>4
  <2>2. process' = [process EXCEPT ![q] = Items({}, {}, {}, Current)] /\ ~Exists(q)
    BY <2>1 DEF createProcess
  <2>3. CASE p = q
    <3>1. process'[p] = Items({}, {}, {}, Current) /\ process[p] = NoProcess
      BY <1>1, <2>2, <2>3 DEF Exists
    <3>. QED BY <2>2, <2>3, <3>1 DEF ProcessFits, ProcessGrows, Attached, Exists, NoProcess,
                Items, ProcessItems
  <2>4. CASE p # q
    BY <1>1, <2>2, <2>4 DEF ProcessFits, ProcessGrows, Attached, Exists
  <2>. QED BY <2>3, <2>4
<1>5. CASE \E w \in Wits, answered \in BOOLEAN : createType(a, w, answered)
  <2>1. PICK w \in Wits, answered \in BOOLEAN : createType(a, w, answered)
    BY <1>5
  <2>2. /\ Working(a)
        /\ process' = [process EXCEPT
              ![job[a].proc].types = @ \cup {w},
              ![job[a].proc].states = @ \cup ({w} \X DefaultStates)]
    BY <2>1 DEF createType, Working
  <2>3. CASE p = job[a].proc
    <3>1. process'[p] = [process[p] EXCEPT !.types = @ \cup {w},
                                           !.states = @ \cup ({w} \X DefaultStates)]
      BY <1>1, <2>2, <2>3
    <3>2. process[p].marker # 0
      BY <1>1, <1>2, <2>2, <2>3 DEF ProcessFits, Exists
    <3>3. /\ process'[p].types = process[p].types \cup {w}
          /\ process'[p].fields = process[p].fields
          /\ process'[p].states = process[p].states \cup ({w} \X DefaultStates)
          /\ process'[p].marker = process[p].marker
      BY <1>1, <3>1 DEF ProcessFits, ProcessItems
    <3>4. process'[p] \in ProcessItems
      <4>1. {w} \X DefaultStates \in SUBSET (Wits \X States)
        OBVIOUS
      <4>2. process[p].states \cup ({w} \X DefaultStates) \in SUBSET (Wits \X States)
        BY <1>1, <4>1 DEF ProcessFits, ProcessItems
      <4>3. process[p] \in ProcessItems /\ process[p].types \cup {w} \in SUBSET Wits
        BY <1>1 DEF ProcessFits, ProcessItems
      <4>. QED BY <3>1, <4>2, <4>3 DEF ProcessItems
    <3>5. Attached(p)'
      BY <1>1, <3>3 DEF ProcessFits, Attached
    <3>6. ProcessGrows(p)
      BY <3>2, <3>3 DEF ProcessGrows, Exists, NoProcess, Items
    <3>. QED BY <2>2, <2>3, <3>2, <3>3, <3>4, <3>5, <3>6 DEF ProcessFits
  <2>4. CASE p # job[a].proc
    BY <1>1, <1>2, <2>2, <2>4 DEF ProcessFits, ProcessGrows, Attached, Exists
  <2>. QED BY <2>3, <2>4
<1>6. CASE \E f \in Fields, answered \in BOOLEAN : attachField(a, f, answered)
  <2>1. PICK f \in Fields, answered \in BOOLEAN : attachField(a, f, answered)
    BY <1>6
  <2>2. /\ Working(a)
        /\ job[a].stage = "fields" /\ f \in job[a].fields
        /\ process' = [process EXCEPT
              ![job[a].proc].fields = @ \cup {<< job[a].wit, f >>}]
    BY <2>1 DEF attachField
  <2>3. job[a].wit \in Wits /\ job[a].wit \in process[job[a].proc].types
        /\ f \in FieldsOf[job[a].wit]
    BY <1>2, <2>2 DEF WorkFits, InOneType, CurrentType
  <2>4. CASE p = job[a].proc
    <3>1. process'[p] = [process[p] EXCEPT !.fields = @ \cup {<< job[a].wit, f >>}]
      BY <1>1, <2>2, <2>4
    <3>2. process[p].marker # 0
      BY <1>1, <1>2, <2>2, <2>4 DEF ProcessFits, Exists
    <3>3. /\ process'[p].types = process[p].types
          /\ process'[p].fields = process[p].fields \cup {<< job[a].wit, f >>}
          /\ process'[p].states = process[p].states
          /\ process'[p].marker = process[p].marker
      BY <1>1, <3>1 DEF ProcessFits, ProcessItems
    <3>4. process'[p] \in ProcessItems
      BY <1>1, <2>3, <3>1 DEF ProcessFits, ProcessItems
    <3>5. Attached(p)'
      BY <1>1, <2>3, <2>4, <3>3 DEF ProcessFits, Attached
    <3>6. ProcessGrows(p)
      BY <3>2, <3>3 DEF ProcessGrows, Exists, NoProcess, Items
    <3>. QED BY <2>2, <2>4, <3>2, <3>3, <3>4, <3>5, <3>6 DEF ProcessFits
  <2>5. CASE p # job[a].proc
    BY <1>1, <1>2, <2>2, <2>5 DEF ProcessFits, ProcessGrows, Attached, Exists
  <2>. QED BY <2>4, <2>5
<1>7. CASE \E s \in States, answered \in BOOLEAN : createState(a, s, answered)
  <2>1. PICK s \in States, answered \in BOOLEAN : createState(a, s, answered)
    BY <1>7
  <2>2. /\ Working(a)
        /\ job[a].stage = "states"
        /\ process' = [process EXCEPT
              ![job[a].proc].states = @ \cup {<< job[a].wit, s >>}]
    BY <2>1 DEF createState
  <2>3. job[a].wit \in Wits
    BY <1>2, <2>2 DEF WorkFits, InOneType, CurrentType
  <2>4. CASE p = job[a].proc
    <3>1. process'[p] = [process[p] EXCEPT !.states = @ \cup {<< job[a].wit, s >>}]
      BY <1>1, <2>2, <2>4
    <3>2. process[p].marker # 0
      BY <1>1, <1>2, <2>2, <2>4 DEF ProcessFits, Exists
    <3>. QED BY <1>1, <2>2, <2>3, <2>4, <3>1, <3>2
                DEF ProcessFits, ProcessGrows, Attached, Exists, NoProcess, Items, ProcessItems
  <2>5. CASE p # job[a].proc
    BY <1>1, <1>2, <2>2, <2>5 DEF ProcessFits, ProcessGrows, Attached, Exists
  <2>. QED BY <2>4, <2>5
<1>8. CASE updateMarker(a)
  <2>1. /\ Working(a)
        /\ process' = [process EXCEPT ![job[a].proc].marker = Current]
    BY <1>8 DEF updateMarker, Working
  <2>2. CASE p = job[a].proc
    <3>1. process'[p] = [process[p] EXCEPT !.marker = Current]
      BY <1>1, <2>1, <2>2
    <3>. QED BY <1>1, <2>1, <2>2, <3>1
                DEF ProcessFits, ProcessGrows, Attached, Exists, NoProcess, Items, ProcessItems
  <2>3. CASE p # job[a].proc
    BY <1>1, <1>2, <2>1, <2>3 DEF ProcessFits, ProcessGrows, Attached, Exists
  <2>. QED BY <2>2, <2>3
<1>9. Writes(a) => \/ process' = process
                   \/ \E q \in Processes, answered \in BOOLEAN : createProcess(a, q, answered)
                   \/ \E w \in Wits, answered \in BOOLEAN : createType(a, w, answered)
                   \/ \E f \in Fields, answered \in BOOLEAN : attachField(a, f, answered)
                   \/ \E s \in States, answered \in BOOLEAN : createState(a, s, answered)
                   \/ updateMarker(a)
  BY DEF Writes, createPicklist, createFieldAtOrg, assignProject
<1>. QED BY <1>3, <1>4, <1>5, <1>6, <1>7, <1>8, <1>9, OthersOnlyRead DEF Organization

(* A step keeps the organization well typed, and no field gets into conflict. *)
LEMMA OrganizationStep ==
    ASSUME IInv, NEW a \in Admins, Step(a)
    PROVE  /\ process' \in [Processes -> ProcessItems]
           /\ orgFields' \in [Fields -> FieldKinds]
           /\ \A f \in Fields : FieldGrows(f)
           /\ lists' \subseteq Fields
<1>. USE InstallAssumption DEF InstallAssumption
<1>1. /\ process \in [Processes -> ProcessItems]
      /\ orgFields \in [Fields -> FieldKinds]
      /\ lists \subseteq Fields
  BY DEF IInv, TypeOK, ProcessItems
<1>2. \A p \in Processes : process'[p] \in ProcessItems
  BY ProcessStep DEF ProcessFits
<1>3. DOMAIN process' = Processes /\ process' = [p \in Processes |-> process'[p]]
  BY <1>1, OthersOnlyRead DEF Writes, Organization, createProcess, createType, attachField,
     createState, updateMarker, createPicklist, createFieldAtOrg, assignProject
<1>4. lists' \subseteq Fields
  BY <1>1, OthersOnlyRead DEF Writes, Organization, createProcess, createType, attachField,
     createState, updateMarker, createPicklist, createFieldAtOrg, assignProject
<1>5. CASE orgFields' = orgFields
  BY <1>1, <1>2, <1>3, <1>4, <1>5 DEF FieldGrows
<1>6. CASE \E f \in Fields, answered \in BOOLEAN : createFieldAtOrg(a, f, answered)
  <2>1. PICK f \in Fields, answered \in BOOLEAN : createFieldAtOrg(a, f, answered)
    BY <1>6
  <2>2. orgFields' = [orgFields EXCEPT ![f] = IF @ = "none" THEN "ours" ELSE @]
    BY <2>1 DEF createFieldAtOrg
  <2>3. orgFields' \in [Fields -> FieldKinds]
    BY <1>1, <2>2 DEF FieldKinds
  <2>4. \A g \in Fields : FieldGrows(g)
    BY <1>1, <2>2 DEF FieldGrows
  <2>. QED BY <1>2, <1>3, <1>4, <2>3, <2>4
<1>7. \/ orgFields' = orgFields
      \/ \E f \in Fields, answered \in BOOLEAN : createFieldAtOrg(a, f, answered)
  BY OthersOnlyRead DEF Writes, Organization, createProcess, createType, attachField,
     createState, updateMarker, createPicklist, assignProject
<1>. QED BY <1>5, <1>6, <1>7

(* What is complete, present or free of conflict stays so. *)
LEMMA CompleteStays ==
    ASSUME NEW p \in Processes, ProcessGrows(p)
    PROVE  /\ \A w \in Wits : TypeComplete(p, w) => TypeComplete(p, w)'
           /\ Complete(p) => Complete(p)'
BY DEF ProcessGrows, TypeComplete, Complete

(* Without a conflict before the step there is none after it. *)
LEMMA NoConflictStays ==
    ASSUME \A f \in Fields : FieldGrows(f), NoConflict
    PROVE  NoConflict'
BY InstallAssumption DEF InstallAssumption, FieldGrows, NoConflict, SchemaFields

-----------------------------------------------------------------------------
(* What a step does to the jobs of the other administrators: nothing, and
   what they have learned stays true *)

(* A step of one administrator changes no other one's job. *)
LEMMA OthersKeepTheirJob ==
    ASSUME IInv, NEW a \in Admins, Step(a), NEW b \in Admins, b # a
    PROVE  job'[b] = job[b]
<1>1. job \in [Admins -> {Idle} \cup Detections \cup Decisions \cup WorkJobs]
  BY DEF IInv, TypeOK
<1>. QED BY <1>1 DEF Step, Requests, Goes, Stopped, detectInstallState, detectTypes,
       createRefused, listPicklists, preflightOrgFields, listTypesToCreate,
       upgradeSchema, listTypesToUpgrade, listOrgFields, listAttached,
       getExistingStates, nextType, installComplete, fail, createProcess, createType,
       attachField, createState, updateMarker, createPicklist, createFieldAtOrg, assignProject

(* What the others know of the organization stays true when one goes on. *)
LEMMA OthersStillFit ==
    ASSUME IInv, NEW a \in Admins, Step(a), NEW b \in Admins, b # a
    PROVE  JobFits(b)'
<1>1. job'[b] = job[b] /\ JobFits(b)
  BY OthersKeepTheirJob DEF IInv
<1>2. \A p \in Processes : ProcessGrows(p)
  BY ProcessStep
<1>3. \A f \in Fields : FieldGrows(f)
  BY OrganizationStep
<1>4. CASE job[b].op = "detect"
  <2>1. job[b].proc \in Processes
    BY <1>4, JobKinds DEF IInv, Detections
  <2>. QED BY <1>1, <1>2, <1>4, <2>1 DEF JobFits, DetectFits, ProcessGrows, Working
<1>5. CASE job[b].op = "decided"
  BY <1>1, <1>2, <1>5 DEF JobFits, DecisionFits, ProcessGrows, Working
<1>6. CASE Working(b)
  <2>1. job[b].proc \in Processes /\ WorkFits(b) /\ ProcessGrows(job[b].proc)
    BY <1>1, <1>2, <1>6, JobKinds DEF IInv, WorkJobs, JobFits
  <2>2. Exists(job[b].proc)'
    BY <1>1, <2>1 DEF WorkFits, ProcessGrows, Exists
  <2>3. InTypes(b)' => HandledComplete(b)'
    BY <1>1, <2>1, CompleteStays DEF InTypes, InOneType, HandledComplete, WorkFits
  <2>4. InOneType(b)' => CurrentType(b)'
    BY <1>1, <2>1 DEF InOneType, CurrentType, WorkFits, ProcessGrows
  <2>5. CASE job[b].op = "install"
    <3>1. process'[job[b].proc] = process[job[b].proc]
      BY <1>6, <2>1, <2>5, ProcessStep DEF IInv, InstallsAlone, Claims, WorkFits
    <3>2. NoConflict => NoConflict'
      BY <1>3, NoConflictStays
    <3>3. InstallFits(b)'
      BY <1>1, <2>1, <2>5, <3>1, <3>2 DEF InstallFits, WorkFits, InTypes
    <3>. QED BY <1>1, <1>6, <2>2, <2>3, <2>4, <2>5, <3>3 DEF JobFits, WorkFits, Working
  <2>6. CASE job[b].op = "upgrade"
    <3>1. UpgradeFits(b)'
      BY <1>1, <2>1, <2>6 DEF UpgradeFits, WorkFits, ProcessGrows
    <3>. QED BY <1>1, <1>6, <2>2, <2>3, <2>4, <2>6, <3>1 DEF JobFits, WorkFits, Working
  <2>. QED BY <1>6, <2>5, <2>6 DEF Working
<1>. QED BY <1>1, <1>4, <1>5, <1>6 DEF JobFits, Working

-----------------------------------------------------------------------------
(* What a step does to its own job *)

Jobs == {Idle} \cup Detections \cup Decisions \cup WorkJobs

(* A job that goes on keeps what its process has; the rest is the matter of
   the action. *)
LEMMA JobGoesOn ==
    ASSUME IInv, NEW a \in Admins, Step(a), Working(a),
           job'[a].op = job[a].op, job'[a].proc = job[a].proc,
           InTypes(a)' => HandledComplete(a)',
           InOneType(a)' => CurrentType(a)',
           job[a].op = "install" =>
               /\ ~InTypes(a)' => process'[job[a].proc].types = {}
               /\ job'[a].stage \notin {"lists", "picklists"} => NoConflict'
    PROVE  JobFits(a)'
<1>1. job[a].proc \in Processes /\ WorkFits(a)
  BY JobKinds DEF IInv, WorkJobs, JobFits
<1>2. ProcessGrows(job[a].proc)
  BY <1>1, ProcessStep
<1>3. Exists(job[a].proc)'
  BY <1>1, <1>2 DEF WorkFits, ProcessGrows, Exists
<1>4. job[a].op = "install" => InstallFits(a)'
  BY <1>1, <1>2 DEF WorkFits, InstallFits, ProcessGrows, InTypes
<1>5. job[a].op = "upgrade" => UpgradeFits(a)'
  BY <1>1, <1>2 DEF WorkFits, UpgradeFits, ProcessGrows
<1>. QED BY <1>1, <1>3, <1>4, <1>5 DEF JobFits, WorkFits, Working

(* Nothing is asked of the organization for an idle administrator. *)
LEMMA IdleFits ==
    ASSUME NEW a \in Admins, job'[a] = Idle
    PROVE  JobFits(a)'
BY DEF JobFits, Idle, Working

(* What detection answers is true of the organization. *)
LEMMA DetectionFits ==
    ASSUME IInv, NEW a \in Admins, detectInstallState(a) \/ detectTypes(a)
    PROVE  job'[a] \in Jobs /\ JobFits(a)'
<1>. USE InstallAssumption, Distinct DEF InstallAssumption
<1>1. job \in [Admins -> Jobs]
  BY DEF IInv, TypeOK, Jobs
<1>2. CASE detectInstallState(a)
  <2>1. CASE job' = [job EXCEPT ![a] = [op |-> "decided", found |-> "not-installed",
                                        proc |-> "none"]]
    <3>1. job'[a] = [op |-> "decided", found |-> "not-installed", proc |-> "none"]
      BY <1>1, <2>1
    <3>2. job'[a] \in Decisions
      BY <3>1 DEF Decisions, Statuses
    <3>. QED BY <3>1, <3>2 DEF Jobs, JobFits, DecisionFits, Working
  <2>2. CASE \E p \in Processes :
                /\ Exists(p)
                /\ job' = [job EXCEPT ![a] = [op |-> "detect", proc |-> p,
                                              version |-> process[p].marker]]
    <3>1. PICK p \in Processes :
                /\ Exists(p)
                /\ job' = [job EXCEPT ![a] = [op |-> "detect", proc |-> p,
                                              version |-> process[p].marker]]
      BY <2>2
    <3>2. job'[a] = [op |-> "detect", proc |-> p, version |-> process[p].marker]
      BY <1>1, <3>1
    <3>3. process[p].marker \in {Old, Current}
      BY <3>1, AttachedItem DEF IInv, ProcessFits, ProcessItems, Exists
    <3>4. job'[a] \in Detections
      BY <3>2, <3>3 DEF Detections
    <3>5. process' = process
      BY <1>2 DEF detectInstallState
    <3>6. JobFits(a)'
      BY <3>1, <3>2, <3>5 DEF JobFits, DetectFits, Exists, Working
    <3>. QED BY <3>4, <3>6 DEF Jobs
  <2>. QED BY <1>2, <2>1, <2>2 DEF detectInstallState
<1>3. CASE detectTypes(a)
  <2>1. job[a].op = "detect" /\ job[a] \in Detections
    BY <1>3, JobKinds DEF detectTypes, IInv
  <2>2. DetectFits(a) /\ job[a].proc \in Processes /\ job[a].version \in {Old, Current}
    BY <2>1 DEF IInv, JobFits, Detections
  <2>3. job'[a] = [op |-> "decided", proc |-> job[a].proc,
                   found |-> Verdict(job[a].proc, job[a].version)]
    BY <1>1, <1>3 DEF detectTypes
  <2>4. /\ Verdict(job[a].proc, job[a].version) \in Statuses
        /\ Verdict(job[a].proc, job[a].version) = "needs-upgrade" =>
              Wits \subseteq process[job[a].proc].types
        /\ Verdict(job[a].proc, job[a].version) = "installed" => job[a].version = Current
    BY <2>2 DEF Verdict, Statuses, missingWitRefs
  <2>5. job'[a] \in Decisions
    BY <2>2, <2>3, <2>4 DEF Decisions
  <2>6. process' = process
    BY <1>3 DEF detectTypes
  <2>7. JobFits(a)'
    BY <2>2, <2>3, <2>4, <2>6 DEF JobFits, DecisionFits, DetectFits, Exists, Working
  <2>. QED BY <2>5, <2>7 DEF Jobs
<1>. QED BY <1>2, <1>3

(* The start of a job. *)
LEMMA StartFits ==
    ASSUME IInv, NEW a \in Admins, Step(a),
           \/ \E p \in Processes, answered \in BOOLEAN : createProcess(a, p, answered)
           \/ upgradeSchema(a)
    PROVE  job'[a] \in Jobs /\ JobFits(a)'
<1>1. job \in [Admins -> Jobs]
  BY DEF IInv, TypeOK, Jobs
<1>2. CASE \E p \in Processes, answered \in BOOLEAN : createProcess(a, p, answered)
  <2>1. PICK p \in Processes, answered \in BOOLEAN : createProcess(a, p, answered)
    BY <1>2
  <2>2. job[a] \in Decisions
    BY <2>1, JobKinds DEF IInv, createProcess
  <2>3. CASE answered
    <3>1. job'[a] = NewJob("install", p, job[a].found, job[a].proc, "lists")
      BY <1>1, <2>1, <2>3 DEF createProcess
    <3>2. job'[a] \in WorkJobs
      BY <2>2, <3>1 DEF NewJob, WorkJobs, Decisions
    <3>3. process'[p] = Items({}, {}, {}, Current)
      BY <2>1 DEF createProcess, IInv, TypeOK
    <3>4. Exists(p)'
      BY <3>3, Distinct DEF Exists, NoProcess, Items
    <3>5. JobFits(a)'
      BY <3>1, <3>3, <3>4 DEF JobFits, WorkFits, InstallFits, InTypes, InOneType, NewJob,
         Working, Items
    <3>. QED BY <3>2, <3>5 DEF Jobs
  <2>4. CASE ~answered
    <3>1. job'[a] = Idle
      BY <1>1, <2>1, <2>4 DEF createProcess
    <3>. QED BY <3>1, IdleFits DEF Jobs
  <2>. QED BY <2>3, <2>4
<1>3. CASE upgradeSchema(a)
  <2>1. job[a] \in Decisions /\ DecisionFits(a) /\ job[a].found = "needs-upgrade"
    BY <1>3, JobKinds DEF IInv, upgradeSchema, JobFits
  <2>2. job'[a] = NewJob("upgrade", job[a].proc, job[a].found, job[a].proc, "listTypes")
        /\ process' = process
    BY <1>1, <1>3 DEF upgradeSchema
  <2>3. job'[a] \in WorkJobs
    BY <2>1, <2>2 DEF NewJob, WorkJobs, Decisions, DecisionFits
  <2>4. JobFits(a)'
    BY <2>1, <2>2 DEF JobFits, WorkFits, UpgradeFits, DecisionFits, InTypes, InOneType, NewJob,
         Working, Exists
  <2>. QED BY <2>3, <2>4 DEF Jobs
<1>. QED BY <1>2, <1>3

(* The listings and picklists before the first type. *)
Prepares(a) ==
    \/ listPicklists(a)
    \/ \E f \in Fields, answered \in BOOLEAN : createPicklist(a, f, answered)
    \/ preflightOrgFields(a)
    \/ listTypesToCreate(a) \/ listTypesToUpgrade(a) \/ listOrgFields(a)

(* The listings before the first type leave the job true to the organization. *)
LEMMA PreparationFits ==
    ASSUME IInv, NEW a \in Admins, Step(a), Prepares(a)
    PROVE  job'[a] \in Jobs /\ JobFits(a)'
<1>. USE InstallAssumption DEF InstallAssumption
<1>1. /\ job \in [Admins -> Jobs] /\ process \in [Processes -> ProcessItems]
      /\ lists \subseteq Fields /\ orgFields \in [Fields -> FieldKinds]
  BY DEF IInv, TypeOK, Jobs, ProcessItems
<1>2. Working(a) /\ process' = process
  BY DEF Prepares, Working, listPicklists, createPicklist, preflightOrgFields,
     listTypesToCreate, listTypesToUpgrade, listOrgFields
<1>3. job[a] \in WorkJobs /\ WorkFits(a) /\ job[a].proc \in Processes
  BY <1>2, JobKinds DEF IInv, JobFits, WorkJobs
<1>4. CASE job'[a] = Idle
  BY <1>4, IdleFits DEF Jobs
<1>5. CASE listPicklists(a)
  <2>1. job[a].op = "install" /\ job[a].stage = "lists" /\ InstallFits(a)
    BY <1>3, <1>5 DEF listPicklists, WorkFits
  <2>2. job'[a] = [job[a] EXCEPT !.known = lists, !.stage = "picklists"]
    BY <1>1, <1>5 DEF listPicklists
  <2>3. job'[a] \in WorkJobs /\ job'[a].stage = "picklists"
        /\ job'[a].op = job[a].op /\ job'[a].proc = job[a].proc
    BY <1>1, <1>3, <2>2 DEF WorkJobs
  <2>4. JobFits(a)'
    BY <1>2, <2>1, <2>3, JobGoesOn DEF InTypes, InOneType, InstallFits
  <2>. QED BY <2>3, <2>4 DEF Jobs
<1>6. CASE \E f \in Fields, answered \in BOOLEAN : createPicklist(a, f, answered)
  <2>1. PICK f \in Fields, answered \in BOOLEAN : createPicklist(a, f, answered)
    BY <1>6
  <2>2. job[a].op = "install" /\ job[a].stage = "picklists" /\ InstallFits(a)
    BY <1>3, <2>1 DEF createPicklist, WorkFits
  <2>3. job'[a] = Idle \/ job'[a] = [job[a] EXCEPT !.known = @ \cup {f}]
    BY <1>1, <2>1 DEF createPicklist, Goes, Stopped
  <2>4. CASE job'[a] = [job[a] EXCEPT !.known = @ \cup {f}]
    <3>1. job'[a] \in WorkJobs /\ job'[a].stage = "picklists"
          /\ job'[a].op = job[a].op /\ job'[a].proc = job[a].proc
      BY <1>3, <2>2, <2>4 DEF WorkJobs
    <3>2. JobFits(a)'
      BY <1>2, <2>2, <3>1, JobGoesOn DEF InTypes, InOneType, InstallFits
    <3>. QED BY <3>1, <3>2 DEF Jobs
  <2>. QED BY <1>4, <2>3, <2>4
<1>7. CASE preflightOrgFields(a)
  <2>1. job[a].op = "install" /\ job[a].stage = "picklists" /\ InstallFits(a)
    BY <1>3, <1>7 DEF preflightOrgFields, WorkFits
  <2>2. CASE Conflicts = {}
    <3>1. job'[a] = [job[a] EXCEPT !.toCreate = AbsentFields, !.stage = "listTypes"]
      BY <1>1, <1>7, <2>2 DEF preflightOrgFields
    <3>2. job'[a] \in WorkJobs /\ job'[a].stage = "listTypes"
          /\ job'[a].op = job[a].op /\ job'[a].proc = job[a].proc
      BY <1>3, <3>1 DEF WorkJobs, AbsentFields
    <3>3. NoConflict
      BY <1>1, <2>2 DEF Conflicts, NoConflict, SchemaFields, FieldKinds
    <3>4. NoConflict'
      BY <3>3, <1>7 DEF NoConflict, preflightOrgFields
    <3>5. JobFits(a)'
      BY <1>2, <2>1, <3>2, <3>4, JobGoesOn DEF InTypes, InOneType, InstallFits
    <3>. QED BY <3>2, <3>5 DEF Jobs
  <2>3. CASE Conflicts # {}
    BY <1>1, <1>4, <1>7, <2>3 DEF preflightOrgFields, Stopped
  <2>. QED BY <2>2, <2>3
<1>8. CASE listTypesToCreate(a)
  <2>1. job[a].op = "install" /\ job[a].stage = "listTypes" /\ InstallFits(a)
    BY <1>3, <1>8 DEF listTypesToCreate, WorkFits
  <2>2. job'[a] = [job[a] EXCEPT !.todo = missingWitRefs(job[a].proc), !.stage = "next"]
    BY <1>1, <1>8 DEF listTypesToCreate
  <2>3. missingWitRefs(job[a].proc) = Wits
    BY <2>1 DEF InstallFits, InTypes, missingWitRefs
  <2>4. job'[a] \in WorkJobs /\ job'[a].stage = "next" /\ job'[a].todo = Wits
        /\ job'[a].op = job[a].op /\ job'[a].proc = job[a].proc
    BY <1>3, <2>2, <2>3 DEF WorkJobs
  <2>5. NoConflict'
    BY <2>1, <1>8 DEF InstallFits, NoConflict, listTypesToCreate
  <2>6. JobFits(a)'
    BY <1>2, <2>4, <2>5, JobGoesOn DEF InTypes, InOneType, HandledComplete
  <2>. QED BY <2>4, <2>6 DEF Jobs
<1>9. CASE listTypesToUpgrade(a)
  <2>1. job[a].op = "upgrade" /\ UpgradeFits(a)
    BY <1>3, <1>9 DEF listTypesToUpgrade, WorkFits
  <2>2. job'[a] = [job[a] EXCEPT !.todo = process[job[a].proc].types, !.stage = "listFields"]
    BY <1>1, <1>9 DEF listTypesToUpgrade
  <2>3. process[job[a].proc].types \subseteq Wits
    BY <1>1, <1>3 DEF ProcessItems
  <2>4. job'[a] \in WorkJobs /\ job'[a].stage = "listFields" /\ Wits \subseteq job'[a].todo
        /\ job'[a].op = job[a].op /\ job'[a].proc = job[a].proc
    BY <1>3, <2>1, <2>2, <2>3 DEF WorkJobs, UpgradeFits
  <2>5. JobFits(a)'
    BY <1>2, <2>1, <2>4, JobGoesOn DEF InTypes, InOneType, HandledComplete
  <2>. QED BY <2>4, <2>5 DEF Jobs
<1>10. CASE listOrgFields(a)
  <2>1. job[a].op = "upgrade" /\ job[a].stage = "listFields" /\ HandledComplete(a)
    BY <1>3, <1>10 DEF listOrgFields, WorkFits, InTypes
  <2>2. job'[a] = [job[a] EXCEPT
                      !.toCreate = {f \in Fields : orgFields[f] \in {"none", "clash"}},
                      !.stage = "next"]
    BY <1>1, <1>10 DEF listOrgFields
  <2>3. job'[a] \in WorkJobs /\ job'[a].stage = "next" /\ job'[a].todo = job[a].todo
        /\ job'[a].op = job[a].op /\ job'[a].proc = job[a].proc
    BY <1>3, <2>2 DEF WorkJobs
  <2>4. HandledComplete(a)'
    BY <1>2, <2>1, <2>3 DEF HandledComplete, InOneType, TypeComplete
  <2>5. JobFits(a)'
    BY <1>2, <2>1, <2>3, <2>4, JobGoesOn DEF InTypes, InOneType
  <2>. QED BY <2>3, <2>5 DEF Jobs
<1>. QED BY <1>5, <1>6, <1>7, <1>8, <1>9, <1>10 DEF Prepares

(* A job turns to a type. *)
Turns(a) ==
    \/ \E w \in Wits, answered \in BOOLEAN : createType(a, w, answered)
    \/ \E w \in Wits : listAttached(a, w)

(* Creating the next type, or listing what it lacks, leaves the job true to the
   organization. *)
LEMMA TurnFits ==
    ASSUME IInv, NEW a \in Admins, Step(a), Turns(a)
    PROVE  job'[a] \in Jobs /\ JobFits(a)'
<1>. USE InstallAssumption DEF InstallAssumption
<1>1. job \in [Admins -> Jobs] /\ process \in [Processes -> ProcessItems]
  BY DEF IInv, TypeOK, Jobs, ProcessItems
<1>2. Working(a) /\ job[a].stage = "next"
  BY DEF Turns, Working, createType, listAttached
<1>3. job[a] \in WorkJobs /\ WorkFits(a) /\ job[a].proc \in Processes /\ HandledComplete(a)
  BY <1>2, JobKinds DEF IInv, JobFits, WorkJobs, WorkFits, InTypes
<1>4. CASE job'[a] = Idle
  BY <1>4, IdleFits DEF Jobs
<1>5. ASSUME NEW w \in Wits, NEW lacks \in SUBSET FieldsOf[w], w \in process'[job[a].proc].types,
             \A f \in FieldsOf[w] : f \in lacks \/ << w, f >> \in process'[job[a].proc].fields,
             job'[a] = [job[a] EXCEPT !.todo = @ \ {w}, !.wit = w, !.fields = lacks,
                                      !.stage = "fields"],
             NoConflict => NoConflict'
      PROVE  job'[a] \in Jobs /\ JobFits(a)'
  <2>1. lacks \in SUBSET Fields
    OBVIOUS
  <2>2. /\ job'[a] \in WorkJobs /\ job'[a].stage = "fields" /\ job'[a].wit = w
        /\ job'[a].todo = job[a].todo \ {w} /\ job'[a].fields = lacks
        /\ job'[a].op = job[a].op /\ job'[a].proc = job[a].proc
    BY <1>3, <1>5, <2>1 DEF WorkJobs
  <2>3. HandledComplete(a)'
    <3>1. PICK p \in Processes : p = job[a].proc
      BY <1>3
    <3>2. \A v \in Wits : TypeComplete(p, v) => TypeComplete(p, v)'
      BY ProcessStep, CompleteStays
    <3>. QED BY <1>2, <1>3, <2>2, <3>1, <3>2 DEF HandledComplete, InOneType, TypeComplete
  <2>4. CurrentType(a)'
    BY <1>5, <2>2 DEF CurrentType
  <2>5. job[a].op = "install" => NoConflict'
    BY <1>2, <1>3, <1>5 DEF WorkFits, InstallFits
  <2>6. JobFits(a)'
    BY <1>2, <2>2, <2>3, <2>4, <2>5, JobGoesOn DEF InTypes, InOneType
  <2>. QED BY <2>2, <2>6 DEF Jobs
<1>6. CASE \E w \in Wits, answered \in BOOLEAN : createType(a, w, answered)
  <2>1. PICK w \in Wits, answered \in BOOLEAN : createType(a, w, answered)
    BY <1>6
  <2>2. \/ job'[a] = Idle
        \/ job'[a] = [job[a] EXCEPT !.todo = @ \ {w}, !.wit = w,
                                    !.fields = FieldsOf[w], !.stage = "fields"]
    BY <1>1, <2>1 DEF createType, Goes, Stopped
  <2>3. w \in process'[job[a].proc].types
    BY <1>1, <1>3, <2>1 DEF createType, ProcessItems
  <2>4. NoConflict => NoConflict'
    BY <2>1 DEF createType, NoConflict
  <2>. QED BY <1>4, <1>5, <2>2, <2>3, <2>4
<1>7. CASE \E w \in Wits : listAttached(a, w)
  <2>1. PICK w \in Wits : listAttached(a, w)
    BY <1>7
  <2>2. job[a].op = "upgrade" /\ Wits \subseteq process[job[a].proc].types
        /\ process' = process /\ orgFields' = orgFields
    BY <1>3, <2>1 DEF listAttached, WorkFits, UpgradeFits
  <2>. DEFINE lacks == {f \in FieldsOf[w] : << w, f >> \notin process[job[a].proc].fields}
  <2>3. job'[a] = [job[a] EXCEPT !.todo = @ \ {w}, !.wit = w, !.fields = lacks,
                                 !.stage = "fields"]
    BY <1>1, <1>3, <2>1 DEF listAttached, WorkJobs
  <2>4. lacks \in SUBSET FieldsOf[w] /\ w \in process'[job[a].proc].types
        /\ \A f \in FieldsOf[w] : f \in lacks \/ << w, f >> \in process'[job[a].proc].fields
    BY <2>2
  <2>5. NoConflict => NoConflict'
    BY <2>2 DEF NoConflict
  <2>. HIDE DEF lacks
  <2>. QED BY <1>5, <2>3, <2>4, <2>5
<1>. QED BY <1>6, <1>7 DEF Turns

(* A job gives the type whose turn it is a field or a state. *)
Fills(a) ==
    \/ \E f \in Fields, answered \in BOOLEAN : \/ createFieldAtOrg(a, f, answered)
                                               \/ attachField(a, f, answered)
    \/ getExistingStates(a)
    \/ \E s \in States, answered \in BOOLEAN : createState(a, s, answered)
    \/ nextType(a)

(* Filling in a type and going on to the next leaves the job true to the
   organization. *)
LEMMA FillingFits ==
    ASSUME IInv, NEW a \in Admins, Step(a), Fills(a)
    PROVE  job'[a] \in Jobs /\ JobFits(a)'
<1>. USE InstallAssumption DEF InstallAssumption
<1>1. job \in [Admins -> Jobs] /\ process \in [Processes -> ProcessItems]
  BY DEF IInv, TypeOK, Jobs, ProcessItems
<1>2. Working(a) /\ InOneType(a)
  BY DEF Fills, Working, InOneType, createFieldAtOrg, attachField, getExistingStates,
     createState, nextType
<1>3. job[a] \in WorkJobs /\ WorkFits(a) /\ job[a].proc \in Processes
      /\ HandledComplete(a) /\ CurrentType(a)
  BY <1>2, JobKinds DEF IInv, JobFits, WorkJobs, WorkFits, InTypes, InOneType
<1>4. CASE job'[a] = Idle
  BY <1>4, IdleFits DEF Jobs
<1>5. PICK p \in Processes :
          /\ p = job[a].proc
          /\ ProcessGrows(p)
          /\ \A w \in Wits : TypeComplete(p, w) => TypeComplete(p, w)'
  BY <1>3, ProcessStep, CompleteStays
<1>6. job[a].op = "install" => NoConflict'
  <2>1. job[a].op = "install" => NoConflict
    BY <1>2, <1>3 DEF WorkFits, InstallFits, InOneType
  <2>. QED BY <2>1, OrganizationStep, NoConflictStays
<1>7. ASSUME /\ job'[a] \in WorkJobs
             /\ job'[a].op = job[a].op /\ job'[a].proc = job[a].proc
             /\ job'[a].wit = job[a].wit /\ job'[a].todo = job[a].todo,
             InOneType(a)' /\ CurrentType(a)'
      PROVE  job'[a] \in Jobs /\ JobFits(a)'
  <2>1. HandledComplete(a)'
    BY <1>3, <1>5, <1>7 DEF HandledComplete
  <2>2. JobFits(a)'
    BY <1>2, <1>6, <1>7, <2>1, JobGoesOn DEF InTypes, InOneType
  <2>. QED BY <1>7, <2>2 DEF Jobs
<1>8. CASE \E f \in Fields, answered \in BOOLEAN : createFieldAtOrg(a, f, answered)
  <2>1. PICK f \in Fields, answered \in BOOLEAN : createFieldAtOrg(a, f, answered)
    BY <1>8
  <2>2. job'[a] = Idle \/ job'[a] = [job[a] EXCEPT !.toCreate = @ \ {f}]
    BY <1>1, <2>1 DEF createFieldAtOrg, Goes, Stopped
  <2>3. CASE job'[a] = [job[a] EXCEPT !.toCreate = @ \ {f}]
    <3>1. /\ job'[a] \in WorkJobs /\ job'[a].stage = job[a].stage
          /\ job'[a].op = job[a].op /\ job'[a].proc = job[a].proc
          /\ job'[a].wit = job[a].wit /\ job'[a].todo = job[a].todo
          /\ job'[a].fields = job[a].fields /\ job'[a].states = job[a].states
      BY <1>3, <2>3 DEF WorkJobs
    <3>2. InOneType(a)' /\ CurrentType(a)'
      BY <1>2, <1>3, <1>5, <3>1 DEF InOneType, CurrentType, ProcessGrows
    <3>. QED BY <1>7, <3>1, <3>2
  <2>. QED BY <1>4, <2>2, <2>3
<1>9. CASE \E f \in Fields, answered \in BOOLEAN : attachField(a, f, answered)
  <2>1. PICK f \in Fields, answered \in BOOLEAN : attachField(a, f, answered)
    BY <1>9
  <2>2. job'[a] = Idle \/ job'[a] = [job[a] EXCEPT !.fields = @ \ {f}]
    BY <1>1, <2>1 DEF attachField, Goes, Stopped
  <2>3. CASE job'[a] = [job[a] EXCEPT !.fields = @ \ {f}]
    <3>1. /\ job'[a] \in WorkJobs /\ job'[a].stage = job[a].stage
          /\ job'[a].op = job[a].op /\ job'[a].proc = job[a].proc
          /\ job'[a].wit = job[a].wit /\ job'[a].todo = job[a].todo
          /\ job'[a].fields = job[a].fields \ {f}
      BY <1>3, <2>3 DEF WorkJobs
    <3>2. job[a].stage = "fields" /\ << job[a].wit, f >> \in process'[job[a].proc].fields
      BY <1>1, <1>3, <2>1 DEF attachField, ProcessItems
    <3>3. InOneType(a)' /\ CurrentType(a)'
      BY <1>2, <1>3, <1>5, <3>1, <3>2 DEF InOneType, CurrentType, ProcessGrows
    <3>. QED BY <1>7, <3>1, <3>3
  <2>. QED BY <1>4, <2>2, <2>3
<1>10. CASE getExistingStates(a)
  <2>. DEFINE lacks == {s \in StatesOf[job[a].wit] :
                           << job[a].wit, s >> \notin process[job[a].proc].states}
  <2>1. job[a].fields = {} /\ process' = process
        /\ job'[a] = [job[a] EXCEPT !.stage = "states", !.states = lacks]
    BY <1>1, <1>10 DEF getExistingStates
  <2>2. lacks \in SUBSET States
    BY <1>3 DEF CurrentType
  <2>3. \A s \in StatesOf[job[a].wit] :
           s \in lacks \/ << job[a].wit, s >> \in process[job[a].proc].states
    OBVIOUS
  <2>. HIDE DEF lacks
  <2>4. /\ job'[a] \in WorkJobs /\ job'[a].stage = "states"
        /\ job'[a].op = job[a].op /\ job'[a].proc = job[a].proc
        /\ job'[a].wit = job[a].wit /\ job'[a].todo = job[a].todo
        /\ job'[a].fields = {} /\ job'[a].states = lacks
    BY <1>3, <2>1, <2>2 DEF WorkJobs
  <2>5. InOneType(a)' /\ CurrentType(a)'
    BY <1>3, <2>1, <2>3, <2>4 DEF InOneType, CurrentType
  <2>. QED BY <1>7, <2>4, <2>5
<1>11. CASE \E s \in States, answered \in BOOLEAN : createState(a, s, answered)
  <2>1. PICK s \in States, answered \in BOOLEAN : createState(a, s, answered)
    BY <1>11
  <2>2. job'[a] = Idle \/ job'[a] = [job[a] EXCEPT !.states = @ \ {s}]
    BY <1>1, <2>1 DEF createState, Goes, Stopped
  <2>3. CASE job'[a] = [job[a] EXCEPT !.states = @ \ {s}]
    <3>1. /\ job'[a] \in WorkJobs /\ job'[a].stage = job[a].stage
          /\ job'[a].op = job[a].op /\ job'[a].proc = job[a].proc
          /\ job'[a].wit = job[a].wit /\ job'[a].todo = job[a].todo
          /\ job'[a].fields = job[a].fields /\ job'[a].states = job[a].states \ {s}
      BY <1>3, <2>3 DEF WorkJobs
    <3>2. job[a].stage = "states" /\ << job[a].wit, s >> \in process'[job[a].proc].states
      BY <1>1, <1>3, <2>1 DEF createState, ProcessItems
    <3>3. InOneType(a)' /\ CurrentType(a)'
      BY <1>2, <1>3, <1>5, <3>1, <3>2 DEF InOneType, CurrentType, ProcessGrows
    <3>. QED BY <1>7, <3>1, <3>3
  <2>. QED BY <1>4, <2>2, <2>3
<1>12. CASE nextType(a)
  <2>1. job[a].stage = "states" /\ job[a].states = {} /\ process' = process
        /\ job'[a] = [job[a] EXCEPT !.stage = "next"]
    BY <1>1, <1>12 DEF nextType
  <2>2. /\ job'[a] \in WorkJobs /\ job'[a].stage = "next"
        /\ job'[a].op = job[a].op /\ job'[a].proc = job[a].proc
        /\ job'[a].todo = job[a].todo
    BY <1>3, <2>1 DEF WorkJobs
  <2>3. TypeComplete(job[a].proc, job[a].wit)
    BY <1>3, <2>1 DEF CurrentType, TypeComplete
  <2>4. HandledComplete(a)'
    BY <1>3, <1>5, <2>2, <2>3 DEF HandledComplete
  <2>5. JobFits(a)'
    BY <1>2, <1>6, <2>2, <2>4, JobGoesOn DEF InTypes, InOneType
  <2>. QED BY <2>2, <2>5 DEF Jobs
<1>. QED BY <1>8, <1>9, <1>10, <1>11, <1>12 DEF Fills

(* What the end of a job, and the assignment of a project, leave of it. *)
Ends(a) ==
    \/ \E p \in Processes : createRefused(a, p)
    \/ \E j \in Projects : assignProject(a, j)
    \/ installComplete(a) \/ updateMarker(a) \/ fail(a)

(* The actions of an administrator, grouped as the proof treats them. *)
LEMMA StepKinds ==
    ASSUME NEW a \in Admins, Step(a)
    PROVE  \/ detectInstallState(a) \/ detectTypes(a)
           \/ \E p \in Processes, answered \in BOOLEAN : createProcess(a, p, answered)
           \/ upgradeSchema(a)
           \/ Prepares(a) \/ Turns(a) \/ Fills(a) \/ Ends(a)
BY DEF Step, Requests, Prepares, Turns, Fills, Ends

(* The job of the administrator who takes the step fits after it. *)
LEMMA OwnJobFits ==
    ASSUME IInv, NEW a \in Admins, Step(a)
    PROVE  job'[a] \in Jobs /\ JobFits(a)'
<1>1. job \in [Admins -> Jobs] /\ JobFits(a)
  BY DEF IInv, TypeOK, Jobs
<1>2. CASE Ends(a)
  <2>1. CASE \E j \in Projects : assignProject(a, j)
    <3>1. job' = job /\ process' = process /\ orgFields' = orgFields
      BY <2>1 DEF assignProject
    <3>2. JobFits(a)' <=> JobFits(a)
      BY <3>1 DEF JobFits, DetectFits, DecisionFits, WorkFits, InstallFits, UpgradeFits,
         HandledComplete, CurrentType, InTypes, InOneType, TypeComplete, NoConflict,
         Exists, Working
    <3>. QED BY <1>1, <3>1, <3>2
  <2>2. CASE ~\E j \in Projects : assignProject(a, j)
    <3>1. job'[a] = Idle
      BY <1>1, <1>2, <2>2 DEF Ends, createRefused, installComplete, updateMarker, fail, Stopped
    <3>. QED BY <3>1, IdleFits DEF Jobs
  <2>. QED BY <2>1, <2>2
<1>. QED BY <1>2, StepKinds, DetectionFits, StartFits, PreparationFits, TurnFits, FillingFits

(* Every job fits after the step. *)
LEMMA JobsStep ==
    ASSUME IInv, NEW a \in Admins, Step(a)
    PROVE  job' \in [Admins -> Jobs] /\ \A b \in Admins : JobFits(b)'
<1>1. \A b \in Admins : job'[b] \in Jobs /\ JobFits(b)'
  BY OwnJobFits, OthersStillFit, OthersKeepTheirJob DEF IInv, TypeOK, Jobs
<1>2. DOMAIN job' = Admins /\ job' = [b \in Admins |-> job'[b]]
  BY DEF IInv, TypeOK, Step, Requests, Goes, Stopped, detectInstallState, detectTypes,
       createRefused, listPicklists, preflightOrgFields, listTypesToCreate,
       upgradeSchema, listTypesToUpgrade, listOrgFields, listAttached,
       getExistingStates, nextType, installComplete, fail, createProcess, createType,
       attachField, createState, updateMarker, createPicklist, createFieldAtOrg, assignProject
<1>. QED BY <1>1, <1>2

-----------------------------------------------------------------------------
(* Who works on which process *)

(* A type created leaves the job what it is, or ends it. *)
LEMMA TypeCreated ==
    ASSUME IInv, NEW a \in Admins, NEW w \in Wits, NEW answered, createType(a, w, answered)
    PROVE  Stopped(a) \/ (job'[a].op = job[a].op /\ job'[a].proc = job[a].proc)
<1>1. job \in [Admins -> Jobs] /\ job[a] \in WorkJobs
  BY JobKinds DEF IInv, TypeOK, Jobs, Working, createType
<1>2. CASE answered
  <2>1. job' = [job EXCEPT ![a] = [job[a] EXCEPT !.todo = @ \ {w}, !.wit = w,
                                          !.fields = FieldsOf[w], !.stage = "fields"]]
    BY <1>2 DEF createType, Goes
  <2>2. job'[a] = [job[a] EXCEPT !.todo = @ \ {w}, !.wit = w,
                                 !.fields = FieldsOf[w], !.stage = "fields"]
    BY <1>1, <2>1
  <2>. QED BY <1>1, <2>2 DEF WorkJobs
<1>3. CASE ~answered
  BY <1>3 DEF createType, Goes
<1>. QED BY <1>2, <1>3

(* A claim is kept, or laid on a process that did not exist or is an older one. *)
LEMMA ClaimStep ==
    ASSUME IInv, NEW a \in Admins, Step(a), Claims(a)'
    PROVE  \/ /\ Claims(a) /\ job'[a].proc = job[a].proc
              /\ job'[a].op = "install" => job[a].op = "install"
           \/ \E p \in Processes : /\ job'[a].proc = p
                                   /\ ~Exists(p)
           \/ /\ job'[a].op = "detect"
              /\ \E p \in Processes : job'[a].proc = p /\ process[p].marker # Current
<1>1. job \in [Admins -> Jobs]
  BY DEF IInv, TypeOK, Jobs
<1>2. CASE detectInstallState(a)
  BY <1>1, <1>2 DEF detectInstallState, Claims, Working
<1>3. CASE detectTypes(a)
  <2>1. job'[a] = [op |-> "decided", proc |-> job[a].proc,
                   found |-> Verdict(job[a].proc, job[a].version)]
    BY <1>1, <1>3 DEF detectTypes
  <2>2. job[a].version \in {Old, Current}
    BY <1>3, JobKinds DEF IInv, detectTypes, Detections
  <2>. QED BY <1>3, <2>1, <2>2, Distinct DEF Verdict, detectTypes, Claims, Working
<1>4. CASE \E p \in Processes, answered \in BOOLEAN : createProcess(a, p, answered)
  BY <1>1, <1>4 DEF createProcess, NewJob, Claims, Working, Idle
<1>5. CASE upgradeSchema(a)
  BY <1>1, <1>5 DEF upgradeSchema, NewJob, Claims, Working
<1>6. CASE job'[a] = Idle
  BY <1>6 DEF Claims, Idle, Working
<1>7. ASSUME job[a] \in WorkJobs, Working(a), job'[a].op = job[a].op,
             job'[a].proc = job[a].proc
      PROVE  /\ Claims(a) /\ job'[a].proc = job[a].proc
             /\ job'[a].op = "install" => job[a].op = "install"
  BY <1>7 DEF Claims
<1>8. CASE Prepares(a) \/ Turns(a) \/ Fills(a)
  <2>1. Working(a) /\ job[a] \in WorkJobs
    BY <1>8, JobKinds DEF IInv, Prepares, Turns, Fills, Working, listPicklists, createPicklist,
       preflightOrgFields, listTypesToCreate, listTypesToUpgrade, listOrgFields, createType,
       listAttached, createFieldAtOrg, attachField, getExistingStates, createState, nextType
  <2>2. job'[a] = Idle \/ (job'[a].op = job[a].op /\ job'[a].proc = job[a].proc)
    <3>1. CASE listPicklists(a) \/ preflightOrgFields(a)
      BY <1>1, <2>1, <3>1 DEF WorkJobs, listPicklists, preflightOrgFields, Stopped
    <3>2. CASE \E f \in Fields, answered \in BOOLEAN : createPicklist(a, f, answered)
      BY <1>1, <2>1, <3>2 DEF WorkJobs, createPicklist, Goes, Stopped
    <3>3. CASE listTypesToCreate(a) \/ listTypesToUpgrade(a) \/ listOrgFields(a)
      BY <1>1, <2>1, <3>3 DEF WorkJobs, listTypesToCreate, listTypesToUpgrade, listOrgFields
    <3>4. CASE \E w \in Wits, answered \in BOOLEAN : createType(a, w, answered)
      BY <1>1, <3>4, TypeCreated DEF Stopped
    <3>5. CASE \E w \in Wits : listAttached(a, w)
      BY <1>1, <2>1, <3>5 DEF WorkJobs, listAttached
    <3>6. CASE \E f \in Fields, answered \in BOOLEAN : createFieldAtOrg(a, f, answered)
      BY <1>1, <2>1, <3>6 DEF WorkJobs, createFieldAtOrg, Goes, Stopped
    <3>7. CASE \E f \in Fields, answered \in BOOLEAN : attachField(a, f, answered)
      BY <1>1, <2>1, <3>7 DEF WorkJobs, attachField, Goes, Stopped
    <3>8. CASE \E s \in States, answered \in BOOLEAN : createState(a, s, answered)
      BY <1>1, <2>1, <3>8 DEF WorkJobs, createState, Goes, Stopped
    <3>9. CASE getExistingStates(a) \/ nextType(a)
      BY <1>1, <2>1, <3>9 DEF WorkJobs, getExistingStates, nextType
    <3>. QED BY <1>8, <3>1, <3>2, <3>3, <3>4, <3>5, <3>6, <3>7, <3>8, <3>9
             DEF Prepares, Turns, Fills
  <2>. QED BY <1>6, <1>7, <2>1, <2>2
<1>9. CASE Ends(a)
  <2>1. job' = job \/ job'[a] = Idle
    BY <1>1, <1>9 DEF Ends, createRefused, assignProject, installComplete, updateMarker,
       fail, Stopped
  <2>. QED BY <1>6, <2>1 DEF Claims, Working
<1>. QED BY <1>2, <1>3, <1>4, <1>5, <1>8, <1>9, StepKinds

(* A process somebody claims exists. *)
LEMMA ClaimedExists ==
    ASSUME IInv, NEW a \in Admins, Claims(a)
    PROVE  \E p \in Processes : p = job[a].proc /\ Exists(p)
BY JobKinds DEF IInv, Claims, JobFits, DetectFits, DecisionFits, WorkFits, Detections,
   WorkJobs, Working

(* Two installs never fill one process. *)
LEMMA InstallsStayAlone ==
    ASSUME IInv, NEW a \in Admins, Step(a)
    PROVE  InstallsAlone'
<1>. SUFFICES ASSUME NEW x \in Admins, NEW y \in Admins, x # y,
                     job'[x].op = "install", Claims(y)'
              PROVE  job'[x].proc # job'[y].proc
  BY DEF InstallsAlone
<1>1. \A b \in Admins : b # a => job'[b] = job[b]
  BY OthersKeepTheirJob
<1>2. \A b \in Admins : b # a /\ Claims(b)' => Claims(b)
  BY <1>1 DEF Claims, Working
<1>3. \A b \in Admins : job[b].op = "install" =>
         \E p \in Processes : p = job[b].proc /\ Exists(p) /\ process[p].marker = Current
  BY ClaimedExists DEF IInv, Claims, Working, JobFits, WorkFits, InstallFits
<1>4. CASE a # x /\ a # y
  BY <1>1, <1>2, <1>4 DEF IInv, InstallsAlone
<1>5. CASE a = x
  <2>1. job'[y] = job[y] /\ Claims(y) /\ Claims(a)'
    BY <1>1, <1>2, <1>5 DEF Claims, Working
  <2>2. \/ job'[a].proc = job[a].proc /\ job[a].op = "install"
        \/ \E p \in Processes : job'[a].proc = p /\ ~Exists(p)
    BY <1>5, <2>1, ClaimStep
  <2>. QED BY <1>5, <2>1, <2>2, ClaimedExists DEF IInv, InstallsAlone
<1>6. CASE a = y
  <2>1. job'[x] = job[x] /\ job[x].op = "install"
    BY <1>1, <1>6
  <2>. QED BY <1>3, <1>6, <2>1, ClaimStep DEF IInv, InstallsAlone
<1>. QED BY <1>4, <1>5, <1>6

-----------------------------------------------------------------------------
(* The current version stands for a complete process *)

(* An install goes on, is recorded as cut short, or leaves its process complete. *)
LEMMA InstallEnds ==
    ASSUME IInv, NEW a \in Admins, Step(a), job[a].op = "install"
    PROVE  \/ job'[a].op = "install" /\ job'[a].proc = job[a].proc
           \/ job[a].proc \in cut'
           \/ Complete(job[a].proc) /\ process' = process
<1>1. job \in [Admins -> Jobs] /\ job[a] \in WorkJobs /\ WorkFits(a)
  BY JobKinds DEF IInv, TypeOK, Jobs, JobFits, Working
<1>2. CASE installComplete(a)
  <2>1. job[a].stage = "next" /\ job[a].todo = {} /\ process' = process
    BY <1>2 DEF installComplete, TypesDone
  <2>. QED BY <1>1, <2>1 DEF WorkFits, InTypes, InOneType, HandledComplete, Complete
<1>3. CASE Stopped(a)
  BY <1>3 DEF Stopped
<1>4. CASE Prepares(a) \/ Turns(a) \/ Fills(a)
  <2>1. CASE listPicklists(a)
    BY <1>1, <2>1 DEF WorkJobs, listPicklists
  <2>2. CASE preflightOrgFields(a)
    BY <1>1, <1>3, <2>2 DEF WorkJobs, preflightOrgFields
  <2>3. CASE \E f \in Fields, answered \in BOOLEAN : createPicklist(a, f, answered)
    BY <1>1, <1>3, <2>3 DEF WorkJobs, createPicklist, Goes
  <2>4. CASE listTypesToCreate(a) \/ listTypesToUpgrade(a) \/ listOrgFields(a)
    BY <1>1, <2>4 DEF WorkJobs, listTypesToCreate, listTypesToUpgrade, listOrgFields
  <2>5. CASE \E w \in Wits, answered \in BOOLEAN : createType(a, w, answered)
    BY <1>3, <2>5, TypeCreated
  <2>6. CASE \E w \in Wits : listAttached(a, w)
    BY <1>1, <2>6 DEF WorkJobs, listAttached
  <2>7. CASE \E f \in Fields, answered \in BOOLEAN : createFieldAtOrg(a, f, answered)
    BY <1>1, <1>3, <2>7 DEF WorkJobs, createFieldAtOrg, Goes
  <2>8. CASE \E f \in Fields, answered \in BOOLEAN : attachField(a, f, answered)
    BY <1>1, <1>3, <2>8 DEF WorkJobs, attachField, Goes
  <2>9. CASE \E s \in States, answered \in BOOLEAN : createState(a, s, answered)
    BY <1>1, <1>3, <2>9 DEF WorkJobs, createState, Goes
  <2>10. CASE getExistingStates(a) \/ nextType(a)
    BY <1>1, <2>10 DEF WorkJobs, getExistingStates, nextType
  <2>. QED BY <1>4, <2>1, <2>2, <2>3, <2>4, <2>5, <2>6, <2>7, <2>8, <2>9, <2>10
           DEF Prepares, Turns, Fills
<1>5. CASE \E j \in Projects : assignProject(a, j)
  BY <1>5 DEF assignProject
<1>6. CASE fail(a)
  BY <1>3, <1>6 DEF fail
<1>7. ~(\/ detectInstallState(a) \/ detectTypes(a) \/ upgradeSchema(a) \/ updateMarker(a)
        \/ \E p \in Processes, answered \in BOOLEAN : createProcess(a, p, answered)
        \/ \E p \in Processes : createRefused(a, p))
  BY DEF detectInstallState, detectTypes, createProcess, upgradeSchema, createRefused,
     updateMarker, Idle
<1>. QED BY <1>2, <1>4, <1>5, <1>6, <1>7, StepKinds DEF Ends

(* An install cut short stays recorded. *)
LEMMA CutGrows ==
    ASSUME IInv, NEW a \in Admins, Step(a)
    PROVE  cut \subseteq cut' /\ cut' \subseteq Processes
<1>1. cut \subseteq Processes /\ (job[a].op = "install" => job[a].proc \in Processes)
  BY JobKinds DEF IInv, TypeOK, WorkJobs, Working
<1>2. \/ cut' = cut
      \/ \E p \in Processes : cut' = cut \cup {p}
      \/ Stopped(a)
  BY DEF Step, Requests, Goes, detectInstallState, detectTypes,
       createRefused, listPicklists, preflightOrgFields, listTypesToCreate,
       upgradeSchema, listTypesToUpgrade, listOrgFields, listAttached,
       getExistingStates, nextType, installComplete, fail, createProcess, createType,
       attachField, createState, updateMarker, createPicklist, createFieldAtOrg, assignProject
<1>. QED BY <1>1, <1>2 DEF Stopped

(* The marker becomes current with a new process or at the end of an upgrade. *)
LEMMA MarkerStep ==
    ASSUME IInv, NEW a \in Admins, Step(a), NEW p \in Processes,
           process[p].marker # Current, process'[p].marker = Current
    PROVE  \/ /\ process[p] = NoProcess
              /\ p \in cut' \/ (job'[a].op = "install" /\ job'[a].proc = p)
           \/ updateMarker(a) /\ p = job[a].proc /\ Complete(p)'
<1>1. /\ process \in [Processes -> ProcessItems]
      /\ job \in [Admins -> Jobs]
  BY DEF IInv, TypeOK, ProcessItems, Jobs
<1>2. CASE \E q \in Processes, answered \in BOOLEAN : createProcess(a, q, answered)
  <2>1. PICK q \in Processes, answered \in BOOLEAN : createProcess(a, q, answered)
    BY <1>2
  <2>2. p = q /\ process[p] = NoProcess
    BY <1>1, <2>1 DEF createProcess, Exists
  <2>3. p \in cut' \/ (job'[a].op = "install" /\ job'[a].proc = p)
    BY <1>1, <2>1, <2>2 DEF createProcess, NewJob
  <2>. QED BY <2>2, <2>3
<1>3. CASE updateMarker(a)
  <2>1. job[a].op = "upgrade" /\ job[a].stage = "next" /\ job[a].todo = {}
        /\ process' = [process EXCEPT ![job[a].proc].marker = Current]
    BY <1>3 DEF updateMarker, TypesDone
  <2>2. p = job[a].proc
    BY <1>1, <2>1
  <2>3. WorkFits(a)
    BY <2>1 DEF IInv, JobFits, Working
  <2>4. Complete(p)
    BY <2>1, <2>2, <2>3 DEF WorkFits, InTypes, InOneType, HandledComplete, Complete
  <2>. QED BY <1>3, <2>2, <2>4, ProcessStep, CompleteStays
<1>4. CASE Writes(a)
  <2>1. CASE \E w \in Wits, answered \in BOOLEAN : createType(a, w, answered)
    BY <1>1, <2>1 DEF createType, ProcessItems
  <2>2. CASE \E f \in Fields, answered \in BOOLEAN : attachField(a, f, answered)
    BY <1>1, <2>2 DEF attachField, ProcessItems
  <2>3. CASE \E s \in States, answered \in BOOLEAN : createState(a, s, answered)
    BY <1>1, <2>3 DEF createState, ProcessItems
  <2>. QED BY <1>2, <1>3, <1>4, <2>1, <2>2, <2>3
           DEF Writes, createPicklist, createFieldAtOrg, assignProject
<1>. QED BY <1>4, OthersOnlyRead DEF Organization

(* A process with the current marker is complete, being installed or cut short. *)
LEMMA CurrentStaysComplete ==
    ASSUME IInv, NEW a \in Admins, Step(a)
    PROVE  CurrentIsComplete'
<1>. SUFFICES ASSUME NEW p \in Processes, process'[p].marker = Current
              PROVE  Complete(p)' \/ p \in cut' \/ InstallUnderWay(p)'
  BY DEF CurrentIsComplete
<1>1. Complete(p) => Complete(p)'
  BY ProcessStep, CompleteStays
<1>2. CASE process[p].marker # Current
  BY <1>2, MarkerStep DEF InstallUnderWay
<1>3. CASE process[p].marker = Current
  <2>1. Complete(p) \/ p \in cut \/ InstallUnderWay(p)
    BY <1>3 DEF IInv, CurrentIsComplete
  <2>2. ASSUME NEW b \in Admins, job[b].op = "install", job[b].proc = p
        PROVE  Complete(p)' \/ p \in cut' \/ InstallUnderWay(p)'
    <3>1. CASE b = a
      BY <1>1, <2>2, <3>1, InstallEnds DEF InstallUnderWay
    <3>2. CASE b # a
      BY <2>2, <3>2, OthersKeepTheirJob DEF InstallUnderWay
    <3>. QED BY <3>1, <3>2
  <2>. QED BY <1>1, <2>1, <2>2, CutGrows DEF InstallUnderWay
<1>. QED BY <1>2, <1>3

(* A project is moved to complete processes only, and they stay complete. *)
LEMMA ProjectsStep ==
    ASSUME IInv, NEW a \in Admins, Step(a)
    PROVE  /\ template' \in [Projects -> Processes \cup {"none"}]
           /\ ProjectsGetCompleteProcesses'
<1>. USE InstallAssumption DEF InstallAssumption
<1>1. /\ template \in [Projects -> Processes \cup {"none"}]
      /\ ProjectsGetCompleteProcesses
  BY DEF IInv, TypeOK
<1>2. \A p \in Processes : Complete(p) => Complete(p)'
  BY ProcessStep, CompleteStays
<1>3. CASE template' = template
  BY <1>1, <1>2, <1>3 DEF ProjectsGetCompleteProcesses
<1>4. CASE \E j \in Projects : assignProject(a, j)
  <2>1. PICK j \in Projects : assignProject(a, j)
    BY <1>4
  <2>2. job[a].op = "install" /\ job[a].stage = "next" /\ job[a].todo = {}
        /\ template' = [template EXCEPT ![j] = job[a].proc]
    BY <2>1 DEF assignProject, TypesDone
  <2>3. job[a].proc \in Processes /\ WorkFits(a)
    BY <2>2, JobKinds DEF IInv, JobFits, Working, WorkJobs
  <2>4. PICK p \in Processes : p = job[a].proc /\ Complete(p)
    BY <2>2, <2>3 DEF WorkFits, InTypes, InOneType, HandledComplete, Complete
  <2>5. template' = [template EXCEPT ![j] = p] /\ Complete(p)'
    BY <1>2, <2>2, <2>4
  <2>. QED BY <1>1, <1>2, <2>5 DEF ProjectsGetCompleteProcesses
<1>5. template' = template \/ \E j \in Projects : assignProject(a, j)
  BY OthersOnlyRead DEF Writes, Organization, createProcess, createType, attachField,
     createState, updateMarker, createPicklist, createFieldAtOrg
<1>. QED BY <1>3, <1>4, <1>5

-----------------------------------------------------------------------------
(* The invariant is inductive *)

(* The processes earlier releases left satisfy the invariant. *)
LEMMA IInvInit == Init => IInv
<1>. SUFFICES ASSUME Init PROVE IInv
  OBVIOUS
<1>. USE InstallAssumption, Distinct DEF InstallAssumption
<1>1. \A p \in Processes : ProcessFits(p) /\ process[p].marker # Current
  <2>1. TAKE p \in Processes
  <2>2. CASE process[p] = NoProcess
    BY <2>2 DEF ProcessFits, ProcessItems, Attached, NoProcess, Items
  <2>3. CASE process[p] \in Legacy
    <3>1. process[p] \in ProcessItems /\ process[p].marker = Old
      BY <2>3 DEF ProcessItems
    <3>2. Attached(p)
      BY <2>3 DEF Attached
    <3>. QED BY <3>1, <3>2 DEF ProcessFits
  <2>. QED BY <2>2, <2>3 DEF Init
<1>2. process \in [Processes -> ProcessItems]
  <2>1. \A p \in Processes : process[p] \in ProcessItems
    BY <1>1 DEF ProcessFits
  <2>. QED BY <2>1 DEF Init
<1>3. \A a \in Admins : job[a] = Idle
  BY DEF Init
<1>4. TypeOK
  BY <1>1, <1>2 DEF Init, TypeOK, ProcessItems, ProcessFits, Attached
<1>5. MarkedExists /\ CurrentIsComplete
  BY <1>1 DEF MarkedExists, ProcessFits, CurrentIsComplete
<1>6. (\A a \in Admins : JobFits(a)) /\ InstallsAlone
  BY <1>3 DEF JobFits, InstallsAlone, Claims, Working, Idle
<1>7. ProjectsGetCompleteProcesses
  BY DEF Init, ProjectsGetCompleteProcesses
<1>. QED BY <1>4, <1>5, <1>6, <1>7 DEF IInv

(* Every step keeps the invariant. *)
LEMMA IInvStep == IInv /\ [Next]_vars => IInv'
<1>. SUFFICES ASSUME IInv, [Next]_vars PROVE IInv'
  OBVIOUS
<1>1. CASE UNCHANGED vars
  BY <1>1 DEF vars, IInv, TypeOK, MarkedExists, JobFits, DetectFits, DecisionFits, WorkFits,
     InstallFits, UpgradeFits, HandledComplete, CurrentType, InTypes, InOneType, TypeComplete,
     NoConflict, Exists, Working, InstallsAlone, Claims, CurrentIsComplete, InstallUnderWay,
     Complete, ProjectsGetCompleteProcesses
<1>2. CASE Next
  <2>1. PICK a \in Admins : Step(a)
    BY <1>2, StepOfSomebody
  <2>2. \A p \in Processes : ProcessFits(p)'
    BY <2>1, ProcessStep
  <2>3. TypeOK'
    BY <2>1, <2>2, OrganizationStep, JobsStep, ProjectsStep, CutGrows
       DEF TypeOK, ProcessFits, ProcessItems, Attached, Jobs
  <2>4. MarkedExists'
    BY <2>2 DEF MarkedExists, ProcessFits
  <2>. QED BY <2>1, <2>3, <2>4, JobsStep, InstallsStayAlone, CurrentStaysComplete, ProjectsStep
           DEF IInv
<1>. QED BY <1>1, <1>2

(* The inductive invariant holds in every state of every behaviour. *)
LEMMA Invariance == Spec => []IInv
<1>. QED BY IInvInit, IInvStep, PTL DEF Spec

-----------------------------------------------------------------------------
(* Theorems *)

(* The organization and the jobs stay well formed, and no type gets a field
   that the schema does not give it, whoever installs and upgrades. *)
THEOREM TypeCorrect == Spec => []TypeOK
<1>1. IInv => TypeOK
  BY DEF IInv
<1>. QED BY <1>1, Invariance, PTL

(* Detection answers "installed" of a process on which no install is under way
   or was cut short only when it has the whole schema: the marker is trusted
   by detectInstallState, and it is right. *)
THEOREM InstalledIsComplete == Spec => []InstalledMeansComplete
<1>1. IInv => InstalledMeansComplete
  BY DEF IInv, InstalledMeansComplete, JobFits, DecisionFits, CurrentIsComplete
<1>. QED BY <1>1, Invariance, PTL

(* install moves a project only to a process with every type, field and state
   of the schema, which it keeps. *)
THEOREM ProjectsAreServed == Spec => []ProjectsGetCompleteProcesses
<1>1. IInv => ProjectsGetCompleteProcesses
  BY DEF IInv
<1>. QED BY <1>1, Invariance, PTL

(* The pre-flight of install comes before every type: where a field of the
   schema is taken, the process of an install under way has no type. *)
THEOREM ConflictStops == Spec => []ConflictStopsInstall
<1>1. IInv => ConflictStopsInstall
  BY DEF IInv, ConflictStopsInstall, JobFits, WorkFits, InstallFits, InTypes, NoConflict, Working
<1>. QED BY <1>1, Invariance, PTL

(* upgradeSchema writes the current version only on a process that has the
   whole schema, however many upgrades are under way or were cut short. *)
THEOREM UpgradedIsComplete == Spec => UpgradedMeansComplete
<1>1. ASSUME IInv, [Next]_vars
      PROVE  [\A p \in Processes :
                 (process[p].marker = Old /\ process'[p].marker = Current) => Complete(p)']_vars
  <2>1. CASE Next
    <3>1. PICK a \in Admins : Step(a)
      BY <2>1, StepOfSomebody
    <3>2. ASSUME NEW p \in Processes, process[p].marker = Old, process'[p].marker = Current
          PROVE  Complete(p)'
      BY <1>1, <3>1, <3>2, MarkerStep, Distinct DEF NoProcess, Items
    <3>. QED BY <3>2
  <2>. QED BY <1>1, <2>1
<1>. QED BY <1>1, Invariance, PTL DEF Spec, UpgradedMeansComplete

=============================================================================
