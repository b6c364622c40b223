---------------------------- MODULE ProcessInstall ----------------------------
(***************************************************************************)
(* Installing the schema in an Azure DevOps (ADO) organization:            *)
(* packages/argos-sdk/src/process-install.ts, as the install wizard of the *)
(* hub and the install command of the command line tool call it.           *)
(*                                                                         *)
(* An installation is some two hundred requests: an inherited process that *)
(* carries the schema version in its description from the start, picklists,*)
(* then type after type its fields (created in the organization, attached  *)
(* to the type) and states.  Nothing is undone when a request fails or the *)
(* tab is closed.  An upgrade fills in what the types of a process lack    *)
(* and writes the new version last.  Several administrators may be at it.  *)
(*                                                                         *)
(* The fields and the states of a type are handled in the order of the     *)
(* schema; here in any order.  A process is known by its name.             *)
(***************************************************************************)
EXTENDS Naturals

CONSTANTS Admins, Processes, Projects,
          Wits, Fields, States,
          FieldsOf,      \* FieldsOf[w]: the custom fields of type w in the schema
          StatesOf,      \* StatesOf[w]: the states of type w in the schema
          Picklists,     \* the fields whose values are a picklist
          DefaultStates, \* the states ADO gives to every new type
          Old, Current,  \* schema versions: an earlier one, the one installed now
          Legacy         \* what earlier releases may have left of a process

VARIABLES
    process,   \* process[p]: the inherited process named p, or NoProcess
    orgFields, \* orgFields[f]: what the organization has under f's names
    lists,     \* the picklists of the organization
    template,  \* template[j]: the process project j is assigned to, or "none"
    job,       \* job[a]: what administrator a is doing, or Idle
    cut        \* history: the processes on which an install was cut short

vars == << process, orgFields, lists, template, job, cut >>

InstallAssumption ==
    /\ FieldsOf \in [Wits -> SUBSET Fields]
    /\ StatesOf \in [Wits -> SUBSET States]
    /\ Picklists \subseteq Fields
    /\ DefaultStates \subseteq States
    /\ Old \in Nat /\ Current \in Nat /\ 0 < Old /\ Old < Current
    /\ "none" \notin Processes
    /\ Legacy \subseteq [marker: {Old}, types: SUBSET Wits,
                         fields: SUBSET (Wits \X Fields),
                         states: SUBSET (Wits \X States)]
    /\ \A old \in Legacy :
          /\ \A item \in old.fields : item[1] \in old.types /\ item[2] \in FieldsOf[item[1]]
          /\ \A item \in old.states : item[1] \in old.types
ASSUME InstallAssumption

Items(types, fields, states, marker) ==
    [marker |-> marker, types |-> types, fields |-> fields, states |-> states]

NoProcess == Items({}, {}, {}, 0)
Exists(p) == process[p] # NoProcess

(* "clash": the name of the field belongs to another one; "wrongType": the
   field is there with another type. *)
FieldKinds == {"none", "ours", "clash", "wrongType"}

Idle == [op |-> "idle"]

Statuses == {"not-installed", "partial", "needs-upgrade", "installed"}

-----------------------------------------------------------------------------
(* What the schema asks of a type, and of a process *)

TypeComplete(p, w) ==
    /\ w \in process[p].types
    /\ \A f \in FieldsOf[w] : << w, f >> \in process[p].fields
    /\ \A s \in StatesOf[w] : << w, s >> \in process[p].states

Complete(p) == \A w \in Wits : TypeComplete(p, w)

-----------------------------------------------------------------------------
(* Detection: the list of processes, then the types of the one found *)

detectInstallState(a) ==
    /\ job[a] = Idle
    /\ \/ /\ \A p \in Processes : ~Exists(p)
          /\ job' = [job EXCEPT ![a] = [op |-> "decided", found |-> "not-installed",
                                        proc |-> "none"]]
       \/ \E p \in Processes :
             /\ Exists(p)
             /\ job' = [job EXCEPT ![a] = [op |-> "detect", proc |-> p,
                                           version |-> process[p].marker]]
    /\ UNCHANGED << process, orgFields, lists, template, cut >>

missingWitRefs(p) == Wits \ process[p].types

VerdictByTypes(p, version) == IF missingWitRefs(p) # {} THEN "partial" ELSE "installed"

Verdict(p, version) == IF missingWitRefs(p) # {} THEN "partial"
                       ELSE IF version < Current THEN "needs-upgrade"
                       ELSE "installed"

detectTypes(a) ==
    /\ job[a].op = "detect"
    /\ job' = [job EXCEPT ![a] = [op |-> "decided", proc |-> job[a].proc,
                                  found |-> Verdict(job[a].proc, job[a].version)]]
    /\ UNCHANGED << process, orgFields, lists, template, cut >>

-----------------------------------------------------------------------------
(* Both jobs, once under way *)

Working(a) == job[a].op \in {"install", "upgrade"}

(* The job at its start.  todo: types to handle; wit: the one being handled;
   fields, states: what it still lacks; toCreate: the fields the organization
   lacked when they were listed; known: the picklists listed. *)
NewJob(op, p, found, seen, stage) ==
    [op |-> op, proc |-> p, found |-> found, seen |-> seen, stage |-> stage,
     known |-> {}, toCreate |-> {}, todo |-> {}, wit |-> "none",
     fields |-> {}, states |-> {}]

InstallUnderWay(p) == \E a \in Admins : job[a].op = "install" /\ job[a].proc = p

(* A request fails with or without effect, or the program ends: nothing is
   taken back. *)
Stopped(a) ==
    /\ job' = [job EXCEPT ![a] = Idle]
    /\ cut' = IF job[a].op = "install" THEN cut \cup {job[a].proc} ELSE cut

Goes(a, answered, next) ==
    IF answered THEN job' = [job EXCEPT ![a] = next] /\ UNCHANGED cut
                ELSE Stopped(a)

fail(a) ==
    /\ job[a] # Idle
    /\ Stopped(a)
    /\ UNCHANGED << process, orgFields, lists, template >>

-----------------------------------------------------------------------------
(* install, up to the first type *)

(* The wizard installs when nothing was found, the command line tool also
   "on top of" a partial process; the version marker comes with the process. *)
createProcess(a, p, answered) ==
    /\ job[a].op = "decided"
    /\ job[a].found \in {"not-installed", "partial"}
    /\ ~Exists(p)
    /\ process' = [process EXCEPT ![p] = Items({}, {}, {}, Current)]
    /\ IF answered
       THEN /\ job' = [job EXCEPT ![a] = NewJob("install", p, @.found, @.proc, "lists")]
            /\ UNCHANGED cut
       ELSE /\ job' = [job EXCEPT ![a] = Idle]
            /\ cut' = cut \cup {p}
    /\ UNCHANGED << orgFields, lists, template >>

(* ADO refuses a second process of the same name. *)
createRefused(a, p) ==
    /\ job[a].op = "decided"
    /\ job[a].found \in {"not-installed", "partial"}
    /\ Exists(p)
    /\ job' = [job EXCEPT ![a] = Idle]
    /\ UNCHANGED << process, orgFields, lists, template, cut >>

listPicklists(a) ==
    /\ job[a].op = "install" /\ job[a].stage = "lists"
    /\ job' = [job EXCEPT ![a].known = lists, ![a].stage = "picklists"]
    /\ UNCHANGED << process, orgFields, lists, template, cut >>

(* A picklist that appeared since the listing makes ADO refuse (see fail). *)
createPicklist(a, f, answered) ==
    /\ job[a].op = "install" /\ job[a].stage = "picklists"
    /\ f \in Picklists \ job[a].known
    /\ f \notin lists
    /\ lists' = lists \cup {f}
    /\ Goes(a, answered, [job[a] EXCEPT !.known = @ \cup {f}])
    /\ UNCHANGED << process, orgFields, template >>

SchemaFields == UNION {FieldsOf[w] : w \in Wits}

Conflicts == {f \in SchemaFields : orgFields[f] \in {"clash", "wrongType"}}

AbsentFields == {f \in Fields : orgFields[f] = "none"}

(* One listing decides for every field: create, reuse, or give up. *)
preflightOrgFields(a) ==
    /\ job[a].op = "install" /\ job[a].stage = "picklists"
    /\ Picklists \subseteq job[a].known
    /\ IF Conflicts = {}
       THEN /\ job' = [job EXCEPT ![a].toCreate = AbsentFields, ![a].stage = "listTypes"]
            /\ UNCHANGED cut
       ELSE Stopped(a)
    /\ UNCHANGED << process, orgFields, lists, template >>

(* A type that exists is skipped whole. *)
listTypesToCreate(a) ==
    /\ job[a].op = "install" /\ job[a].stage = "listTypes"
    /\ job' = [job EXCEPT ![a].todo = missingWitRefs(job[a].proc), ![a].stage = "next"]
    /\ UNCHANGED << process, orgFields, lists, template, cut >>

createType(a, w, answered) ==
    /\ job[a].op = "install" /\ job[a].stage = "next"
    /\ w \in job[a].todo
    /\ process' = [process EXCEPT
          ![job[a].proc].types = @ \cup {w},
          ![job[a].proc].states = @ \cup ({w} \X DefaultStates)]
    /\ Goes(a, answered, [job[a] EXCEPT !.todo = @ \ {w}, !.wit = w,
                                        !.fields = FieldsOf[w], !.stage = "fields"])
    /\ UNCHANGED << orgFields, lists, template >>

-----------------------------------------------------------------------------
(* upgradeSchema, up to the fields of a type *)

upgradeMarkerFirst(a) ==
    /\ job[a].op = "decided" /\ job[a].found = "needs-upgrade"
    /\ process' = [process EXCEPT ![job[a].proc].marker = Current]
    /\ job' = [job EXCEPT ![a] = NewJob("upgrade", @.proc, @.found, @.proc, "listTypes")]
    /\ UNCHANGED << orgFields, lists, template, cut >>

upgradeSchema(a) ==
    /\ job[a].op = "decided" /\ job[a].found = "needs-upgrade"
    /\ job' = [job EXCEPT ![a] = NewJob("upgrade", @.proc, @.found, @.proc, "listTypes")]
    /\ UNCHANGED << process, orgFields, lists, template, cut >>

(* A type that does not exist is skipped. *)
listTypesToUpgrade(a) ==
    /\ job[a].op = "upgrade" /\ job[a].stage = "listTypes"
    /\ job' = [job EXCEPT ![a].todo = process[job[a].proc].types, ![a].stage = "listFields"]
    /\ UNCHANGED << process, orgFields, lists, template, cut >>

(* Only the reference names are compared, not the types of the fields. *)
listOrgFields(a) ==
    /\ job[a].op = "upgrade" /\ job[a].stage = "listFields"
    /\ job' = [job EXCEPT ![a].toCreate = {f \in Fields : orgFields[f] \in {"none", "clash"}},
                          ![a].stage = "next"]
    /\ UNCHANGED << process, orgFields, lists, template, cut >>

listAttached(a, w) ==
    /\ job[a].op = "upgrade" /\ job[a].stage = "next"
    /\ w \in job[a].todo
    /\ job' = [job EXCEPT
          ![a].todo = @ \ {w}, ![a].wit = w, ![a].stage = "fields",
          ![a].fields = {f \in FieldsOf[w] : << w, f >> \notin process[job[a].proc].fields}]
    /\ UNCHANGED << process, orgFields, lists, template, cut >>

-----------------------------------------------------------------------------
(* The fields and states of a type *)

(* A field the organization has got meanwhile answers 409, which is success;
   one whose name is taken makes the job throw (see fail). *)
createFieldAtOrg(a, f, answered) ==
    /\ Working(a) /\ job[a].stage = "fields"
    /\ f \in job[a].fields \cap job[a].toCreate
    /\ orgFields[f] # "clash"
    /\ orgFields' = [orgFields EXCEPT ![f] = IF @ = "none" THEN "ours" ELSE @]
    /\ Goes(a, answered, [job[a] EXCEPT !.toCreate = @ \ {f}])
    /\ UNCHANGED << process, lists, template >>

(* 409, already attached, is success. *)
attachField(a, f, answered) ==
    /\ Working(a) /\ job[a].stage = "fields"
    /\ f \in job[a].fields \ job[a].toCreate
    /\ process' = [process EXCEPT ![job[a].proc].fields = @ \cup {<< job[a].wit, f >>}]
    /\ Goes(a, answered, [job[a] EXCEPT !.fields = @ \ {f}])
    /\ UNCHANGED << orgFields, lists, template >>

getExistingStates(a) ==
    /\ Working(a) /\ job[a].stage = "fields"
    /\ job[a].fields = {}
    /\ job' = [job EXCEPT ![a].stage = "states",
          ![a].states = {s \in StatesOf[job[a].wit] :
                            << job[a].wit, s >> \notin process[job[a].proc].states}]
    /\ UNCHANGED << process, orgFields, lists, template, cut >>

createState(a, s, answered) ==
    /\ Working(a) /\ job[a].stage = "states"
    /\ s \in job[a].states
    /\ process' = [process EXCEPT ![job[a].proc].states = @ \cup {<< job[a].wit, s >>}]
    /\ Goes(a, answered, [job[a] EXCEPT !.states = @ \ {s}])
    /\ UNCHANGED << orgFields, lists, template >>

nextTypeOnceFieldsAreIn(a) ==
    /\ Working(a) /\ job[a].stage = "states"
    /\ job' = [job EXCEPT ![a].stage = "next"]
    /\ UNCHANGED << process, orgFields, lists, template, cut >>

nextType(a) ==
    /\ Working(a) /\ job[a].stage = "states"
    /\ job[a].states = {}
    /\ job' = [job EXCEPT ![a].stage = "next"]
    /\ UNCHANGED << process, orgFields, lists, template, cut >>

-----------------------------------------------------------------------------
(* The end of a job *)

TypesDone(a) == job[a].stage = "next" /\ job[a].todo = {}

(* The projects given to install are moved to the new process, one by one. *)
assignProject(a, j) ==
    /\ job[a].op = "install" /\ TypesDone(a)
    /\ template[j] # job[a].proc
    /\ template' = [template EXCEPT ![j] = job[a].proc]
    /\ UNCHANGED << process, orgFields, lists, job, cut >>

installComplete(a) ==
    /\ job[a].op = "install" /\ TypesDone(a)
    /\ job' = [job EXCEPT ![a] = Idle]
    /\ UNCHANGED << process, orgFields, lists, template, cut >>

updateMarker(a) ==
    /\ job[a].op = "upgrade" /\ TypesDone(a)
    /\ process' = [process EXCEPT ![job[a].proc].marker = Current]
    /\ job' = [job EXCEPT ![a] = Idle]
    /\ UNCHANGED << orgFields, lists, template, cut >>

-----------------------------------------------------------------------------

Init ==
    /\ process \in [Processes -> {NoProcess} \cup Legacy]
    /\ orgFields \in [Fields -> FieldKinds]
    /\ \A p \in Processes : \A item \in process[p].fields : orgFields[item[2]] = "ours"
    /\ lists \in SUBSET Picklists
    /\ template = [j \in Projects |-> "none"]
    /\ job = [a \in Admins |-> Idle]
    /\ cut = {}

Requests(a, answered) ==
    \/ \E p \in Processes : createProcess(a, p, answered)
    \/ \E w \in Wits : createType(a, w, answered)
    \/ \E f \in Fields : \/ createPicklist(a, f, answered)
                         \/ createFieldAtOrg(a, f, answered)
                         \/ attachField(a, f, answered)
    \/ \E s \in States : createState(a, s, answered)

Next == \E a \in Admins :
    \/ detectInstallState(a) \/ detectTypes(a)
    \/ \E p \in Processes : createRefused(a, p)
    \/ \E answered \in BOOLEAN : Requests(a, answered)
    \/ listPicklists(a) \/ preflightOrgFields(a) \/ listTypesToCreate(a)
    \/ upgradeSchema(a) \/ listTypesToUpgrade(a) \/ listOrgFields(a)
    \/ \E w \in Wits : listAttached(a, w)
    \/ getExistingStates(a) \/ nextType(a)
    \/ \E j \in Projects : assignProject(a, j)
    \/ installComplete(a) \/ updateMarker(a)
    \/ fail(a)

Spec == Init /\ [][Next]_vars

-----------------------------------------------------------------------------
(* Properties *)

Detections == [op: {"detect"}, proc: Processes, version: {Old, Current}]

Decisions == [op: {"decided"}, proc: Processes \cup {"none"}, found: Statuses]

WorkJobs == [op: {"install", "upgrade"}, proc: Processes, found: Statuses,
             seen: Processes \cup {"none"},
             stage: {"lists", "picklists", "listTypes", "listFields", "next",
                     "fields", "states"},
             known: SUBSET Fields, toCreate: SUBSET Fields, todo: SUBSET Wits,
             wit: Wits \cup {"none"}, fields: SUBSET Fields,
             states: SUBSET States]

(* The variables hold what the organization can hold, and jobs; a type has
   only fields the schema gives it. *)
TypeOK ==
    /\ process \in [Processes -> [marker: {0, Old, Current}, types: SUBSET Wits,
                                  fields: SUBSET (Wits \X Fields),
                                  states: SUBSET (Wits \X States)]]
    /\ orgFields \in [Fields -> FieldKinds]
    /\ lists \subseteq Fields
    /\ template \in [Projects -> Processes \cup {"none"}]
    /\ job \in [Admins -> {Idle} \cup Detections \cup Decisions \cup WorkJobs]
    /\ \A p \in Processes : \A item \in process[p].fields :
          item[1] \in process[p].types /\ item[2] \in FieldsOf[item[1]]
    /\ cut \subseteq Processes

(* The current version is only ever written on an older process that has every
   type, field and state of the schema, whatever upgrades were cut short
   before and whoever upgrades it at the same time (Specs/plan.md:482, "la
   migration peut etre interrompue et reprise"). *)
UpgradedMeansComplete ==
    [][\A p \in Processes :
          (process[p].marker = Old /\ process'[p].marker = Current) => Complete(p)']_vars

(* When detection answers "installed" of a process on which no install is under
   way or was cut short, the process has the whole schema; upgrades that were
   cut short do not blur the answer. *)
InstalledMeansComplete ==
    \A a \in Admins :
        (/\ job[a].op = "decided" /\ job[a].found = "installed"
         /\ job[a].proc \notin cut
         /\ ~InstallUnderWay(job[a].proc)) => Complete(job[a].proc)

(* A project is moved only to a process that has the whole schema. *)
ProjectsGetCompleteProcesses ==
    \A j \in Projects : template[j] # "none" => Complete(template[j])

(* In an organization where a field of the schema is taken, an install gives
   up before it has created a type. *)
ConflictStopsInstall ==
    \A a \in Admins :
        (job[a].op = "install"
         /\ \E f \in SchemaFields : orgFields[f] \notin {"none", "ours"}) =>
            process[job[a].proc].types = {}

-----------------------------------------------------------------------------
(* What the command line tool documents of a partial installation
   (packages/argos-cli/README.md:57): "missing WIT types added to existing
   process (idempotent)". *)
PartialIsCompleted ==
    [][\A a \in Admins :
          (installComplete(a) /\ job[a].found = "partial") =>
              missingWitRefs(job[a].seen) = {}]_vars
=============================================================================
