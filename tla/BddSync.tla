------------------------------- MODULE BddSync -------------------------------
(***************************************************************************)
(* The synchronisation of feature files with test cases: handleGitPush of  *)
(* apps/argos-functions for every push to the repository, and              *)
(* processBddSync of the command line for a local checkout.                *)
(*                                                                         *)
(* A push names the files it changed; their content is read at the head of *)
(* the branch when the handler gets to them.  For each file the handler    *)
(* lists the cases of the area, creates or updates one case per scenario,  *)
(* then deprecates the scenarios' cases the file does not have.  Every     *)
(* request is a step, pushes are handled in any order and at once, and a   *)
(* request that fails ends its handler.  All the files map to one area.    *)
(***************************************************************************)
EXTENDS Naturals, FiniteSets, Sequences, SequencesExt

CONSTANTS
    Files,     \* feature files of the repository
    Contents,  \* the scenario titles a file may hold, in order
    Manual,    \* titles of the manual cases of the area at the start
    Retired,   \* titles of its deprecated Gherkin cases at the start
    Workers,   \* bound: handlers running at once
    MaxPushes, \* bound: pushes and runs of the command line
    MaxCases,  \* bound: cases of the area
    MaxFaults  \* bound: requests that fail

(* A file holds a sequence of titles; files and cases are finitely many. *)
ASSUME BddAssumption ==
    /\ \A c \in Contents : c \in Seq(ToSet(c))
    /\ IsFiniteSet(Files) /\ IsFiniteSet(Manual) /\ IsFiniteSet(Retired)

VARIABLES
    head,   \* the content of each file at the head of the branch
    events, \* pushes waiting for their handler: the changes of each
    areaCases,  \* the cases of the area: title, has it Gherkin, is it active
    worker, \* each handler: idle, or where it is suspended
    trace   \* history: what was handled last, what overlapped

bddVars == << head, events, areaCases, worker, trace >>

Gone == << >>
Waiting == [at |-> "idle"]

BddInit ==
    /\ head \in [Files -> Contents]
    /\ events = {}
    /\ areaCases = SetToSeq({[title |-> t, bdd |-> t \in Retired, active |-> t \notin Retired] :
                                t \in Manual \cup Retired})
    /\ worker = [w \in Workers |-> Waiting]
    /\ trace = [pushes |-> 0, faults |-> 0, serial |-> TRUE, raced |-> {},
                last |-> [by |-> "none", titles |-> {}]]

(* A commit deletes a file, or writes one or two; its push is an event. *)
Push(fs, content, deleted) ==
    /\ trace.pushes < MaxPushes
    /\ trace' = [trace EXCEPT !.pushes = @ + 1]
    /\ head' = [f \in Files |-> IF f \in fs THEN IF deleted THEN Gone ELSE content ELSE head[f]]
    /\ events' = events \cup {[nr |-> trace.pushes, deleted |-> deleted, files |-> SetToSeq(fs)]}
    /\ UNCHANGED << areaCases, worker >>

WorkerGoes(w, to) == worker' = [worker EXCEPT ![w] = to]
Busy == \E w \in Workers : worker[w] # Waiting
Started(n) == [trace EXCEPT !.pushes = @ + n, !.serial = @ /\ ~Busy]

(* The handler of a push starts; the mappings match its feature files. *)
handleGitPush(w, e) ==
    /\ worker[w] = Waiting /\ e \in events
    /\ events' = events \ {e}
    /\ WorkerGoes(w, [at |-> IF e.deleted THEN "list" ELSE "read", by |-> "push",
                deleted |-> e.deleted, files |-> e.files, titles |-> Gone])
    /\ trace' = Started(0)
    /\ UNCHANGED << head, areaCases >>

(* The command line lists the area first, then reads its files one by one. *)
processBddSync(w, fs) ==
    /\ worker[w] = Waiting /\ trace.pushes < MaxPushes
    /\ \A f \in fs : head[f] # Gone
    /\ LET files == SetToSeq(fs)
       IN  WorkerGoes(w, [at |-> "list", by |-> "cli", deleted |-> FALSE, files |-> files,
                    titles |-> FlattenSeq([i \in DOMAIN files |-> head[files[i]]])])
    /\ trace' = Started(1)
    /\ UNCHANGED << head, events, areaCases >>

(* A rejected request ends the handler: the rest of the push is not handled.
   Of a file that is gone from the head the content cannot be read. *)
Fails(w) == WorkerGoes(w, Waiting) /\ trace' = [trace EXCEPT !.faults = @ + 1,
                                                     !.last.by = "failure"]
MayFail == trace.faults < MaxFaults

readFile(w) ==
    LET content == head[Head(worker[w].files)]
    IN  /\ worker[w].at = "read"
        /\ IF content = Gone THEN Fails(w)
           ELSE WorkerGoes(w, [worker[w] EXCEPT !.at = "list", !.titles = content]) /\ UNCHANGED trace
        /\ UNCHANGED << head, events, areaCases >>

(* After a file: the next one, or the end of the handler. *)
FileDone(w, titles) ==
    LET left == Tail(worker[w].files)
    IN  /\ trace' = [trace EXCEPT !.last = [by |-> worker[w].by, titles |-> ToSet(titles)]]
        /\ WorkerGoes(w, IF left = << >> \/ worker[w].by = "cli" THEN Waiting
                   ELSE [at |-> IF worker[w].deleted THEN "list" ELSE "read", by |-> "push",
                         deleted |-> worker[w].deleted, files |-> left, titles |-> Gone])

(* Mutant: deprecated cases are not listed. *)
ListingOfActive(cs) ==
    SelectSeq([i \in DOMAIN cs |-> [id |-> i, title |-> cs[i].title, bdd |-> cs[i].bdd]],
              LAMBDA c : cs[c.id].active)

(* What the handler keeps of a case it has listed or created. *)
Listing(cs) == [i \in DOMAIN cs |-> [id |-> i, title |-> cs[i].title, bdd |-> cs[i].bdd]]

(* Swept are the cases listed with Gherkin that the file does not have, all of
   them when the file was deleted; the command line sweeps none. *)
listCases(w) ==
    LET listed == ToSet(Listing(areaCases))
        gone == {c \in listed : c.bdd /\ c.title \notin ToSet(worker[w].titles)}
    IN  /\ worker[w].at = "list"
        /\ WorkerGoes(w, [at |-> "apply", by |-> worker[w].by, deleted |-> worker[w].deleted,
                    files |-> worker[w].files, titles |-> worker[w].titles,
                    todo |-> worker[w].titles, listed |-> listed,
                    sweep |-> IF worker[w].by = "cli" THEN {} ELSE gone])
        /\ UNCHANGED << head, events, areaCases, trace >>

(* existingByTitle: of several cases with a title the last one. *)
Existing(listed, title) == {c \in listed : c.title = title}
LastOf(cs) == CHOOSE c \in cs : \A d \in cs : d.id <= c.id

(* The last loop goes through the cases in the order of their ids. *)
FirstOf(cs) == CHOOSE c \in cs : \A d \in cs : c.id <= d.id

(* Others hold a listing of before this creation, or this file itself has the
   title again: a push does not add what it creates to its own listing. *)
Raced(w, title) ==
    \/ \E v \in Workers \ {w} : worker[v].at = "apply" /\ Existing(worker[v].listed, title) = {}
    \/ worker[w].by = "push" /\ title \in ToSet(Tail(worker[w].todo))

create(w) ==
    LET me == worker[w]
        title == Head(me.todo)
        new == [id |-> Len(areaCases) + 1, title |-> title, bdd |-> TRUE]
    IN  /\ me.at = "apply" /\ me.todo # << >>
        /\ Existing(me.listed, title) = {} /\ Len(areaCases) < MaxCases
        /\ areaCases' = Append(areaCases, [title |-> title, bdd |-> TRUE, active |-> TRUE])
        /\ WorkerGoes(w, [me EXCEPT !.todo = Tail(@),
                              !.listed = IF me.by = "cli" THEN @ \cup {new} ELSE @])
        /\ trace' = [trace EXCEPT !.raced = IF Raced(w, title) THEN @ \cup {title} ELSE @]
        /\ UNCHANGED << head, events >>

(* An update sets the Gherkin of the case, a manual one's too; its state is
   not touched, so that a deprecated case stays deprecated. *)
update(w) ==
    LET me == worker[w]
        known == Existing(me.listed, Head(me.todo))
    IN  /\ me.at = "apply" /\ me.todo # << >> /\ known # {}
        /\ areaCases' = [areaCases EXCEPT ![LastOf(known).id].bdd = TRUE]
        /\ WorkerGoes(w, [me EXCEPT !.todo = Tail(@)])
        /\ UNCHANGED << head, events, trace >>

(* Mutant: the sweep ends with the first case. *)
deprecateFirst(w) ==
    LET me == worker[w]
    IN  /\ me.at = "apply" /\ me.todo = << >> /\ me.sweep # {}
        /\ areaCases' = [areaCases EXCEPT ![FirstOf(me.sweep).id].active = FALSE]
        /\ WorkerGoes(w, [me EXCEPT !.sweep = {}])
        /\ UNCHANGED << head, events, trace >>

deprecate(w) ==
    LET me == worker[w]
    IN  /\ me.at = "apply" /\ me.todo = << >> /\ me.sweep # {}
        /\ areaCases' = [areaCases EXCEPT ![FirstOf(me.sweep).id].active = FALSE]
        /\ WorkerGoes(w, [me EXCEPT !.sweep = @ \ {FirstOf(@)}])
        /\ UNCHANGED << head, events, trace >>

Finish(w) ==
    /\ worker[w].at = "apply" /\ worker[w].todo = << >> /\ worker[w].sweep = {}
    /\ FileDone(w, worker[w].titles)
    /\ UNCHANGED << head, events, areaCases >>

RequestFails(w) ==
    /\ worker[w] # Waiting /\ MayFail
    /\ Fails(w)
    /\ UNCHANGED << head, events, areaCases >>

BddNext ==
    \/ \E fs \in (SUBSET Files) \ {{}}, content \in Contents, deleted \in BOOLEAN :
          Push(fs, content, deleted)
    \/ \E w \in Workers :
          \/ \E e \in events : handleGitPush(w, e)
          \/ \E fs \in (SUBSET Files) \ {{}} : processBddSync(w, fs)
          \/ readFile(w) \/ listCases(w) \/ create(w) \/ update(w) \/ deprecate(w)
          \/ Finish(w) \/ RequestFails(w)

BddSpec == BddInit /\ [][BddNext]_bddVars

-----------------------------------------------------------------------------
(* Two cases of the area have the same title only if a file has a scenario
   title twice, or one handler created the title while another held a listing
   without it: handling pushes again, in another order or after a failure, and
   deprecating a scenario that comes back, never make a twin. *)
TwinsNeedARace ==
    \A i, j \in DOMAIN areaCases :
        i # j /\ areaCases[i].title = areaCases[j].title => areaCases[i].title \in trace.raced

(* Handlers that never overlapped and whose last one ended well leave the area
   showing the file it handled last: a case for each of its scenarios, and, if
   it was a push, no active Gherkin case but those of that file. *)
AreaShowsTheLastFile ==
    (trace.serial /\ ~Busy /\ trace.last.by \in {"push", "cli"}) =>
        /\ trace.last.titles \subseteq {areaCases[i].title : i \in DOMAIN areaCases}
        /\ trace.last.by = "push" =>
              \A i \in DOMAIN areaCases :
                  areaCases[i].bdd /\ areaCases[i].active => areaCases[i].title \in trace.last.titles
=============================================================================
