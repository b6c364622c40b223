-------------------------- MODULE SettingsDocuments --------------------------
(***************************************************************************)
(* The documents of the settings page that are edited as a whole: the      *)
(* environments (EnvironmentSettings over environment-config-service) and  *)
(* the AI configuration (AiConfigSection and useLlmConfig over             *)
(* llm-config-service).                                                    *)
(*                                                                         *)
(* An editor loads its document once and writes back what its form holds   *)
(* at the click.  The form stays open to edits while a save runs, and the  *)
(* tabs of one user share the documents.                                   *)
(***************************************************************************)
EXTENDS Naturals

CONSTANTS
    Editors,     \* editors open on one document
    MaxVersions, \* bound: contents ever typed
    MaxBroken    \* bound: requests that are refused or lose their answer

VARIABLES
    kind,     \* the document explored: "environments" or "ai"
    document, \* its content in the extension data, Unset when there is none
    editor,   \* the state of each editor
    typed     \* history: contents typed, requests broken

docVars == << kind, document, editor, typed >>

Unset == 0
NotSending == [at |-> "none"]

(* saved: the editor tells the user that the form is stored (the "Saved."
   mark, or a form that is not dirty).  The last three fields are history. *)
DocInit ==
    /\ kind \in {"environments", "ai"}
    /\ document \in {Unset, 1}
    /\ editor = [e \in Editors |-> [loaded |-> FALSE, form |-> Unset, saved |-> FALSE,
                    prefilled |-> FALSE, configured |-> FALSE, sending |-> NotSending,
                    touched |-> FALSE, overtaken |-> FALSE, unread |-> FALSE]]
    /\ typed = [last |-> 1, broken |-> 0]

Loaded(e) == [editor[e] EXCEPT !.loaded = TRUE, !.form = document, !.saved = kind = "ai",
                               !.prefilled = kind = "ai" /\ document # Unset,
                               !.configured = document # Unset]

(* A failed load leaves the environments loading for ever, and shows an AI
   configuration as if there were none. *)
load(e) ==
    /\ ~editor[e].loaded
    /\ \/ editor' = [editor EXCEPT ![e] = Loaded(e)] /\ UNCHANGED typed
       \/ /\ typed.broken < MaxBroken /\ kind = "ai"
          /\ editor' = [editor EXCEPT ![e].loaded = TRUE, ![e].saved = TRUE, ![e].unread = TRUE]
          /\ typed' = [typed EXCEPT !.broken = @ + 1]
    /\ UNCHANGED << kind, document >>

(* handleAdd and handleRemove of the environments, onChange and markDirty. *)
edit(e) ==
    /\ editor[e].loaded /\ typed.last < MaxVersions
    /\ typed' = [typed EXCEPT !.last = @ + 1]
    /\ editor' = [editor EXCEPT ![e].form = typed.last + 1, ![e].saved = FALSE,
                                ![e].touched = @ \/ editor[e].sending # NotSending]
    /\ UNCHANGED << kind, document >>

(* The button waits for the save in progress; that of the AI configuration is
   enabled when the form is dirty, that of the environments always. *)
saveDocument(e) ==
    /\ editor[e].loaded /\ editor[e].sending = NotSending
    /\ kind = "ai" => ~editor[e].saved
    /\ editor' = [editor EXCEPT ![e].sending = [at |-> "save", content |-> editor[e].form],
                                ![e].saved = FALSE, ![e].touched = FALSE]
    /\ UNCHANGED << kind, document, typed >>

(* "Clear Configuration", shown while a configuration is known. *)
clearDocument(e) ==
    /\ kind = "ai" /\ editor[e].configured /\ editor[e].sending = NotSending
    /\ editor' = [editor EXCEPT ![e].sending = [at |-> "clear", content |-> Unset]]
    /\ UNCHANGED << kind, document, typed >>

(* Mutant: the form is prefilled with the configuration known before. *)
StoredPrefillsStale(e) ==
    LET told == [editor[e] EXCEPT !.sending = NotSending, !.saved = TRUE,
                                  !.overtaken = FALSE, !.unread = FALSE]
    IN  IF editor[e].prefilled THEN told
        ELSE [told EXCEPT !.form = document, !.prefilled = TRUE, !.touched = FALSE]

(* After a save the form is marked as stored, what was typed meanwhile too; a
   configuration that was not there before prefills the form again. *)
Stored(e) ==
    LET content == editor[e].sending.content
        told == [editor[e] EXCEPT !.sending = NotSending, !.saved = TRUE,
                                  !.configured = content # Unset,
                                  !.overtaken = FALSE, !.unread = FALSE]
    IN  IF editor[e].sending.at = "clear"
        THEN [told EXCEPT !.form = Unset, !.prefilled = FALSE, !.touched = FALSE]
        ELSE IF kind = "ai" /\ ~editor[e].prefilled
             THEN [told EXCEPT !.form = content, !.prefilled = TRUE, !.touched = FALSE]
             ELSE told

Overtaken(eds, e) ==
    [d \in Editors |-> IF d = e THEN eds[d] ELSE [eds[d] EXCEPT !.overtaken = TRUE]]

setValue(e) ==
    /\ editor[e].sending # NotSending
    /\ \/ /\ document' = editor[e].sending.content
          /\ editor' = Overtaken([editor EXCEPT ![e] = Stored(e)], e)
          /\ UNCHANGED typed
       \/ /\ typed.broken < MaxBroken
          /\ typed' = [typed EXCEPT !.broken = @ + 1]
          /\ \/ /\ document' = editor[e].sending.content
                /\ editor' = Overtaken([editor EXCEPT ![e].sending = NotSending,
                                                      ![e].overtaken = TRUE], e)
             \/ editor' = [editor EXCEPT ![e].sending = NotSending] /\ UNCHANGED document
    /\ UNCHANGED kind

DocNext ==
    \E e \in Editors :
        load(e) \/ edit(e) \/ saveDocument(e) \/ clearDocument(e) \/ setValue(e)

DocSpec == DocInit /\ [][DocNext]_docVars

-----------------------------------------------------------------------------
(* A form that tells the user it is stored is the stored document, after any
   sequence of loads, edits, saves and clears with failures among them, except
   where it was edited while its save ran, another editor has written the
   document since, or its load had failed. *)
SavedFormIsTheDocument ==
    \A e \in Editors :
        editor[e].loaded /\ editor[e].saved =>
            \/ editor[e].form = document
            \/ editor[e].touched \/ editor[e].overtaken \/ editor[e].unread
=============================================================================
