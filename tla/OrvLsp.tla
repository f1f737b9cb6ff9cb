------------------------------- MODULE OrvLsp -------------------------------
(***************************************************************************)
(* `orv lsp serve --stdio` (orv-cli/editor_lsp_dap.rs) between an editor   *)
(* and the disk.  The editor sends notifications of its documents and      *)
(* requests over a pipe; the server takes them one by one, keeps the text  *)
(* of the open documents, and loads the project anew for each request:     *)
(* from the open document alone, or else from the disk, file after file,   *)
(* while the editor goes on, saves, and other programs write, create and   *)
(* delete files, those open in the editor too.                             *)
(*                                                                         *)
(* A request is "document" where its answer is about the document it names *)
(* (symbols, hover, highlights, formatting, ...), "project" where it is    *)
(* about all files loaded from there (definition, references, rename, ...) *)
(* and "workspace" where the load starts from the project's entry.         *)
(***************************************************************************)
EXTENDS OrvLoader

CONSTANTS
  Texts,      \* the texts each file may have
  Entry,      \* [project].entry of the workspace
  NoText,     \* a didSave without text
  MaxEdits, MaxAsks, MaxForeign  \* bounds: steps of the editor, requests, writes of others

ASSUME TextsAssumption == \A p \in Paths : \A t \in Texts[p] : t.imports \in Seq(Modules)

VARIABLES
  disk,            \* the text of each file, or NoFile
  editor,          \* the text of each open document, NoFile for the others
  bare,            \* documents of which a save without text was told last (history)
  inbox,           \* messages sent and not yet read by the server
  open_documents,  \* LspSession.open_documents
  workspace_root,  \* LspSession.workspace_root is set
  request,         \* the request being answered
  load,            \* its load
  moved,           \* files that came or went since this load began (history)
  answer,          \* the last answer: the text of each file it is about
  edits, requests, foreign

lspVars == <<disk, editor, bare, inbox, open_documents, workspace_root, request, load, moved, answer,
             edits, requests, foreign>>
editing == <<disk, editor, bare, edits, requests, foreign>>
session == <<open_documents, workspace_root>>

NoRequest == [kind |-> "none"]
NoAnswer  == [kind |-> "none"]

-----------------------------------------------------------------------------
(* The editor.                                                             *)

Send(message) == inbox' = Append(inbox, message)

EditorStep == /\ edits < MaxEdits /\ edits' = edits + 1
              /\ UNCHANGED <<requests, foreign, session, load, answer>>

\* Nothing is written.
DiskStays == UNCHANGED <<disk, request, moved>>

Opened(path) == editor[path] # NoFile

\* Requests that are not answered remember the texts their file had since they
\* were sent (history).
Held(messages, path, text) ==
  [i \in DOMAIN messages |->
     IF messages[i].kind = "request" /\ messages[i].path = path
     THEN [messages[i] EXCEPT !.disks = @ \cup {text}] ELSE messages[i]]

\* A file gets a text, or is deleted.
DiskChanges(path, text) ==
  /\ disk' = [disk EXCEPT ![path] = text]
  /\ request' = Held(<<request>>, path, text)[1]
  /\ moved' = IF request.kind = "request" /\ (disk[path] = NoFile) # (text = NoFile)
              THEN moved \cup {path} ELSE moved

Open(path) ==
  /\ ~Opened(path) /\ disk[path] # NoFile
  /\ EditorStep
  /\ editor' = [editor EXCEPT ![path] = disk[path]]
  /\ Send([kind |-> "didOpen", path |-> path, text |-> disk[path]])
  /\ bare' = bare \ {path}
  /\ DiskStays

Type(path, text) ==
  /\ Opened(path) /\ text # editor[path]
  /\ EditorStep
  /\ editor' = [editor EXCEPT ![path] = text]
  /\ Send([kind |-> "didChange", path |-> path, text |-> text])
  /\ bare' = bare \ {path}
  /\ DiskStays

\* The document is written and the server told, with its text or without.
Save(path, text) ==
  /\ Opened(path) /\ text \in {editor[path], NoText}
  /\ EditorStep
  /\ DiskChanges(path, editor[path])
  /\ inbox' = Append(Held(inbox, path, editor[path]), [kind |-> "didSave", path |-> path, text |-> text])
  /\ bare' = IF text = NoText THEN bare \cup {path} ELSE bare \ {path}
  /\ UNCHANGED editor

\* The document is closed, and what was not saved is lost.
Close(path) ==
  /\ Opened(path)
  /\ EditorStep
  /\ editor' = [editor EXCEPT ![path] = NoFile]
  /\ Send([kind |-> "didClose", path |-> path])
  /\ bare' = bare \ {path}
  /\ DiskStays

Initialize == /\ EditorStep
              /\ Send([kind |-> "initialize"])
              /\ UNCHANGED <<editor, bare>>
              /\ DiskStays

\* The text of an open document, unless the server was told of a save without it.
Told(path) == IF path \in bare THEN NoFile ELSE editor[path]

Ask(about, path) ==
  /\ requests < MaxAsks /\ requests' = requests + 1
  /\ about = "workspace" => path = Entry
  /\ Send([kind |-> "request", about |-> about, path |-> path, told |-> Told(path), disks |-> {disk[path]}])
  /\ DiskStays
  /\ UNCHANGED <<editor, bare, edits, foreign, session, load, answer>>

\* Another program writes, creates or deletes a file, open in the editor or not.
Write(path, text) ==
  /\ foreign < MaxForeign /\ foreign' = foreign + 1
  /\ disk[path] # text
  /\ DiskChanges(path, text)
  /\ inbox' = Held(inbox, path, text)
  /\ UNCHANGED <<editor, bare, edits, requests, session, load, answer>>

-----------------------------------------------------------------------------
(* The server.                                                             *)

Ready == request.kind = "none" /\ inbox # <<>>

\* handle_did_save
HandleDidSave ==
  /\ Ready /\ Head(inbox).kind = "didSave"
  /\ open_documents' = [open_documents EXCEPT ![Head(inbox).path] =
                          IF Head(inbox).text = NoText THEN NoFile ELSE Head(inbox).text]
  /\ inbox' = Tail(inbox)
  /\ UNCHANGED <<editing, workspace_root, request, load, moved, answer>>

\* A change of a document that is not cached is not taken over.
Bug_ChangeOfCachedOnly ==
  /\ Ready /\ Head(inbox).kind \in {"didOpen", "didChange"}
  /\ open_documents' = [open_documents EXCEPT ![Head(inbox).path] =
                          IF Head(inbox).kind = "didChange" /\ @ = NoFile THEN @ ELSE Head(inbox).text]
  /\ inbox' = Tail(inbox)
  /\ UNCHANGED <<editing, workspace_root, request, load, moved, answer>>

\* handle_did_open, handle_did_change
HandleText ==
  /\ Ready /\ Head(inbox).kind \in {"didOpen", "didChange"}
  /\ open_documents' = [open_documents EXCEPT ![Head(inbox).path] = Head(inbox).text]
  /\ inbox' = Tail(inbox)
  /\ UNCHANGED <<editing, workspace_root, request, load, moved, answer>>

HandleDidClose ==
  /\ Ready /\ Head(inbox).kind = "didClose"
  /\ open_documents' = [open_documents EXCEPT ![Head(inbox).path] = NoFile]
  /\ inbox' = Tail(inbox)
  /\ UNCHANGED <<editing, workspace_root, request, load, moved, answer>>

HandleInitialize ==
  /\ Ready /\ Head(inbox).kind = "initialize"
  /\ workspace_root' = TRUE
  /\ inbox' = Tail(inbox)
  /\ UNCHANGED <<editing, open_documents, request, load, moved, answer>>

\* What a load sees: the open document alone, or the disk.
View(path) == IF open_documents[path] # NoFile
              THEN [p \in Paths |-> IF p = path THEN open_documents[path] ELSE NoFile]
              ELSE disk

\* A request is taken, and its load started; a request of the workspace needs its root.
HandleRequest ==
  /\ Ready /\ Head(inbox).kind = "request"
  /\ inbox' = Tail(inbox)
  /\ IF Head(inbox).about = "workspace" /\ ~workspace_root
     THEN answer' = [kind |-> "error", request |-> Head(inbox)] /\ UNCHANGED <<request, load, moved>>
     ELSE /\ request' = Head(inbox)
          /\ load' = Start(View(Head(inbox).path), Head(inbox).path)
          /\ moved' = {}
          /\ UNCHANGED answer
  /\ UNCHANGED <<editing, session>>

\* loaded_project_for_path, one file or import at a time
Load ==
  /\ request.kind = "request" /\ load.status = "loading"
  /\ load' = Step(View(request.path), load)
  /\ UNCHANGED <<editing, inbox, session, request, moved, answer>>

\* The files an answer is about: the document, or all files loaded.
About == IF request.about = "document" THEN {request.path} ELSE Range(load.items)

Respond ==
  /\ request.kind = "request" /\ load.status \in {"done", "failed"}
  /\ answer' = IF load.status = "failed" THEN [kind |-> "error", request |-> request]
               ELSE [kind |-> "result", request |-> request, load |-> load, moved |-> moved,
                     texts |-> [p \in About |-> TextRead(load, p)]]
  /\ request' = NoRequest
  /\ load' = Idle /\ moved' = {}
  /\ UNCHANGED <<editing, inbox, session>>

-----------------------------------------------------------------------------
LspInit ==
  /\ disk \in [Paths -> (UNION {Texts[p] : p \in Paths}) \cup {NoFile}]
  /\ \A p \in Paths : disk[p] \in Texts[p] \cup {NoFile}
  /\ disk[Entry] # NoFile
  /\ editor = [p \in Paths |-> NoFile] /\ bare = {} /\ inbox = <<>>
  /\ open_documents = [p \in Paths |-> NoFile] /\ workspace_root = FALSE
  /\ request = NoRequest /\ load = Idle /\ moved = {} /\ answer = NoAnswer
  /\ edits = 0 /\ requests = 0 /\ foreign = 0

Serve == HandleDidSave \/ HandleText \/ HandleDidClose \/ HandleInitialize \/ HandleRequest \/ Load \/ Respond

\* Reduction: the editor looks at an answer before anything else happens.
Look == /\ answer # NoAnswer /\ answer' = NoAnswer
        /\ UNCHANGED <<editing, inbox, session, request, load, moved>>

Edit ==
  \/ Initialize
  \/ \E p \in Paths : Open(p) \/ Close(p)
  \/ \E p \in Paths : \E t \in Texts[p] : Type(p, t)
  \/ \E p \in Paths : \E t \in Texts[p] \cup {NoText} : Save(p, t)
  \/ \E p \in Paths : \E t \in Texts[p] \cup {NoFile} : Write(p, t)
  \/ \E about \in {"document", "project", "workspace"}, p \in Paths : Ask(about, p)

LspNext == Look \/ (answer = NoAnswer /\ (Serve \/ Edit))

LspSpec == LspInit /\ [][LspNext]_lspVars

-----------------------------------------------------------------------------
(* Properties.                                                             *)

\* Whatever the editor and other programs do in the meantime, an answer about a
\* document is about the text the editor showed when it asked.  Where the document
\* is not open, or the last the server was told of it is a save without its text, it
\* is about a text its file had between the request and the answer - in the second
\* case perhaps one that another program wrote and the editor does not show.
DocumentAnswersFit ==
  answer.kind = "result" /\ answer.request.about = "document" =>
    LET text == answer.texts[answer.request.path]
    IN  IF answer.request.told # NoFile THEN text = answer.request.told
        ELSE text \in answer.request.disks

\* What is loaded while files change, come and go is a program all the same: each
\* file once, no import left out, imports before what imports them, even around
\* cycles.  A name is one file to all that import it, unless a file it can mean came
\* or went while the load ran.
LoadIsMerged ==
  answer.kind = "result" => Merged(answer.load) /\ OneMeaning(answer.load, answer.moved)

=============================================================================
