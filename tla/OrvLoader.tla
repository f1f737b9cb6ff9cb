----------------------------- MODULE OrvLoader ------------------------------
(***************************************************************************)
(* The project loader (orv-project/lib.rs): from an entry file it follows  *)
(* the imports depth first and merges the files into one program, a file's *)
(* imports before the file.  A load is a record of the state the code has  *)
(* in its Loader and on its call stack; Step is one iteration of load_file:*)
(* the next import of the file on top, or its end.  The files come from a  *)
(* view: the disk as it is at that step, or the source bundle of a build   *)
(* or of the LSP server.                                                   *)
(***************************************************************************)
EXTENDS Naturals, Sequences, FiniteSets, SequencesExt

CONSTANTS
  Paths,       \* files a module name can mean
  Modules,     \* module names
  Candidates,  \* the files a name can mean, in the order they are looked for
  NoFile       \* there is no such file

ASSUME CandidatesAssumption == Candidates \in [Modules -> Seq(Paths)]

\* The file a module name means: the first candidate that is there, or NoFile.
Resolve(view, module) ==
  LET there == {i \in DOMAIN Candidates[module] : view[Candidates[module][i]] # NoFile}
  IN  IF there = {} THEN NoFile
      ELSE Candidates[module][CHOOSE i \in there : \A j \in there : i <= j]

Failed(load) == [load EXCEPT !.status = "failed"]

\* load_file up to its imports
LoadFile(view, load, path) ==
  IF path \in load.visited THEN load
  ELSE IF view[path] = NoFile THEN Failed(load)
  ELSE [load EXCEPT !.visited = @ \cup {path},
                    !.files = Append(@, [path |-> path, text |-> view[path]]),
                    !.stack = Append(@, [path |-> path, left |-> view[path].imports])]

\* load_import.  History: links say which file each import was taken to mean.
LoadImport(view, load) ==
  LET top    == Last(load.stack)
      module == Head(top.left)
      path   == Resolve(view, module)
  IN  IF path = NoFile THEN Failed(load)
      ELSE LoadFile(view, [load EXCEPT !.stack = Append(Front(@), [top EXCEPT !.left = Tail(@)]),
                                       !.links = @ \cup {[from |-> top.path, module |-> module, to |-> path]}],
                    path)

\* The items of a file go before those that were there.
Bug_EndFileFirst(load) ==
  LET path == Last(load.stack).path
  IN  [load EXCEPT !.stack = Front(@),
                   !.items = <<path>> \o @,
                   !.status = IF Len(load.stack) = 1 THEN "done" ELSE @]

\* load_file after its imports, and take_merged_items: the items of the entry
\* follow those of all imports.
EndFile(load) ==
  LET path == Last(load.stack).path
  IN  [load EXCEPT !.stack = Front(@),
                   !.items = Append(@, path),
                   !.status = IF Len(load.stack) = 1 THEN "done" ELSE @]

Idle == [status |-> "idle", visited |-> {}, files |-> <<>>, stack |-> <<>>, items |-> <<>>, links |-> {}]

\* load_project, load_project_from_sources
Start(view, entry) == LoadFile(view, [Idle EXCEPT !.status = "loading"], entry)

Step(view, load) ==
  IF Last(load.stack).left = <<>> THEN EndFile(load) ELSE LoadImport(view, load)

-----------------------------------------------------------------------------
(* What a load promises, in terms of the texts it has read.                *)

TextRead(load, path) == (CHOOSE f \in Range(load.files) : f.path = path).text

\* p is reached from q: it is in all sets of files with q that links do not leave.
Reaches(links, q, p) ==
  \A files \in SUBSET Paths :
    q \in files /\ (\A l \in links : l.from \in files => l.to \in files) => p \in files

\* A load that succeeds has read each file once and followed each import of the
\* texts it read, and the items of a file come after those of the files its imports
\* were taken to mean, except around a cycle.
Merged(load) ==
  LET At(path) == CHOOSE i \in DOMAIN load.items : load.items[i] = path
  IN  /\ IsInjective(load.items) /\ IsInjective([i \in DOMAIN load.files |-> load.files[i].path])
      /\ Range(load.items) = {f.path : f \in Range(load.files)}
      /\ \A f \in Range(load.files) : \A m \in Range(f.text.imports) :
           \E l \in load.links : l.from = f.path /\ l.module = m
      /\ \A l \in load.links :
           /\ l.to \in Range(load.items)
           /\ ~Reaches(load.links, l.to, l.from) => At(l.to) < At(l.from)
      /\ Last(load.items) = Head(load.files).path

\* A name was taken to mean one file, but for names of which a file is in moved.
OneMeaning(load, moved) ==
  \A k, l \in load.links :
    k.module = l.module /\ k.to # l.to => \E i \in DOMAIN Candidates[k.module] : Candidates[k.module][i] \in moved
=============================================================================
