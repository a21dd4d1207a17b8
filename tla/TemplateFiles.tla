--------------------------- MODULE TemplateFiles ---------------------------
(***************************************************************************)
(* Device templates (src/templates_map, files_watcher, main,               *)
(* rpc_templates_handler, confed_device_schemas_map): the map of templates *)
(* that follows two directories, one of them shipped and one of the user,  *)
(* through the events of the file system; the requests Upload and Delete   *)
(* that change files of the user and the map in another thread; and the    *)
(* schemas that are made of the templates and kept.                        *)
(***************************************************************************)
EXTENDS Naturals, Sequences, FiniteSets, FiniteSetsExt, SequencesExt

CONSTANTS
  Types,       \* device_type of a template
  Versions,    \* everything else that a template says
  Shipped,     \* files of TEMPLATES_DIR
  User,        \* files of USER_TEMPLATES_DIR
  ByHand,      \* bound: sets of files that others than the service change, one in each behaviour
  Holds(_),    \* bound: the templates that others put into a file
  Uploads,     \* bound: the templates that are uploaded
  MaxEvents,   \* bound: events that the watcher has not read
  None, Broken \* no file, one that is no template

ASSUME FilesAssumption ==
  /\ IsFiniteSet(Shipped) /\ IsFiniteSet(User)
  /\ Shipped \intersect User = {}
  /\ ByHand \subseteq SUBSET (Shipped \union User)
  /\ \A p \in Shipped \union User : Holds(p) \subseteq [type : Types, version : Versions]
  /\ Uploads \subseteq [type : Types, version : Versions]
  /\ MaxEvents \in Nat
  /\ None # Broken
  /\ None \notin Shipped \union User
  /\ {None, Broken} \intersect [type : Types, version : Versions] = {}

Paths == Shipped \union User
Template == [type : Types, version : Versions]
Contents == Template \union {None, Broken}

\* TDeviceTemplate: what MakeTemplateFromJson has read of its file, and what GetTemplate has
\* read when it was first used.
Entry == [path : Paths, header : Template, body : Template \union {None}]

Event == [path : Paths, event : {"CloseWrite", "Delete"}]

VARIABLES
  files,     \* the two directories
  others,    \* the files that others change
  events,    \* of the inotify instance, not read yet, in Seq(Event)
  watching,  \* the watcher has added its watches
  templates, \* TTemplateMap::Templates: for each type a Seq(Entry), of which the last is in use
  schemas,   \* TDevicesConfedSchemasMap::Schemas, as the template that the schema was made of
  outdated,  \* types that the watcher has updated and not yet removed from the schemas
  rpc,       \* the thread of the requests
  unheard,   \* history: files that have changed and no event tells of it
  touched,   \* history: files that the request may not know of: changed, and not read yet when it
             \* began, or since then; or another file of the same type
  stale      \* history: types whose template was dropped for a broken file

vars == <<files, others, events, watching, templates, schemas, outdated, rpc, unheard, touched, stale>>

NoRequest == [pc |-> "idle", op |-> "none", template |-> None, path |-> None, old |-> None, entry |-> None]
Idle == rpc.pc = "idle"

Readable(content) == content \notin {None, Broken}
OfType(content, t) == Readable(content) /\ content.type = t
New(p, content) == [path |-> p, header |-> content, body |-> None]

\* AddTemplatesDir: the files are sorted, and one that is no template is passed.
TemplatesOf(dir, content, t) ==
  LET paths == SetToSeq({p \in dir : OfType(content[p], t)})
  IN [i \in DOMAIN paths |-> New(paths[i], content[paths[i]])]

\* LoadTemplates: what is shipped, then what the user has added.
Loaded(content) ==
  [t \in Types |-> TemplatesOf(Shipped, content, t) \o TemplatesOf(User, content, t)]

Init ==
  /\ files \in [Paths -> Contents]
  /\ \A p \in Paths : files[p] \in Holds(p) \union {None}
  /\ others \in ByHand
  /\ events = <<>>
  /\ watching = FALSE
  /\ templates = Loaded(files)
  /\ schemas = [t \in Types |-> None]
  /\ outdated = {}
  /\ rpc = NoRequest
  /\ unheard = {} /\ touched = {} /\ stale = {}

-----------------------------------------------------------------------------
(* TTemplateMap *)

Uses(t, p) == \E entry \in Range(templates[t]) : entry.path = p
Without(t, p) ==
  [templates EXCEPT ![t] = RemoveAt(@, SelectInSeq(@, LAMBDA entry : entry.path = p))]

\* Mutant: the entry is looked for under the type that the file has now.
MutantTypeOfFile(p) ==
  IF Readable(files[p]) /\ Uses(files[p].type, p)
  THEN {[map |-> Without(files[p].type, p), types |-> {files[p].type}]}
  ELSE {[map |-> templates, types |-> {}]}

\* DeleteTemplateUnsafe: the first entry of the file, of whatever type, and the type.
Deleted(p) ==
  IF \E t \in Types : Uses(t, p)
  THEN {[map |-> Without(t, p), types |-> {t}] : t \in {type \in Types : Uses(type, p)}}
  ELSE {[map |-> templates, types |-> {}]}

\* Mutant: every template comes first.
MutantFirst(map, p) ==
  [map EXCEPT ![files[p].type] = <<New(p, files[p])>> \o @]

\* A template of the user comes last, one that is shipped first.
Placed(map, p) ==
  [map EXCEPT ![files[p].type] = IF p \in User THEN Append(@, New(p, files[p]))
                                 ELSE <<New(p, files[p])>> \o @]

\* Mutant: only the type that the file has now is reported.
MutantNewType(p) ==
  {IF Readable(files[p])
   THEN [map |-> Placed(dropped.map, p), types |-> {files[p].type}, thrown |-> FALSE]
   ELSE [map |-> dropped.map, types |-> dropped.types, thrown |-> TRUE] : dropped \in Deleted(p)}

\* UpdateTemplate: the entry is dropped before the file is read, and reading may throw.
Updated(p) ==
  {IF Readable(files[p])
   THEN [map |-> Placed(dropped.map, p), types |-> dropped.types \union {files[p].type},
         thrown |-> FALSE]
   ELSE [map |-> dropped.map, types |-> dropped.types, thrown |-> TRUE] : dropped \in Deleted(p)}

InUse(t) == Last(templates[t])

\* FindUserDefinedTemplate: the last one of the user.
UserDefined(t) == {i \in DOMAIN templates[t] : templates[t][i].path \in User}
UserFile(t) == IF UserDefined(t) = {} THEN None ELSE templates[t][Max(UserDefined(t))].path

-----------------------------------------------------------------------------
(* The files *)

Announced(p, event) ==
  events' = IF watching THEN Append(events, [path |-> p, event |-> event]) ELSE events

Room == Len(events) < MaxEvents

\* Somebody edits, copies, moves or removes a file. One that is opened for writing is cut
\* first; the event comes when it is closed.
ChangedByHand(p, content) ==
  /\ p \in others
  /\ files' = [files EXCEPT ![p] = content]
  /\ touched' = IF rpc.op = "none" THEN touched ELSE touched \union {p}
  /\ UNCHANGED <<others, watching, templates, schemas, outdated, rpc, stale>>

OpenFile(p) ==
  /\ files[p] # Broken
  /\ ChangedByHand(p, Broken)
  /\ unheard' = unheard \union {p}
  /\ UNCHANGED events

Heard(p) == unheard' = IF watching THEN unheard \ {p} ELSE unheard \union {p}

CloseFile(p) ==
  /\ Room
  /\ \E content \in Holds(p) \union {Broken} : ChangedByHand(p, content)
  /\ Announced(p, "CloseWrite")
  /\ Heard(p)

RemoveByHand(p) ==
  /\ Room
  /\ files[p] # None
  /\ ChangedByHand(p, None)
  /\ Announced(p, "Delete")
  /\ Heard(p)

-----------------------------------------------------------------------------
(* TFilesWatcher and HandleTemplateChangeEvent *)

StartWatching ==
  /\ ~watching
  /\ watching' = TRUE
  /\ UNCHANGED <<others, files, events, templates, schemas, outdated, rpc, unheard, touched, stale>>

NextEvent(event) ==
  /\ outdated = {}
  /\ events # <<>>
  /\ Head(events).event = event
  /\ events' = Tail(events)
  /\ UNCHANGED <<others, files, watching, schemas, rpc, unheard, touched>>

\* After an exception no schema is removed.
FileWritten ==
  /\ NextEvent("CloseWrite")
  /\ \E update \in Updated(Head(events).path) :
       /\ templates' = update.map
       /\ outdated' = IF update.thrown THEN {} ELSE update.types
       /\ stale' = IF update.thrown THEN stale \union update.types ELSE stale

FileDeleted ==
  /\ NextEvent("Delete")
  /\ \E dropped \in Deleted(Head(events).path) :
       templates' = dropped.map /\ outdated' = dropped.types
  /\ UNCHANGED stale

\* GetSchema holds the mutex of the schemas while it makes one.
InvalidateCache ==
  /\ rpc.pc # "schema"
  /\ \E t \in outdated :
       /\ schemas' = [schemas EXCEPT ![t] = None]
       /\ outdated' = outdated \ {t}
       /\ stale' = stale \ {t}
  /\ UNCHANGED <<others, files, events, watching, templates, rpc, unheard, touched>>

-----------------------------------------------------------------------------
(* Schemas *)

Goes(pc) == rpc' = [rpc EXCEPT !.pc = pc]
End == rpc' = NoRequest /\ touched' = {}

\* GetSchema of a type of which none is kept: TTemplateMap::GetTemplate
FindTemplate(t) ==
  /\ Idle
  /\ schemas[t] = None
  /\ templates[t] # <<>>
  /\ rpc' = [NoRequest EXCEPT !.pc = "schema", !.entry = InUse(t)]
  /\ UNCHANGED <<others, files, events, watching, templates, schemas, outdated, unheard, touched, stale>>

Filled(list, entry, body) ==
  [i \in DOMAIN list |-> IF list[i] = entry THEN [entry EXCEPT !.body = body] ELSE list[i]]

\* GenerateSchemaForConfed: TDeviceTemplate::GetTemplate reads the file when it is used for the
\* first time, and throws if it cannot. The template may have left the map meanwhile.
GenerateSchema ==
  /\ rpc.pc = "schema"
  /\ End
  /\ LET t == rpc.entry.header.type
         body == IF rpc.entry.body = None THEN files[rpc.entry.path] ELSE rpc.entry.body
     IN IF Readable(body)
        THEN /\ schemas' = [schemas EXCEPT ![t] = body]
             /\ templates' = [templates EXCEPT ![t] = Filled(@, rpc.entry, body)]
        ELSE UNCHANGED <<schemas, templates>>
  /\ UNCHANGED <<others, files, events, watching, outdated, unheard, stale>>

-----------------------------------------------------------------------------
(* templates/Upload and templates/Delete. A request that is refused (it is no template, the type
   is in use and "force" is not given, the file cannot be written) changes nothing. *)

Known(p) ==
  \A t \in Types :
    /\ Uses(t, p) <=> OfType(files[p], t)
    /\ \A entry \in Range(templates[t]) : entry.path = p => entry.header = files[p]

Begins(op, template, path, old) ==
  /\ Idle
  /\ rpc' = [NoRequest EXCEPT !.pc = IF op = "Upload" THEN "write" ELSE "remove", !.op = op,
                              !.template = template, !.path = path, !.old = old]
  /\ touched' = {p \in Paths : \/ ~Known(p)
                               \/ \E e \in Range(events) : e.path = p
                               \/ p \in User \ {old} /\ OfType(files[p], template.type)}
  /\ UNCHANGED <<others, files, events, watching, templates, schemas, outdated, unheard, stale>>

\* Mutant: a name that is taken is taken again.
MutantTaken(name, old) == {name}

\* The name that is asked for, or one with a number: it is free, or that of the file that has
\* the type now.
FileNames(name, old) ==
  LET free == {p \in User : files[p] = None \/ p = old}
  IN IF name \in free THEN {name} ELSE free

Upload(template, name) ==
  \E path \in FileNames(name, UserFile(template.type)) :
    Begins("Upload", template, path, UserFile(template.type))

Delete(t) ==
  /\ UserFile(t) # None
  /\ Begins("Delete", InUse(t).header, None, UserFile(t))

\* WriteFileAtomically: the file is renamed, and the watcher is told.
WriteFile ==
  /\ rpc.pc = "write"
  /\ Room
  /\ files' = [files EXCEPT ![rpc.path] = rpc.template]
  /\ Announced(rpc.path, "CloseWrite")
  /\ Goes("update")
  /\ UNCHANGED <<others, watching, templates, schemas, outdated, unheard, touched, stale>>

Invalidated(types) == [t \in Types |-> IF t \in types THEN None ELSE schemas[t]]

\* UpdateTemplate and InvalidateCache; when it throws the file is removed.
UpdateUploaded ==
  /\ rpc.pc = "update"
  /\ \E update \in Updated(rpc.path) :
       /\ templates' = update.map
       /\ IF update.thrown
          THEN /\ Room
               /\ files' = [files EXCEPT ![rpc.path] = None]
               /\ IF files[rpc.path] = None THEN UNCHANGED events ELSE Announced(rpc.path, "Delete")
               /\ stale' = stale \union update.types
               /\ End
               /\ UNCHANGED schemas
          ELSE /\ schemas' = Invalidated(update.types)
               /\ stale' = stale \ update.types
               /\ Goes(IF rpc.old \in {None, rpc.path} THEN "answer" ELSE "remove")
               /\ UNCHANGED <<files, events, touched>>
  /\ UNCHANGED <<others, watching, outdated, unheard>>

\* The old file of the type, or the one that is to be deleted; it may be gone already.
RemoveFile ==
  /\ rpc.pc = "remove"
  /\ Room
  /\ files' = [files EXCEPT ![rpc.old] = None]
  /\ IF files[rpc.old] = None THEN UNCHANGED events ELSE Announced(rpc.old, "Delete")
  /\ Goes("forget")
  /\ UNCHANGED <<others, watching, templates, schemas, outdated, unheard, touched, stale>>

\* Somebody may have put the file back, and the watcher may have read of it.
ForgetTemplate ==
  /\ rpc.pc = "forget"
  /\ \E dropped \in Deleted(rpc.old) :
       /\ templates' = dropped.map
       /\ schemas' = Invalidated(dropped.types)
       /\ stale' = stale \ dropped.types
  /\ unheard' = IF Readable(files[rpc.old])
                   /\ [path |-> rpc.old, event |-> "CloseWrite"] \notin Range(events)
                THEN unheard \union {rpc.old} ELSE unheard
  /\ Goes("answer")
  /\ UNCHANGED <<others, files, events, watching, outdated, touched>>

\* The type that the map has now, or that it is not found.
AnswerRequest ==
  /\ rpc.pc = "answer"
  /\ End
  /\ UNCHANGED <<others, files, events, watching, templates, schemas, outdated, unheard, stale>>

-----------------------------------------------------------------------------
\* The service is stopped or dies, and starts again.
Restart ==
  /\ templates' = Loaded(files)
  /\ schemas' = [t \in Types |-> None]
  /\ watching' = FALSE
  /\ events' = <<>> /\ outdated' = {} /\ rpc' = NoRequest
  /\ unheard' = {} /\ touched' = {} /\ stale' = {}
  /\ UNCHANGED <<others, files>>

Next ==
  \/ \E p \in Paths : OpenFile(p) \/ CloseFile(p) \/ RemoveByHand(p)
  \/ StartWatching \/ FileWritten \/ FileDeleted \/ InvalidateCache
  \/ \E t \in Types : FindTemplate(t) \/ Delete(t)
  \/ GenerateSchema
  \/ \E template \in Uploads, name \in User : Upload(template, name)
  \/ WriteFile \/ UpdateUploaded \/ RemoveFile \/ ForgetTemplate \/ AnswerRequest
  \/ Restart

Spec == Init /\ [][Next]_vars

-----------------------------------------------------------------------------
(* Properties *)

Requests == [pc : {"idle", "schema", "write", "update", "remove", "forget", "answer"},
             op : {"none", "Upload", "Delete"}, template : Template \union {None},
             path : User \union {None}, old : User \union {None}, entry : Entry \union {None}]

TypeOK ==
  /\ files \in [Paths -> Contents]
  /\ others \subseteq Paths
  /\ events \in Seq(Event)
  /\ watching \in BOOLEAN
  /\ templates \in [Types -> Seq(Entry)]
  /\ schemas \in [Types -> Template \union {None}]
  /\ outdated \subseteq Types
  /\ rpc \in Requests
  /\ unheard \subseteq Paths /\ touched \subseteq Paths /\ stale \subseteq Types

Settled == events = <<>> /\ outdated = {} /\ Idle

\* When all events are read and no request is being served, the map has each file once, with the
\* type and the contents that it has now, whatever was edited, moved, broken, uploaded and
\* deleted in whatever order by two threads; and a template of the user hides one that is
\* shipped. (FileWritten, FileDeleted, UpdateUploaded, ForgetTemplate)
FollowsDisk ==
  Settled =>
    /\ \A p \in Paths \ unheard :
         /\ Known(p)
         /\ \A t \in Types : \A i, j \in DOMAIN templates[t] :
              templates[t][i].path = p /\ templates[t][j].path = p => i = j
    /\ \A t \in Types : UserDefined(t) # {} => InUse(t).path \in User

\* A schema that is kept is that of the template that is in use, as its file is now: the cache is
\* emptied for both types when a file changes its type, and after the map, while another thread
\* makes schemas. (FileWritten, InvalidateCache, GenerateSchema)
SchemasFollow ==
  Settled /\ unheard = {} =>
    \A t \in Types \ stale :
      schemas[t] # None => templates[t] # <<>> /\ schemas[t] = files[InUse(t).path]

\* When an upload is answered, what was uploaded is in use, its schema is not that of another
\* template, and no other file of the user has the type, unless somebody else changed these
\* files; the watcher handles the events of the upload itself at the same time.
\* (FindUserDefinedTemplate, UpdateUploaded, RemoveFile, ForgetTemplate)
UploadHolds ==
  rpc.pc = "answer" /\ rpc.op = "Upload" /\ touched \intersect User = {} =>
    LET t == rpc.template.type IN
      /\ templates[t] # <<>>
      /\ InUse(t).header = rpc.template
      /\ schemas[t] \in {None, rpc.template}
      /\ {p \in User : OfType(files[p], t)} = {rpc.path}

\* A request changes no file of another type, unless somebody else has put it there meanwhile:
\* the map that names the old file may be behind the directory. (Upload, Delete)
OthersKept ==
  [][\A p \in Paths :
       rpc.pc \in {"write", "update", "remove"} /\ rpc' # rpc /\ files'[p] # files[p] /\ p \notin touched
         => files[p] = None \/ OfType(files[p], rpc.template.type)]_vars

\* When a deletion is answered no schema of the deleted template is left. Not so: when the watcher
\* drops the entry first, ForgetTemplate finds none and removes no schema, and the watcher has
\* yet to do it; no run states this. (ForgetTemplate, InvalidateCache)
DeleteHolds ==
  rpc.pc = "answer" /\ rpc.op = "Delete" /\ touched \intersect User = {} =>
    LET t == rpc.template.type IN
      schemas[t] # None => templates[t] # <<>> /\ schemas[t] = files[InUse(t).path]
=============================================================================
