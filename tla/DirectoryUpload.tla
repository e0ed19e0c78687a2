---------------------------- MODULE DirectoryUpload ----------------------------
(***************************************************************************)
(* The four ways of pkg/file to upload a collection of files:              *)
(*   UploadCollection         a directory, as a tar archive,               *)
(*   UploadCollectionEntries  entries in memory, as a tar archive,         *)
(*   StreamDirectory          a directory, chunk by chunk,                 *)
(*   StreamCollectionEntries  entries in memory, chunk by chunk.           *)
(* An archive is written by a goroutine into a pipe, from which the request*)
(* reads; the user may change files meanwhile.  The streamed ways build a  *)
(* Mantaray manifest of what they chunk, and save it last.                 *)
(***************************************************************************)
EXTENDS Mantaray

CONSTANTS
  Order,     (* the paths in the order of a walk                           *)
  Contents,  (* what files hold: sequences of blocks                       *)
  None,      (* no file                                                    *)
  MaxEdits   (* bound: changes of the user while the upload runs           *)

(* A walk goes by sorted names: a path comes before those it is a prefix of*)
ASSUME WalkAssumption ==
  /\ Order \in Seq(Paths) /\ Paths = {Order[i] : i \in DOMAIN Order}
  /\ \A i, k \in DOMAIN Order : IsPrefix(Order[i], Order[k]) => i <= k
  /\ None \notin Contents /\ \A c \in Contents : c \in Seq({c[i] : i \in DOMAIN c})
  /\ MaxEdits \in Nat

VARIABLES
  method,    (* the way of uploading                                       *)
  disk,      (* the directory                                              *)
  edits,     (* number of changes made to it                               *)
  seen,      (* history: seen[p]: what file p has been since the start     *)
  todo,      (* the entries of the upload                                  *)
  step,      (* where the call, or the goroutine, is                       *)
  item,      (* the entry it is at                                         *)
  part,      (* the number of its chunks that were sent                    *)
  stored,    (* the chunks of files that the node has                      *)
  pipe,      (* "open", "eof", "failed" by the writer, "closed" by reader  *)
  request,   (* the request that carries the archive                       *)
  archive,   (* what was written of the archive                            *)
  result     (* what the call returns                                      *)

inputs  == <<method, disk, edits, seen>>
work    == <<item, part, stored>>
tarVars == <<pipe, request, archive>>
upVars  == <<vars, inputs, todo, step, work, tarVars, result>>

Directory == method \in {"UploadCollection", "StreamDirectory"}
Entries == {[path |-> p, data |-> c] : p \in Paths, c \in Contents}

UploadInit ==
  /\ Init
  /\ method \in {"UploadCollection", "UploadCollectionEntries",
                 "StreamDirectory", "StreamCollectionEntries"}
  /\ disk \in IF Directory THEN [Paths -> Contents \cup {None}]
              ELSE {[p \in Paths |-> None]}
  /\ edits = 0
  /\ seen = [p \in Paths |-> {disk[p]}]
  /\ todo \in IF Directory THEN {<<>>} ELSE UNION {[1..m -> Entries] : m \in 0..MaxAdds}
  /\ step = "start"
  /\ item = 1
  /\ part = 0
  /\ stored = {}
  /\ pipe = "open"
  /\ request = "none"
  /\ archive = <<>>
  /\ result = "none"

(* A definition between a helper's comment and the helper is a seeded fault*)
(* of it.                                                                  *)

(* The walk of a directory: the places of its files in the order.          *)
Walks(d) ==
  {w \in SetToSeqs({i \in DOMAIN Order : d[Order[i]] # None}) :
     \A i, k \in DOMAIN w : i < k => w[i] < w[k]}

Start ==
  /\ step = "start"
  /\ \E w \in Walks(disk) :
       todo' = IF Directory
               THEN [i \in DOMAIN w |-> [path |-> Order[w[i]], data |-> <<>>]]
               ELSE todo
  /\ step' = CASE method = "StreamDirectory" -> "read"
               [] method = "StreamCollectionEntries" -> "chunks"
               [] OTHER -> "header"
  /\ UNCHANGED <<vars, inputs, work, tarVars, result>>

Returns(r) ==
  /\ step' = "done"
  /\ result' = r

-----------------------------------------------------------------------------
(* The streamed ways.                                                      *)

(* readDirAsEntries reads the next file with os.ReadFile: it is opened, and*)
(* read block by block up to where it ends by then.                        *)
OpenToRead ==
  /\ step = "read" /\ item <= Len(todo)
  /\ IF disk[todo[item].path] = None
     THEN Returns("error") /\ UNCHANGED todo
     ELSE /\ step' = "load"
          /\ todo' = [todo EXCEPT ![item].data = <<>>]
          /\ UNCHANGED result
  /\ UNCHANGED <<vars, inputs, work, tarVars>>

ReadBlock ==
  LET i == Len(todo[item].data)
      file == disk[todo[item].path]
  IN
  /\ step = "load" /\ i < Len(file)
  /\ todo' = [todo EXCEPT ![item].data = Append(@, file[i + 1])]
  /\ UNCHANGED <<vars, inputs, step, work, tarVars, result>>

EndOfFile ==
  /\ step = "load" /\ Len(todo[item].data) >= Len(disk[todo[item].path])
  /\ step' = "read"
  /\ item' = item + 1
  /\ UNCHANGED <<vars, inputs, todo, part, stored, tarVars, result>>

ReadFile == OpenToRead \/ ReadBlock \/ EndOfFile

AllRead ==
  /\ step = "read" /\ item > Len(todo)
  /\ step' = "chunks"
  /\ item' = 1
  /\ UNCHANGED <<vars, inputs, todo, part, stored, tarVars, result>>

(* The chunks of a file: its blocks, and above several of them a parent.   *)
Chunks(data) == {<<data, i>> : i \in 1..(IF Len(data) > 1 THEN Len(data) + 1 ELSE 1)}

SendChunk ==
  /\ step = "chunks" /\ item <= Len(todo) /\ part < Cardinality(Chunks(todo[item].data))
  /\ stored' = stored \cup {<<todo[item].data, part + 1>>}
  /\ part' = part + 1
  /\ UNCHANGED <<vars, inputs, todo, step, item, tarVars, result>>

(* An upload that fails ends the call.                                     *)
GoesOn == step' = step /\ result' = result /\ part' = part + 1
Abandons == Returns("error") /\ part' = part
ChunkFails ==
  /\ step = "chunks" /\ item <= Len(todo) /\ part < Cardinality(Chunks(todo[item].data))
  /\ Abandons
  /\ UNCHANGED <<vars, inputs, todo, item, stored, tarVars>>

AddEntry ==
  /\ step = "chunks" /\ item <= Len(todo) /\ part = Cardinality(Chunks(todo[item].data))
  /\ AddFork(todo[item].path)
  /\ item' = item + 1
  /\ part' = 0
  /\ UNCHANGED <<inputs, todo, step, stored, tarVars, result>>

SaveManifest ==
  /\ step = "chunks" /\ item > Len(todo)
  /\ SaveRecursively
  /\ step' = "save"
  /\ UNCHANGED <<inputs, todo, work, tarVars, result>>

SaveNode ==
  /\ step = "save"
  /\ \/ Descend /\ UNCHANGED <<step, result>>
     \/ Upload /\ IF at = 1 THEN Returns("ok") ELSE UNCHANGED <<step, result>>
     \/ UploadFails /\ Returns("error")
  /\ UNCHANGED <<inputs, todo, work, tarVars>>

Streams ==
  ReadFile \/ AllRead \/ SendChunk \/ ChunkFails \/ AddEntry \/ SaveManifest \/ SaveNode

-----------------------------------------------------------------------------
(* The archive: the goroutine that writes it.                              *)

Data(i) == IF Directory THEN disk[todo[i].path] ELSE todo[i].data
Short == archive # <<>> /\ LET e == archive[Len(archive)] IN Len(e.blocks) < e.size

(* How the goroutine ends the pipe when the archive cannot be completed.   *)
LeavesPipeOpen == pipe
EndsNormally == IF pipe = "open" THEN "eof" ELSE pipe
EndsWithError == IF pipe = "open" THEN "failed" ELSE pipe
Fails ==
  /\ step' = "done"
  /\ pipe' = EndsWithError
  /\ UNCHANGED <<archive, item>>

(* Someone reads the other end, or has closed it.                          *)
Writable == request = "sending" \/ pipe = "closed"

(* The file is looked at and its header written, which fails if less was   *)
(* written of the file before than its header said.                        *)
WriteHeader ==
  /\ step = "header" /\ item <= Len(todo)
  /\ IF Data(item) = None THEN Fails
     ELSE /\ Short \/ Writable
          /\ IF pipe = "closed" \/ Short THEN Fails
             ELSE /\ archive' = Append(archive, [path   |-> todo[item].path,
                                                 size   |-> Len(Data(item)),
                                                 blocks |-> <<>>])
                  /\ step' = "open"
                  /\ UNCHANGED <<pipe, item>>
  /\ UNCHANGED <<vars, inputs, todo, part, stored, request, result>>

OpenFile ==
  /\ step = "open"
  /\ IF Data(item) = None THEN Fails
     ELSE step' = "copy" /\ UNCHANGED <<pipe, archive, item>>
  /\ UNCHANGED <<vars, inputs, todo, part, stored, request, result>>

(* The next block of the file as it is now; more than the header said is   *)
(* refused.                                                                *)
WriteBlock ==
  LET e == Len(archive)
      i == Len(archive[e].blocks)
  IN
  /\ step = "copy" /\ i < Len(Data(item))
  /\ i = archive[e].size \/ Writable
  /\ IF pipe = "closed" \/ i = archive[e].size THEN Fails
     ELSE /\ archive' = [archive EXCEPT ![e].blocks = Append(@, Data(item)[i + 1])]
          /\ UNCHANGED <<step, pipe, item>>
  /\ UNCHANGED <<vars, inputs, todo, part, stored, request, result>>

FileWritten ==
  /\ step = "copy" /\ Len(archive[Len(archive)].blocks) >= Len(Data(item))
  /\ step' = "header"
  /\ item' = item + 1
  /\ UNCHANGED <<vars, inputs, todo, part, stored, tarVars, result>>

(* That the last file was cut short makes the end of the archive fail,     *)
(* which UploadCollection ignores.  The pipe ends normally.                *)
CloseArchive ==
  /\ step = "header" /\ item > Len(todo)
  /\ Short \/ Writable
  /\ step' = "done"
  /\ pipe' = IF pipe = "open" THEN "eof" ELSE pipe
  /\ UNCHANGED <<vars, inputs, todo, work, request, archive, result>>

Writes == WriteHeader \/ OpenFile \/ WriteBlock \/ FileWritten \/ CloseArchive

-----------------------------------------------------------------------------
(* The archive: the request that carries it.                               *)

Archives == method \in {"UploadCollection", "UploadCollectionEntries"} /\ step # "start"

MakeRequest ==
  /\ Archives /\ request = "none"
  /\ request' = "sending"
  /\ UNCHANGED <<vars, inputs, todo, step, work, pipe, archive, result>>

(* There is no request without a context; the pipe stays as it is.         *)
NoRequest ==
  /\ Archives /\ request = "none"
  /\ request' = "unmade"
  /\ result' = "error"
  /\ UNCHANGED <<vars, inputs, todo, step, work, pipe, archive>>

(* The archive is complete as far as the pipe tells: the node answers, with*)
(* an error if a file is cut short.                                        *)
Answer ==
  /\ request = "sending" /\ pipe = "eof"
  /\ request' = "over"
  /\ result' \in {"error"} \cup {r \in {"ok"} : ~Short}
  /\ UNCHANGED <<vars, inputs, todo, step, work, pipe, archive>>

(* The body of the request cannot be read to its end.                      *)
Abort ==
  /\ request = "sending" /\ pipe = "failed"
  /\ request' = "over"
  /\ result' = "error"
  /\ UNCHANGED <<vars, inputs, todo, step, work, pipe, archive>>

(* The node refuses before the end, the connection breaks or the time is   *)
(* out; the transport closes the body.                                     *)
RequestFails ==
  /\ request = "sending"
  /\ request' = "over"
  /\ result' = "error"
  /\ pipe' = IF pipe = "open" THEN "closed" ELSE pipe
  /\ UNCHANGED <<vars, inputs, todo, step, work, archive>>

-----------------------------------------------------------------------------
(* The user writes or deletes a file.  What is copied or loaded has been   *)
(* opened: it is read to its end even if it is deleted.                    *)
UserEdits ==
  /\ Directory /\ step # "start" /\ edits < MaxEdits
  /\ \E p \in Paths, c \in Contents \cup {None} :
       /\ c # disk[p]
       /\ ~(c = None /\ step \in {"copy", "load"} /\ todo[item].path = p)
       /\ disk' = [disk EXCEPT ![p] = c]
       /\ seen' = [seen EXCEPT ![p] = @ \cup {c}]
  /\ edits' = edits + 1
  /\ UNCHANGED <<vars, method, todo, step, work, tarVars, result>>

Proceeds == Start \/ Streams \/ Writes \/ MakeRequest \/ Answer \/ Abort
UploadNext == Proceeds \/ NoRequest \/ RequestFails \/ UserEdits

(* Calls on the node are answered; the goroutine and the transport run.    *)
UploadSpec == UploadInit /\ [][UploadNext]_upVars /\ WF_upVars(Proceeds)

-----------------------------------------------------------------------------
(* What a reader of the returned collection finds, if anything: of an      *)
(* archive the last entry with the path; through a manifest what its       *)
(* chunks lead to.                                                         *)
LastAt(path) ==
  LET found == {i \in DOMAIN archive : archive[i].path = path}
  IN  {archive[i].blocks : i \in {k \in found : \A j \in found : j <= k}}

StreamedAt(path) ==
  LET root == CHOOSE a \in saved : TRUE
      entry == Served(root, path)
  IN  IF entry = NoEntry THEN {}
      ELSE {IF Chunks(todo[entry].data) \subseteq stored THEN todo[entry].data
            ELSE <<"missing chunks">>}

ReadAt(path) == IF Archives THEN LastAt(path) ELSE StreamedAt(path)

(* What is to be found at the path.                                        *)
Had(path) ==
  LET given == {todo[i].data : i \in {j \in DOMAIN todo : todo[j].path = path}}
  IN  IF Directory THEN seen[path] ELSE IF given = {} THEN {None} ELSE given

(* A reference that is returned leads to every file, whole: a file has a   *)
(* length it had while the upload ran and blocks it had in their places,   *)
(* and only a file that was absent at some time is missing.  Failing calls,*)
(* files that grow, shrink and disappear, and a goroutine that stops half  *)
(* way do not yield a reference to less.  A directory that is streamed has *)
(* no header that a file must fit: one that shrinks while it is read may be*)
(* longer than it was then, but not shorter.  Of the entries streamed in an*)
(* order of the caller's, a path that leads into one added before is not   *)
(* its own; in the order of a walk that does not happen.                   *)
FilesServed ==
  result = "ok" =>
    \A path \in Paths :
      \/ /\ ReadAt(path) = {} => None \in Had(path)
         /\ \A c \in ReadAt(path) :
              /\ \E s \in Had(path) \ {None} :
                   \/ Len(c) = Len(s)
                   \/ method = "StreamDirectory" /\ Len(s) < Len(c)
              /\ \A i \in DOMAIN c :
                   \E t \in Had(path) \ {None} : i <= Len(t) /\ t[i] = c[i]
      \/ method = "StreamCollectionEntries" /\ path \in shadowed

(* Whatever fails, no manifest is on the node without the chunks of all the*)
(* files it names, nor a chunk of it without those below it.               *)
FilesBeforeManifest ==
  /\ ChildrenFirst
  /\ \A chunk \in uploaded :
       chunk.entry = NoEntry \/ Chunks(todo[chunk.entry].data) \subseteq stored

(* Every call returns and its goroutine ends, as long as the node answers  *)
(* what it is sent: also when a file cannot be read, or the node refuses   *)
(* the archive before its end.  The exception is a request that cannot be  *)
(* made, after which the goroutine waits for a reader for ever.            *)
UploadEnds == <>(result # "none" /\ (step = "done" \/ request = "unmade"))

=============================================================================
