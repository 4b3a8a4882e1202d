------------------------------ MODULE OutputFile -----------------------------
(***************************************************************************)
(* One read() of the trusted output-file source                            *)
(* (src/src/source/output-file.ts) while the tool that writes the file,    *)
(* and whatever rotates or replaces it, keep running.  Every await is a    *)
(* step of its own; the file system changes between them.                  *)
(*                                                                         *)
(* A name is a canonical path or one that leads elsewhere: through a link  *)
(* that is its last component, or because a directory above it has been    *)
(* replaced by a link.  Bytes are numbered from 1; a file is its length.   *)
(***************************************************************************)
EXTENDS Naturals, FiniteSets

CONSTANTS Names, Inside,   \* paths, and those within an allowed root
          Candidate,       \* the path the tool's metadata names
          Files, Regular,  \* inodes, and those that are regular files
          Nowhere, NoFile,
          MaxOutputChars, ChunkBytes,
          MaxSize,         \* bound: bytes of a file
          MaxChanges       \* bound: changes of names during a read

ASSUME OutputFileAssumption ==
  /\ Inside \subseteq Names /\ Candidate \in Names
  /\ Regular \subseteq Files
  /\ MaxOutputChars \in Nat \ {0} /\ ChunkBytes \in Nat \ {0} /\ MaxSize \in Nat

VARIABLES names,     \* what each path is
          size,      \* bytes of each file
          changes,   \* names changed so far
          reader,    \* the call: where it is and what it knows
          shown      \* ghost: files that were at a path within a root

fileVars == <<names, size, changes, reader, shown>>

File(f) == [kind |-> "file", file |-> f, to |-> Nowhere]
Link(n) == [kind |-> "link", file |-> NoFile, to |-> n]
Moved(n) == [kind |-> "moved", file |-> NoFile, to |-> n]
Absent == [kind |-> "absent", file |-> NoFile, to |-> Nowhere]
PathEntries ==
  {File(f) : f \in Files} \cup {Absent}
  \cup {Link(n) : n \in Names} \cup {Moved(n) : n \in Names}

(* realpath, Nowhere if it fails; links lead to files in one step.         *)
RealPath(fs, n) ==
  CASE fs[n].kind = "file" -> n
    [] fs[n].kind = "absent" -> Nowhere
    [] OTHER -> IF fs[fs[n].to].kind = "file" THEN fs[n].to ELSE Nowhere
FileAt(fs, n) == IF RealPath(fs, n) = Nowhere THEN NoFile ELSE fs[RealPath(fs, n)].file
ShownInside(fs) == {FileAt(fs, n) : n \in {k \in Inside : fs[k].kind = "file"}}

NoRead == [pc |-> "idle", canonical |-> Nowhere, file |-> NoFile, current |-> Nowhere,
         total |-> 0, reason |-> "none"]
Refuse(reason) ==
  reader' = [NoRead EXCEPT !.pc = "done", !.reason = reason]
Goto(pc) == reader' = [reader EXCEPT !.pc = pc]
StillFiles == UNCHANGED <<names, size, changes, shown>>
-----------------------------------------------------------------------------
(* read(): the tool is checked first, then the path is resolved.           *)
Start(trusted) ==
  /\ reader.pc = "idle"
  /\ IF trusted THEN Goto("resolve") ELSE Refuse("untrusted_output_path")
  /\ shown' = ShownInside(names)
  /\ UNCHANGED <<names, size, changes>>

Resolve ==
  /\ reader.pc = "resolve"
  /\ IF RealPath(names, Candidate) = Nowhere THEN Refuse("output_path_read_error")
     ELSE reader' = [reader EXCEPT !.pc = "roots", !.canonical = RealPath(names, Candidate)]
  /\ StillFiles

(* The realpaths of the roots; a root that does not resolve is left out.   *)
Within(n) == n \in Inside
CheckRoot(rootResolves) ==
  /\ reader.pc = "roots"
  /\ IF rootResolves /\ Within(reader.canonical) THEN Goto("open")
     ELSE Refuse("untrusted_output_path")
  /\ StillFiles

(* open with O_NOFOLLOW: a last component that is a link is refused, a     *)
(* directory above that became one is followed.                            *)
Open ==
  /\ reader.pc = "open"
  /\ IF names[reader.canonical].kind = "link" \/ FileAt(names, reader.canonical) = NoFile
     THEN Refuse("output_path_read_error")
     ELSE reader' = [reader EXCEPT !.pc = "fstat", !.file = FileAt(names, reader.canonical)]
  /\ StillFiles

Fstat ==
  /\ reader.pc = "fstat"
  /\ CASE reader.file \notin Regular -> Refuse("output_path_not_regular")
       [] reader.file \in Regular /\ size[reader.file] > MaxOutputChars ->
            Refuse("output_path_too_large")
       [] OTHER -> Goto("reresolve")
  /\ StillFiles

Reresolve ==
  /\ reader.pc = "reresolve"
  /\ LET current == RealPath(names, reader.canonical)
     IN  CASE current = Nowhere -> Refuse("output_path_read_error")
           [] current # Nowhere /\ ~Within(current) -> Refuse("untrusted_output_path")
           [] OTHER -> reader' = [reader EXCEPT !.pc = "stat", !.current = current]
  /\ StillFiles

SameFileAssumed(f, g) == TRUE
SameFile(f, g) == f = g
Stat ==
  /\ reader.pc = "stat"
  /\ LET f == FileAt(names, reader.current)
     IN  CASE f = NoFile -> Refuse("output_path_read_error")
           [] f # NoFile /\ ~SameFile(f, reader.file) -> Refuse("untrusted_output_path")
           [] OTHER -> Goto("read")
  /\ StillFiles

(* One chunk, up to one byte more than the limit: bytesRead = 0 ends the   *)
(* content, the byte beyond the limit refuses it.                          *)
ReadChunk ==
  /\ reader.pc = "read"
  /\ LET wanted == IF ChunkBytes < MaxOutputChars - reader.total + 1 THEN ChunkBytes
                   ELSE MaxOutputChars - reader.total + 1
         left == IF size[reader.file] > reader.total THEN size[reader.file] - reader.total ELSE 0
     IN  \E bytesRead \in 0 .. (IF left < wanted THEN left ELSE wanted) :
           /\ bytesRead = 0 => left = 0
           /\ CASE bytesRead = 0 -> Goto("done")
                [] bytesRead > 0 /\ reader.total + bytesRead > MaxOutputChars ->
                     Refuse("output_path_too_large")
                [] OTHER -> reader' = [reader EXCEPT !.total = @ + bytesRead]
  /\ StillFiles

(* Any of the system calls may fail for a reason of its own (no access, an *)
(* I/O error): one of the two catches refuses.                             *)
CallFails ==
  /\ reader.pc \in {"resolve", "open", "fstat", "reresolve", "stat", "read"}
  /\ Refuse("output_path_read_error")
  /\ StillFiles
-----------------------------------------------------------------------------
(* The file system: a path is replaced, a file is written or truncated.    *)
Calling == reader.pc \notin {"idle", "done"}
Replace(n, entry) ==
  /\ Calling /\ changes < MaxChanges
  /\ names[n] # entry
  /\ names' = [names EXCEPT ![n] = entry]
  /\ changes' = changes + 1
  /\ shown' = shown \cup ShownInside(names')
  /\ UNCHANGED <<size, reader>>
Write(f, bytes) ==
  /\ Calling /\ f \in Regular
  /\ bytes # size[f]
  /\ size' = [size EXCEPT ![f] = bytes]
  /\ UNCHANGED <<names, changes, reader, shown>>

FileSystem ==
  \/ \E n \in Inside, entry \in {File(f) : f \in Files} \cup {Absent}
                                \cup {Link(k) : k \in Names \ Inside}
                                \cup {Moved(k) : k \in Names \ Inside} : Replace(n, entry)
  \/ \E f \in Files, bytes \in {0, MaxSize} : Write(f, bytes)
Reader ==
  \/ \E trusted \in BOOLEAN : Start(trusted)
  \/ Resolve
  \/ \E rootResolves \in BOOLEAN : CheckRoot(rootResolves)
  \/ Open \/ Fstat \/ Reresolve \/ Stat \/ ReadChunk
  \/ CallFails

FileInit ==
  /\ names \in [Names -> PathEntries]
  /\ size = [f \in Files |-> 1]
  /\ changes = 0 /\ reader = NoRead /\ shown = {}
FileNext == Reader \/ FileSystem
FileSpec == FileInit /\ [][FileNext]_fileVars
-----------------------------------------------------------------------------
(* Content that is returned comes from one regular file, is no longer than *)
(* the limit although the file may grow while it is read, and that file    *)
(* was at a path within an allowed root during the call, although names    *)
(* change between the checks (output-file.ts:198-199: "the common          *)
(* symlink/path-swap race window", which is a swap and a swap back).       *)
FileReadTrusted ==
  reader.pc = "done" /\ reader.reason = "none" =>
    /\ reader.file \in Regular \cap shown
    /\ reader.total <= MaxOutputChars
=============================================================================
