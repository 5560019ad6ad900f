----------------------------- MODULE RemoteFiles -----------------------------
(***************************************************************************)
(* The files of a server, as the dashboard changes them over SFTP          *)
(* (files/service.go, handlers/files.go).  Every request has a connection  *)
(* of its own and none waits for another: a path is looked up, emptied,    *)
(* written, renamed and removed in separate calls, and a file that is open *)
(* stays what it is wherever its name goes.                                *)
(***************************************************************************)
EXTENDS Naturals

CONSTANTS
  Paths,      \* paths of files
  Uploads,    \* uploads, each once
  None,       \* no file
  Parts,      \* an upload has one part, or up to this many
  MaxMoves,   \* bound on renames and removals
  MaxCuts     \* bound on what ends early or fails

VARIABLES
  at,         \* path -> the file it names, or None
  content,    \* file -> part -> the upload it is of, or None
  parts,      \* upload -> how many it has
  pc,         \* upload -> where its request stands
  open,       \* upload -> the file it has open
  written,    \* upload -> the parts it has written
  audits,     \* audit events so far
  told,       \* history: files an error was answered for, or two wrote together
  given,      \* history: files that were removed, or emptied after their upload
  moves, cuts

upload == <<parts, pc, open, written>>
vars == <<at, content, upload, audits, told, given, moves, cuts>>

\* The file that is there at first, and the one each upload would create.
Old == "old"
Files == {Old} \union Uploads
Named == {at[p] : p \in Paths} \ {None}
Whole(u) == [i \in 1..Parts |-> IF i <= parts[u] THEN u ELSE None]
Blank == [i \in 1..Parts |-> None]
Writing(f) == {u \in Uploads : pc[u] = "copy" /\ open[u] = f}
Cut == cuts < MaxCuts /\ cuts' = cuts + 1

\* auditFile, whose failing Append is ignored.
Audit == \/ audits' = audits + 1 /\ UNCHANGED cuts
         \/ Cut /\ UNCHANGED audits

Init ==
  /\ \E p \in Paths : at = [q \in Paths |-> IF q = p THEN Old ELSE None]
  /\ content = [f \in Files |-> [i \in 1..Parts |-> IF f = Old THEN Old ELSE None]]
  /\ parts \in [Uploads -> 1..Parts] /\ pc = [u \in Uploads |-> "new"]
  /\ open = [u \in Uploads |-> None] /\ written = [u \in Uploads |-> 0]
  /\ audits = 0
  /\ told = {} /\ given = {} /\ moves = 0 /\ cuts = 0

-----------------------------------------------------------------------------
(* Upload.                                                                 *)

\* Slip: a file that is there is opened as it is.
CreateKeeps(u, p) ==
  LET f == IF at[p] = None THEN u ELSE at[p]
  IN  /\ pc[u] = "new" /\ pc' = [pc EXCEPT ![u] = "copy"]
      /\ open' = [open EXCEPT ![u] = f] /\ at' = [at EXCEPT ![p] = f]
      /\ told' = IF Writing(f) = {} THEN told ELSE told \union {f}
      /\ given' = IF f = u THEN given ELSE given \union {f}
      /\ UNCHANGED <<content, parts, written, audits, moves, cuts>>

\* sftp's Create: a file that is there is emptied, under whoever has it open.
Create(u, p) ==
  LET f == IF at[p] = None THEN u ELSE at[p]
  IN  /\ pc[u] = "new" /\ pc' = [pc EXCEPT ![u] = "copy"]
      /\ open' = [open EXCEPT ![u] = f] /\ at' = [at EXCEPT ![p] = f]
      /\ content' = [content EXCEPT ![f] = Blank]
      /\ told' = IF Writing(f) = {} THEN told ELSE told \union {f}
      /\ given' = IF f = u THEN given ELSE given \union {f}
      /\ UNCHANGED <<parts, written, audits, moves, cuts>>

\* io.Copy: part after part, each at its own place in the open file.
Write(u) ==
  /\ pc[u] = "copy" /\ written[u] < parts[u]
  /\ written' = [written EXCEPT ![u] = @ + 1]
  /\ content' = [content EXCEPT ![open[u]][written[u] + 1] = u]
  /\ UNCHANGED <<at, parts, pc, open, audits, told, given, moves, cuts>>

\* The browser, the server or a deadline ends it: what was written stays, the
\* answer is an error, and no event tells of it.
UploadFails(u) ==
  /\ pc[u] = "copy" /\ Cut /\ pc' = [pc EXCEPT ![u] = "failed"]
  /\ told' = told \union {open[u]}
  /\ UNCHANGED <<at, content, parts, open, written, audits, given, moves>>

\* Slip: the end of the connection is taken for the end of the body.
CopiedEarly(u) == pc[u] = "copy"

Copied(u) == pc[u] = "copy" /\ written[u] = parts[u]

\* The event, and the answer.
Uploaded(u) ==
  /\ Copied(u) /\ pc' = [pc EXCEPT ![u] = "done"] /\ Audit
  /\ UNCHANGED <<at, content, parts, open, written, told, given, moves>>

-----------------------------------------------------------------------------
(* Rename and remove.                                                      *)

Move == moves < MaxMoves /\ moves' = moves + 1

\* Slip: a rename that replaces what the new path named.
RenameOver(p, q) ==
  /\ Move /\ Audit /\ at[p] # None /\ p # q
  /\ at' = [at EXCEPT ![p] = None, ![q] = at[p]]
  /\ UNCHANGED <<content, upload, told, given>>

\* SSH_FXP_RENAME: refused where the new path names a file.
Rename(p, q) ==
  /\ Move /\ Audit /\ at[p] # None /\ at[q] = None
  /\ at' = [at EXCEPT ![p] = None, ![q] = at[p]]
  /\ UNCHANGED <<content, upload, told, given>>

\* Remove, whose Stat tells a file from a directory.
Remove(p) ==
  /\ Move /\ Audit /\ at[p] # None /\ at' = [at EXCEPT ![p] = None]
  /\ given' = given \union {at[p]}
  /\ UNCHANGED <<content, upload, told>>

Next ==
  \/ \E u \in Uploads : \/ Write(u) \/ UploadFails(u) \/ Uploaded(u)
                        \/ \E p \in Paths : Create(u, p)
  \/ \E p \in Paths : Remove(p) \/ \E q \in Paths : Rename(p, q)

Spec == Init /\ [][Next]_vars

-----------------------------------------------------------------------------
(* Properties.                                                             *)

\* Every variable has its type.
TypeOK ==
  /\ at \in [Paths -> Files \union {None}]
  /\ content \in [Files -> [1..Parts -> Files \union {None}]]
  /\ parts \in [Uploads -> 1..Parts]
  /\ pc \in [Uploads -> {"new", "copy", "done", "failed"}]
  /\ open \in [Uploads -> Files \union {None}] /\ written \in [Uploads -> 0..Parts]
  /\ audits \in Nat /\ told \subseteq Files /\ given \subseteq Files
  /\ moves \in 0..MaxMoves /\ cuts \in 0..MaxCuts

\* A file nobody is writing is one upload as it was sent, not a part of it, nor
\* two, nor a short one before the rest of a longer one, unless an error was
\* answered for that file or two wrote it together.
QuietFileIsWhole ==
  \A f \in Named \ told :
    Writing(f) = {} => \/ \E u \in Uploads : content[f] = Whole(u)
                       \/ content[f] = [i \in 1..Parts |-> Old]

\* What was uploaded to a path of its own, and answered, is there under some
\* path, whole, until somebody removes it or uploads to it: no rename loses it.
AnsweredIsKept ==
  \A u \in Uploads :
    pc[u] = "done" /\ open[u] = u /\ u \notin told \union given
      => u \in Named /\ content[u] = Whole(u)

=============================================================================
