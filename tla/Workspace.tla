----------------------------- MODULE Workspace -----------------------------
(* The Docker workspace of one task (internal/sandbox/docker_workspace.go): a
   named volume that holds a copy of the repository and its git baseline, and
   one container per operation.  A change of the agent is an element of Edits;
   the volume is described by the edits its files and its git index hold beyond
   the baseline.  A context that ends kills the docker client only: the
   container outlives it, may still write, and keeps the volume in use.        *)
CONSTANTS Edits,    \* the edit_file and write_file calls an agent can make
          Rewrites, \* those that are write_file calls
          Ignored,  \* those to a path .gitignore names
          Command   \* a container that outlives its client and writes no file

ASSUME WorkspaceAssumption ==
  /\ Rewrites \subseteq Edits
  /\ Ignored \subseteq Edits
  /\ Command \notin Edits

Workspaces == [volume : BOOLEAN,                    \* the volume exists
               files  : SUBSET Edits,               \* what /workspace holds
               index  : SUBSET Edits,               \* what git has staged
               late   : SUBSET (Edits \cup {Command}), \* orphan containers
               stray  : SUBSET Edits]               \* written by an orphan

NoWorkspace == [volume |-> FALSE, files |-> {}, index |-> {}, late |-> {}, stray |-> {}]

(* importRepository: the first container creates the volume and receives the
   files of the repository, without .git, caches and links. *)
Imported == [NoWorkspace EXCEPT !.volume = TRUE]

(* initializeGit: what .gitignore does not name is committed as the baseline. *)
Baseline == [Imported EXCEPT !.files = {}, !.index = {}]

(* The docker client is killed while its container c runs on. *)
Orphan(w, c) == [w EXCEPT !.late = @ \cup {c}]

(* An orphan container ends; an orphan edit writes its file before it does. *)
Land(w, c) == [w EXCEPT !.late = @ \ {c},
                        !.files = @ \cup ({c} \cap Edits),
                        !.stray = @ \cup ({c} \cap Edits)]

(* What edit_file may leave, with the answer it gives: the edit, nothing with
   an error (no such file, old_string not found, a path outside the workspace),
   or nothing and no error (the lines already stand somewhere in the file).    *)
EditFile(w, e) == {[ws |-> [w EXCEPT !.files = @ \cup {e}], ok |-> TRUE],
                   [ws |-> w, ok |-> TRUE], [ws |-> w, ok |-> FALSE]}

(* write_file creates directories and file, or refuses the path. *)
WriteFile(w, e) == {[ws |-> [w EXCEPT !.files = @ \cup {e}], ok |-> TRUE],
                    [ws |-> w, ok |-> FALSE]}

Apply(w, e) == IF e \in Rewrites THEN WriteFile(w, e) ELSE EditFile(w, e)

(* git add -A && git diff --cached: staging skips the ignored paths. *)
Stage(w) == [w EXCEPT !.index = @ \cup (w.files \ Ignored)]

(* git reset --hard && git clean -fd: without -x the ignored files stay. *)
ResetTree(w) == [w EXCEPT !.files = @ \cap Ignored, !.index = {}, !.stray = @ \cap Ignored]

(* docker volume rm -f: refused while a container still mounts the volume; the
   error is dropped. *)
Close(w) == IF w.late = {} THEN NoWorkspace ELSE w

NoReport == [applied |-> FALSE, passed |-> FALSE, saw |-> {}]

(* The reports of a test run that ends by itself: the staged files cannot be
   listed, no test runner is known, the command fails, the command passes.  The
   command sees every file of the volume, staged or not.                       *)
RunTest(w) == {NoReport} \cup
              [applied : {TRUE}, passed : BOOLEAN, saw : {w.files}]
=============================================================================
