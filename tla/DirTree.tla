------------------------------ MODULE DirTree -------------------------------
(***************************************************************************)
(* make_all_dirs and remove_dir on one tree of files and directories.      *)
(* make_all_dirs is a chain of stat and mkdir requests, each answered on   *)
(* the loop thread; remove_dir is one work on a pool thread, which calls   *)
(* the file system step by step.  So several of them interleave between    *)
(* any two calls.  A path is a sequence of names; all names are equally    *)
(* long, so the number of names stands for the size of a path.             *)
(***************************************************************************)
EXTENDS Naturals, FiniteSets, SequencesExt

CONSTANTS Names,           \* names of files and directories
          Depth,           \* bound on the depth of the tree
          MaxEntries,      \* bound on the files and directories there at first
          MaxMakers,       \* bound on the calls of make_all_dirs
          MaxTreeCalls,    \* bound on the calls of both together
          Cancelled        \* may the first name of a path be cancelled by a ".."?

ASSUME DirTreeAssumption == Depth \in Nat /\ MaxEntries \in Nat /\ MaxTreeCalls \in Nat
                                 /\ MaxMakers \in Nat /\ Cancelled \in BOOLEAN

VARIABLES
  tree,       \* what is at each path below the directory given to remove_dir
  maker,      \* the state of each make_all_dirs
  remover,    \* the state of remove_dir: work_data, and the progress callbacks called
  created     \* history: the directories made by make_all_dirs

treeVars == <<tree, maker, remover, created>>

Makers == 1..MaxMakers

Paths == SeqOf(Names, Depth)
Inside(p, q) == Len(q) > Len(p) /\ SubSeq(q, 1, Len(p)) = p
Trees == {t \in [Paths -> {"none", "file", "dir"}] :
            /\ t[<<>>] = "dir" /\ Cardinality({p \in Paths : t[p] # "none"}) <= MaxEntries + 1
            /\ \A p, q \in Paths : Inside(p, q) /\ t[q] # "none" => t[p] = "dir"}

\* made: the program calls these functions.
TreeInit(made) ==
  /\ tree \in IF made THEN Trees ELSE {[p \in Paths |-> "none"]}
  /\ maker = [m \in Makers |-> [pc |-> IF made THEN "idle" ELSE "absent", path |-> <<>>, p |-> <<>>,
                                result |-> "none"]]
  /\ remover = [pc |-> IF made THEN "idle" ELSE "absent", work_data |-> <<>>, seen |-> {}, old |-> {},
                result |-> "none", progress |-> <<>>, failed |-> FALSE]
  /\ created = {}

-----------------------------------------------------------------------------
(* make_all_dirs *)

\* lexically_normal of a path of names and ".." that does not lead above its start.
normal_names(path, dot_dot) ==
  FoldLeft(LAMBDA normal, name : IF name = dot_dot THEN Front(normal) ELSE Append(normal, name),
           <<>>, path)

\* Paths of the full depth, which pass through all shorter ones.
MakePaths == LET plain == {p \in Paths : Len(p) = Depth}
             IN  plain \cup {<<x, "..">> \o p : x \in IF Cancelled THEN Names ELSE {}, p \in plain}

make_all_dirs(m, path) ==
  /\ maker[m].pc = "idle" /\ \A k \in 1..(m - 1) : maker[k].pc # "idle"
  /\ maker' = [maker EXCEPT ![m].pc = "stat", ![m].path = path, ![m].p = <<path[1]>>]
  /\ UNCHANGED <<tree, remover, created>>

on_end(m, error) == [maker EXCEPT ![m].pc = "done", ![m].result = error]

\* Faulty: the last name is not made (rejected by TreeAsReported).
StopsEarly(m) ==
  LET normalized_path == normal_names(maker[m].path, "..")
      p == maker[m].p
  IN  IF Len(p) + 1 = Len(normalized_path) THEN on_end(m, "OK")
      ELSE [maker EXCEPT ![m].pc = "stat", ![m].p = Append(p, normalized_path[Len(p) + 1])]

\* A directory is there; so the last one is reported, or the next name looked at.
NextPath(m) ==
  LET normalized_path == normal_names(maker[m].path, "..")
      p == maker[m].p
  IN  IF Len(p) = Len(normalized_path) THEN on_end(m, "OK")
      ELSE [maker EXCEPT ![m].pc = "stat", ![m].p = Append(p, normalized_path[Len(p) + 1])]

on_stat_of(m) ==
  LET p == maker[m].p
  IN  /\ maker[m].pc = "stat"
      /\ maker' = IF \E q \in Paths : Inside(q, p) /\ tree[q] = "file" THEN on_end(m, "error")
                  ELSE IF tree[p] = "none" THEN [maker EXCEPT ![m].pc = "mkdir"]
                  ELSE IF tree[p] = "file" THEN on_end(m, "NOT_A_DIRECTORY")
                  ELSE NextPath(m)
      /\ UNCHANGED <<tree, remover, created>>

\* mkdir needs the directory above and nothing at the path, and may be refused.
on_make_dir(m, allowed) ==
  LET p == maker[m].p
  IN  /\ maker[m].pc = "mkdir"
      /\ IF allowed /\ tree[Front(p)] = "dir" /\ tree[p] = "none"
         THEN tree' = [tree EXCEPT ![p] = "dir"] /\ created' = created \cup {p} /\ maker' = NextPath(m)
         ELSE maker' = on_end(m, "error") /\ UNCHANGED <<tree, created>>
      /\ UNCHANGED remover

-----------------------------------------------------------------------------
(* remove_dir *)

Entry(p) == [path |-> p, processed |-> FALSE]
Back == Last(remover.work_data)
Children(p) == {q \in Paths : Inside(p, q) /\ Len(q) = Len(p) + 1 /\ tree[q] # "none"}

RemoverStep(r) == remover' = r /\ UNCHANGED <<maker, created>>
Failed(error) == RemoverStep([remover EXCEPT !.pc = "done", !.result = "error", !.failed = error])

remove_dir ==
  /\ remover.pc = "idle"
  /\ RemoverStep([remover EXCEPT !.pc = "open", !.work_data = <<Entry(<<>>)>>])
  /\ UNCHANGED tree

\* remove_dir_entry of the last entry: it is marked, and its directory opened, ...
OpenEntry ==
  /\ remover.pc = "open" /\ UNCHANGED tree
  /\ IF tree[Back.path] = "dir"
     THEN RemoverStep([remover EXCEPT !.pc = "read", !.seen = {}, !.old = Children(Back.path),
                                      !.work_data[Len(remover.work_data)].processed = TRUE])
     ELSE Failed(FALSE)

\* ... read entry by entry, files unlinked, which may be refused, and directories
\* put on the stack.  What is made meanwhile is read or not.
Listed == LET marked == {i \in 1..Len(remover.work_data) : remover.work_data[i].processed}
          IN  remover.work_data[CHOOSE i \in marked : \A j \in marked : j <= i].path

ReadEntry(q, allowed) ==
  /\ remover.pc = "read" /\ q \in Children(Listed) \ remover.seen
  /\ LET read == [remover EXCEPT !.seen = @ \cup {q}]
     IN  IF tree[q] = "dir"
         THEN RemoverStep([read EXCEPT !.work_data = Append(@, Entry(q))]) /\ UNCHANGED tree
         ELSE IF allowed THEN RemoverStep(read) /\ tree' = [tree EXCEPT ![q] = "none"]
         ELSE Failed(TRUE) /\ UNCHANGED tree

\* At the end, the last entry is removed if it is the one just read, else read.
EndOfEntry ==
  /\ remover.pc = "read" /\ (remover.old \cap Children(Listed)) \subseteq remover.seen
  /\ RemoverStep([remover EXCEPT !.pc = IF Back.processed THEN "rmdir" ELSE "open"])
  /\ UNCHANGED tree

rmdir ==
  /\ remover.pc = "rmdir"
  /\ IF Children(Back.path) = {}
     THEN /\ tree' = [tree EXCEPT ![Back.path] = "none"]
          /\ LET popped == Front(remover.work_data)
             IN  RemoverStep([remover EXCEPT !.work_data = popped,
                                !.progress = Append(@, Back.path),
                                !.pc = IF popped = <<>> THEN "done" ELSE "open",
                                !.result = IF popped = <<>> THEN "OK" ELSE @])
     ELSE Failed(FALSE) /\ UNCHANGED tree

-----------------------------------------------------------------------------

CallsMade == {m \in Makers : maker[m].pc # "idle"} \cup
               IF remover.pc # "idle" THEN {0} ELSE {}

TreeCall == /\ Cardinality(CallsMade) < MaxTreeCalls
            /\ remove_dir \/ \E m \in Makers, path \in MakePaths : make_all_dirs(m, path)

TreeStep == \/ OpenEntry \/ EndOfEntry \/ rmdir
            \/ \E q \in Paths, allowed \in BOOLEAN : ReadEntry(q, allowed)
            \/ \E m \in Makers : on_stat_of(m) \/ \E allowed \in BOOLEAN : on_make_dir(m, allowed)
=============================================================================
