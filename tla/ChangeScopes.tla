------- MODULE ChangeScopes -------
(****************************************)
(* src/shared/repository-change.ts: what kind of change a repository has *)
(* seen, and the one scope that stands for several changes.  The watcher of *)
(* the server and the refresh cycles of a browser tab both merge scopes. *)
(****************************************)

RepositoryChangeScope == {"worktree", "index", "refs", "worktrees", "unknown"}

\* Bug: two kinds of change are reported as the later one.
MergedLater(left, right) == right

\* mergeRepositoryChangeScopes.
Merged(left, right) ==
  CASE left = right -> left
    [] {left, right} = {"worktree", "index"} -> "index"
    [] OTHER -> "unknown"

\* What is read again for a scope: index stands for the working tree, too.
Refreshed(scope) ==
  CASE scope = "unknown" -> RepositoryChangeScope
    [] scope = "index" -> {"index", "worktree"}
    [] OTHER -> {scope}
==============================
