------- MODULE MCOpenFiles -------
EXTENDS OpenFiles, TLC

\* The files are interchangeable.
Interchangeable == Permutations(Paths)

InUse(p) ==
  \/ p \in OpenPaths(session) \/ p \in {renaming.from, renaming.to}
  \/ disk[p] # 0 \/ last[p] # Nothing

\* Bound: while files are saved, listed or changed by more than editing, two are in use.
Few ==
  changes > 0 \/ snapshot.answered \/ (\E i \in Saves : save[i].stage # "none") =>
    Cardinality({p \in Paths : InUse(p)}) <= 2
==============================
