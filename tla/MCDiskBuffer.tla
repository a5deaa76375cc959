----------------------------- MODULE MCDiskBuffer -----------------------------
(* Model-checking instance of DiskBuffer. *)
EXTENDS DiskBuffer, TLC

\* the loop and the drain at shutdown are the same code
ReaderSymmetry == Permutations(Readers)

\* what became of a record matters only as a whole: no guard looks at the three
\* sets, and the properties ask for their union
Unlisted == acked \cup passed \cup reported
OneHistory ==
    <<bufVars, boundVars, nextRec, readVars, Unlisted, strayed, corrupted, powerLost,
      flushed, firstMine, evicted>>
=============================================================================
