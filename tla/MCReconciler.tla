---------------------------- MODULE MCReconciler ----------------------------
EXTENDS ReconcilerJournal, TLC, FiniteSetsExt
CONSTANTS r1, r2
OneProgram == {{Root, r1}}
OnOff == {{Root, r1}, {Root}}
ManyPrograms == {{Root, r1}, {Root, r1, r2}}
ManagerSymmetry == Permutations(Managers)

\* Bounds: what comes after the object has gone, and after so many checkpoints, is
\* not explored.
WhileThere == Cur(objs).there
Early == WhileThere /\ Len(secrets) <= 5

Working == {m \in Managers : ~At(m, "idle")}

\* What the properties read of versions that no manager can come back to.
Past == << {<<objs[i].there, objs[i].gen, objs[i].deleting, objs[i].fin, objs[i].observed>> : i \in 1..Len(objs)},
           {secrets[i] : i \in {j \in 1..Len(secrets) : ~secrets[j].there}} >>

\* Two states that differ only in such versions, and in how many they were,
\* behave alike; flushes go by the number of checkpoints.
View ==
  LET o == Min({seen[m].obj : m \in Managers} \cup {work[m].rv : m \in Working})
      s == Min({seen[m].secret : m \in Managers} \cup {work[m].handle : m \in {n \in Managers : Loaded(n)}})
      Shifted(m) == [work[m] EXCEPT !.rv = IF m \in Working THEN 1 + @ - o ELSE 0,
                                    !.handle = IF Loaded(m) THEN 1 + @ - s ELSE 0]
  IN  << SubSeq(objs, o, Len(objs)), SubSeq(secrets, s, Len(secrets)), Past,
         [m \in Managers |-> <<seen[m].obj - o, seen[m].secret - s, Shifted(m)>>],
         queued, cloud, touches, faults, Min({Len(secrets), MaxSnapshots}) >>
=============================================================================
