--------------------------- MODULE MCFat32Reader ----------------------------
(* Every table of four data clusters whose entries are free, last, one of  *)
(* three clusters, or past the end, with three directory layouts that have *)
(* two entries per cluster: 28 bits are scaled to 0..31.                   *)
EXTENDS Fat32Reader

CONSTANTS A, B, Upper   \* two names, and what the upper bits of an entry may be

D(kind, name, start, nbytes) ==
    [kind |-> kind, name |-> name, start |-> start, nbytes |-> nbytes]
End == D("end", A, 0, 0)

Layouts == {
    << <<D("file", A, 3, 1), D("dir", B, 4, 0)>>, <<D("file", B, 5, 2), D("deleted", A, 4, 1)>>,
       <<D("lfn", A, 5, 0), D("file", A, 5, 1)>>, <<End, D("file", B, 3, 1)>> >>,
    << <<D("label", A, 0, 0), D("dir", A, 0, 0)>>, <<End, D("file", A, 4, 1)>>,
       <<D("file", B, 0, 0), D("dir", A, 3, 0)>>, <<D("file", B, 2, 1), End>> >>,
    << <<D("file", B, 1, 1), D("deleted", B, 3, 1)>>, <<D("file", A, 5, 3), D("file", B, 4, 1)>>,
       <<D("dir", A, 5, 0), End>>, <<D("file", A, 2, 1), D("lfn", B, 0, 0)>> >> }

MCDisks ==
    {[fat |-> [c \in Cluster |-> CASE c = 0 -> 24 [] c = 1 -> 31 [] OTHER -> f[c] + 32 * u],
      root |-> 2,
      dents |-> [c \in Cluster |-> IF c < 2 THEN <<>> ELSE l[c - 1]]] :
        f \in [2..5 -> {0, 24, 3, 4, 5, 6}], l \in Layouts, u \in Upper}
=============================================================================
