--------------------------- MODULE MCGuideSnapshots ---------------------------
(***************************************************************************)
(* Instances of GuideSnapshots for TLC.                                    *)
(***************************************************************************)
EXTENDS GuideSnapshots

SlTag(kind, list) == [source |-> "streamline", kind |-> kind, safe |-> TRUE, list |-> list, known |-> TRUE,
                      dated |-> TRUE, view |-> 1]
Volatile(kind, list) == [SlTag(kind, list) EXCEPT !.safe = FALSE]
SomeTags == {SlTag("depth", 0), Volatile("motion", 1), 
             [Volatile("depth", 2) EXCEPT !.source = "ngx", !.dated = FALSE, !.view = 0]}

Symmetry == Permutations(Threads)
=============================================================================
