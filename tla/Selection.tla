----------------------------- MODULE Selection -----------------------------
(***************************************************************************)
(* select_clips: which of the matching clips, ordered oldest first, go     *)
(* into a reel.  The random sample is a choice, so the result is the set   *)
(* of the selections that can come out.                                    *)
(***************************************************************************)
EXTENDS Sorting, Sequences

MiddleCount_Slip(n) == IF n <= 4 THEN n - 2 ELSE IF n <= 10 THEN 2 ELSE 3

MiddleCount(n) == IF n <= 2 THEN 0
                  ELSE IF n <= 4 THEN n - 2
                  ELSE IF n <= 9 THEN 2 ELSE 3

MiddlePool(n) == 2..(n - 1)

\* rng.sample: it raises, here it has no outcome, when the pool is too small.
Sample(pool, k) == {S \in SUBSET pool : Cardinality(S) = k}

\* The positions that can be selected from n clips.
Selections(n) ==
    IF n <= 4 THEN {1..n}
    ELSE {{1, n} \cup S : S \in Sample(MiddlePool(n), MiddleCount(n))}

\* The clips themselves: the middles are sorted by their position again.
Picked(clips, S) == [i \in 1..Cardinality(S) |-> clips[Order(S)[i]]]

SelectClips(clips) == {Picked(clips, S) : S \in Selections(Len(clips))}
=============================================================================
