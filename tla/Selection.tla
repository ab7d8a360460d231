----------------------------- MODULE Selection -----------------------------
(***************************************************************************)
(* What a loop keeps of a sequence that appends the elements it does not   *)
(* drop, as a recursive function on the turns of the loop.                 *)
(***************************************************************************)
EXTENDS Integers, Sequences

Without(s, dropped) ==
    LET upTo[n \in 0 .. Len(s)] ==
            IF n = 0 THEN << >>
            ELSE IF s[n] \in dropped THEN upTo[n - 1]
            ELSE Append(upTo[n - 1], s[n])
    IN  upTo[Len(s)]
=============================================================================
