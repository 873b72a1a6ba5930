------------------------------- MODULE MCAlu -------------------------------
(* AluLaws with no flag set and all of them. *)
EXTENDS AluLaws

NoFlags == 2
AllFlags == 2 + 1 + 4 + 16 + 64 + 128

MCStatuses == {NoFlags, AllFlags}

\* Words that carry out of either byte, or of none.
MCWords == {0, 1, 255, 256, 32768, 65535}
=============================================================================
