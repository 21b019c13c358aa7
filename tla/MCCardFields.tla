---------------------------- MODULE MCCardFields ----------------------------
(* Small instances of CardFields for TLC. *)
EXTENDS CardFields

CONSTANTS a, b

W(n) == [kind |-> "plain", word |-> n]
S == Text!Sep

MCCards == {a, b}
MCSplits == {a}
MCMen == {b}

\* The name on card b has a middle name and cannot be split; its address has single
\* separators.
MCThaiText == [c \in MCCards |-> IF c = a THEN <<W(1), S, W(2), S, S, W(3)>>
                                          ELSE <<W(4), S, W(5), S, W(6), S, W(7)>>]
MCEnglishText == [c \in MCCards |-> IF c = a THEN <<W(8), S, W(9), S, S, W(10)>>
                                             ELSE <<W(11), S, W(12), S, S, W(13)>>]
MCAddressText == [c \in MCCards |->
    IF c = a THEN <<W(14), S, S, S, W(15), S, S, W(16), S, W(17), S, W(18)>>
             ELSE <<W(19), S, W(20), S, W(21), S, W(22), S, W(23)>>]
=============================================================================
