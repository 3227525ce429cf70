----------------------------- MODULE MCFlashChat ----------------------------
(* Values of FlashChat's constants for TLC.                                *)
EXTENDS FlashChat, TLC

CONSTANTS u1, u2, m1, o1

\* One of another device, then one of this.
TwoKeys == <<o1, m1>>
OneKey == <<m1>>
=============================================================================
