--------------------------- MODULE TransactionLog ---------------------------
(***************************************************************************)
(* What a node promises about the log its linearizer builds: blocks of     *)
(* transactions are appended, nothing written is ever changed, and within  *)
(* a range every transaction is logged once, in order and without a gap.   *)
(* The ranges may be interleaved in any way.                               *)
(***************************************************************************)
EXTENDS Linearizer

VARIABLE log

Init == log = <<>>

AppendBlock == /\ IsPrefix(log, log')
               /\ InOrderWithoutGaps(log')

Spec == Init /\ [][AppendBlock]_log
=============================================================================
