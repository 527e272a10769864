--------------------------- MODULE MCAmsWriteback ---------------------------
(* Small instances of AmsWriteback.                                           *)
EXTENDS AmsWriteback, TLC

CONSTANTS acme, typo, new

=============================================================================
