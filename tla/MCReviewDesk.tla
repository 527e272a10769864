---------------------------- MODULE MCReviewDesk ----------------------------
(* A commercial submission: documents tell the X-date, an address has to be typed. *)
EXTENDS ReviewDesk

MCDocuments == [Extracted -> {"june", "july", Blank}]
MCUploads == {<<d>> : d \in MCDocuments} \cup {<<[f \in Extracted |-> "june"], [f \in Extracted |-> "july"]>>}
=============================================================================
