--------------------------- MODULE EvidenceStates ---------------------------
(* The verification states of an evidence object and the moves between them *)
(* that the service commits.  Shared by the aggregate, which takes a move   *)
(* as one step, and EvidenceReview, which has the steps that lead to it.    *)

EvidenceStatus == {"absent", "pending_upload", "uploaded", "verified", "rejected"}

EvidenceMoves ==
  {<<"absent", "pending_upload">>, <<"pending_upload", "uploaded">>,
   <<"pending_upload", "rejected">>, <<"uploaded", "verified">>,
   <<"uploaded", "rejected">>, <<"verified", "rejected">>}
=============================================================================
