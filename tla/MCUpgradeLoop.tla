---------------------------- MODULE MCUpgradeLoop ----------------------------
(***************************************************************************)
(* The page loop for TLC: all sizes around the page boundaries of a small  *)
(* page, and the real page on the image a comment of the code gives.       *)
(***************************************************************************)
EXTENDS UpgradeLoop

SmallImages == 0 .. (3 * PageSize + 1)
CommentImage == {1288736}

(* ProtocolEVSE.hpp:220, "Size":01288736: the size that is announced with   *)
(* a page is the size of the image.                                         *)
SizeAnnounced == \A packet \in received : packet.size = fileSize

=============================================================================
