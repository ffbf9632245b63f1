--------------------------- MODULE MCStagingClient ---------------------------
(***************************************************************************)
(* StagingClient on a small instance: two guids that parse and one that    *)
(* does not, in two spaces.                                                *)
(***************************************************************************)
EXTENDS StagingClient, TLC

CONSTANTS g1, g2, badGuid, n1, n2

MCGuids == {g1, g2, badGuid}
MCTaskGuids == {g1, g2}
MCJobNames == {n1, n2}
MCShortenedGuid == g1 :> n1 @@ g2 :> n2

=============================================================================
