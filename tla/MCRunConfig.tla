----------------------------- MODULE MCRunConfig -----------------------------
(***************************************************************************)
(* RunConfig with a grace period of 60 seconds by default and 30 wherever  *)
(* else it is set; an endpoint is an address, as it should be, and so are  *)
(* the other settings no durations.                                        *)
(***************************************************************************)
EXTENDS RunConfig

MCSeconds ==
  [v \in Settings \X Sources |->
     IF v[1] # "stage-stop-grace" THEN 0 ELSE IF v[2] = "default" THEN 60 ELSE 30]

=============================================================================
