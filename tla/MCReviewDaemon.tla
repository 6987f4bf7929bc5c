--------------------------- MODULE MCReviewDaemon ---------------------------
(* The instances of ReviewDaemon that TLC checks. *)
EXTENDS ReviewDaemon

CONSTANTS s1, s2

\* One patchset of two patches, or two patchsets of one patch each.
TwoPatchesOfOne == [p \in {1, 2} |-> s1]
OneOfOne        == [p \in {1} |-> s1]
OneOfEach       == [p \in {1, 2} |-> IF p = 1 THEN s1 ELSE s2]

Times(cancel, rerun, restart, submit, crash, close) ==
  [e \in Event |-> CASE e = "cancel" -> cancel [] e = "rerun" -> rerun
                     [] e = "restart" -> restart [] e = "submit" -> submit
                     [] e = "crash" -> crash [] OTHER -> close]

NoRerun     == Times(1, 0, 1, 1, 1, 1)
Calm        == Times(0, 0, 0, 0, 0, 0)
RerunOnly   == Times(0, 1, 0, 0, 0, 0)
RerunCrash  == Times(1, 1, 0, 0, 1, 1)
RestartOnly == Times(0, 0, 1, 0, 0, 0)
CancelOnly  == Times(1, 0, 0, 0, 0, 0)
LiveLimit   == Times(1, 1, 0, 0, 1, 0)
=============================================================================
