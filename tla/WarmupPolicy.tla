---------------------------- MODULE WarmupPolicy ----------------------------
(***************************************************************************)
(* The words of the warmup policy (platform/warmup/policy.go): states of   *)
(* health and their ranks, lanes, and which lanes may send.                *)
(***************************************************************************)
EXTENDS Integers

Healths == {"healthy", "unknown", "watch", "throttled", "paused"}
Lanes == {"pending_auth", "probation", "healthy", "watch", "recovery",
          "quarantine", "blocked"}
SealedLanes == {"pending_auth", "quarantine", "blocked"}

stateRank(h) ==
    CASE h = "watch" -> 1 [] h = "throttled" -> 2 [] h = "paused" -> 3 [] OTHER -> 0

stateAtRank(r) ==
    CASE r = 1 -> "watch" [] r = 2 -> "throttled" [] r = 3 -> "paused" [] OTHER -> "healthy"

LaneMaySend(lane) == lane \in {"healthy", "watch", "probation", "recovery"}
=============================================================================
