-------------------------- MODULE MCRedisCommands --------------------------
(* Instances of RedisCommands for TLC. *)
EXTENDS RedisCommands, TLC

CONSTANTS c1, c2, c3, r1, r2

OneValid == c1 :> "valid"
Mixed == c1 :> "malformed" @@ c2 :> "version" @@ c3 :> "unanswerable"
=============================================================================
