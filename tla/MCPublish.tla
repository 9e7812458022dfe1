------------------------------- MODULE MCPublish -------------------------------
(* Three packages, each of which depends on the ones before it, as core,   *)
(* sql and cloudflare do, and two runs.                                    *)
EXTENDS PublishPackages

CONSTANTS core, sql, cloudflare, r1, r2

MCDepsOf ==
  [p \in Packages |-> CASE p = core -> {} [] p = sql -> {core} [] OTHER -> {core, sql}]

MCMaxVersion == [p \in Packages |-> IF p = cloudflare THEN 1 ELSE 2]

RunSymmetry == Permutations(Runs)
=============================================================================
