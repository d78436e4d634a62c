----------------------------- MODULE MCWorkerPool ----------------------------
(* "a" is moved to "v", whose next name is the subtitle "b"'s, and backed up   *)
(* to "w", which is taken and has one suffix, while "b" is moved to "w" and a  *)
(* sync task is submitted, by two callers.  Capacity two: a task is refused or *)
(* the limit overrun.                                                          *)
EXTENDS WorkerPool

MCTasks    == {"t1", "t2", "t4", "t5"}
MCPaths    == {"a", "b", "v", "w", "w1"}
MCSuffixed == [p \in MCPaths |-> CASE p = "v" -> <<"b">> [] p = "w" -> <<"w1">>
                                  [] OTHER -> <<>>]
MCSubmits  == [c \in {"c1", "c2"} |-> IF c = "c1" THEN <<"t1", "t5">> ELSE <<"t2", "t4">>]
MCKind     == [t \in MCTasks |-> CASE t \in {"t1", "t4"} -> "move" [] t = "t2" -> "copy"
                                   [] OTHER -> "sync"]
MCSource   == [t \in MCTasks |-> IF t = "t4" THEN "b" ELSE "a"]
MCWanted   == [t \in MCTasks |-> IF t = "t1" THEN "v" ELSE "w"]

\* The instance is one the theorems are about.
ASSUME InstanceSeparate == NoRenameRace
=============================================================================
