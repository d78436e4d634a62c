--------------------------- MODULE MCMatchExecutor ---------------------------
(* Small instances of MatchExecutor: operations on the subtitles "a", "b" and *)
(* "c"; "v" and its variants are names beside the videos, "d" one beside "c",  *)
(* whose next name is another subtitle's.                                     *)
EXTENDS MatchExecutor

MCTasks == {"b1", "p1", "b2", "p2", "b3", "p3"}
MCPaths == {"a", "b", "v", "v1", "v2", "c", "d", "a.bak", "a.bak1", "b.bak", "c.bak"}
MCSuffixed ==
  [p \in MCPaths |-> CASE p = "v" -> <<"v1", "v2">> [] p = "a.bak" -> <<"a.bak1">>
                        [] p = "d" -> <<"a">> [] OTHER -> <<>>]
MCBackupTask  == <<"b1", "b2", "b3">>
MCPrimaryTask == <<"p1", "p2", "p3">>
MCSource == [t \in MCTasks |-> CASE t \in {"b1", "p1"} -> "a" [] t \in {"b2", "p2"} -> "b" [] OTHER -> "c"]
KindOf(mode) == IF mode = "copy" THEN "copyWithRename" ELSE "move"
MCKind == [t \in MCTasks |-> CASE t = "p1" -> KindOf(Mode[1]) [] t = "p2" -> KindOf(Mode[2]) [] t = "p3" -> KindOf(Mode[3])
                               [] OTHER -> "copy"]

\* A move to a name that is taken, a subtitle of an archive, copied, and one that
\* is renamed where it is.
ThreeModes == <<"move", "copy", "none">>
Relocated  == <<TRUE, TRUE, FALSE>>
ToTaken ==
  [t \in MCTasks |-> CASE t \in {"p1", "p2"} -> "v" [] t = "p3" -> "d"
                       [] t = "b1" -> "a.bak" [] t = "b2" -> "b.bak" [] OTHER -> "c.bak"]

\* The instance is one the theorems are about.
ASSUME InstancePlanned == SafePlan /\ ResolvedPlan
===========================================================================
