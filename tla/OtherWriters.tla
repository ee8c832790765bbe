--------------------------- MODULE OtherWriters ---------------------------
(***************************************************************************)
(* The writers beside the Chat publisher: the News publisher, and the      *)
(* recovery of old conversations.  They write different tables and their   *)
(* modules share no state, so a behaviour runs one of them, chosen at the  *)
(* start, and leaves the other where it begins.                            *)
(***************************************************************************)
EXTENDS NewsPipeline, HistoryRecovery

VARIABLE active

WritersInit == active \in {"news", "history"} /\ Init /\ HistoryInit

WritersNext ==
  \/ active = "news" /\ Next /\ UNCHANGED <<active, hvars>>
  \/ active = "history" /\ HistoryNext /\ UNCHANGED <<active, vars>>

WritersSpec == WritersInit /\ [][WritersNext]_<<active, vars, hvars>>

WritersTypeOK == TypeOK /\ HistoryTypeOK
=============================================================================
