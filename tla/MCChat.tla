------------------------------- MODULE MCChat -------------------------------
(* A thread of Slack, a message of Telegram and one of Discord; two        *)
(* deliveries at a time.                                                   *)
EXTENDS Chat, TLC

MCPlatform == "t1" :> "slack" @@ "t2" :> "telegram" @@ "t3" :> "discord"
MCSymmetry == Permutations(Sessions) \cup Permutations(Questions) \cup Permutations(Goroutines)
=============================================================================
