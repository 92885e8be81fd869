---------------------------- MODULE MCSpamFilter ----------------------------
(***************************************************************************)
(* Two tables with the ratios of the source scaled down: "rx" is            *)
(* CTMap<12> with withdraw<1> and replenish<4>, "ping" is CTMap<15> with    *)
(* withdraw<15> and replenish<1> (getpeers_spamtable has ping's numbers).   *)
(***************************************************************************)
EXTENDS SpamFilter

MCMaxTokens == [rx |-> 3, ping |-> 3]
MCWithdraw  == [rx |-> 1, ping |-> 3]
MCReplenish == [rx |-> 1, ping |-> 1]

=============================================================================
