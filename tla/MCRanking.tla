------------------------------- MODULE MCRanking -------------------------------
(* The evaluator and the picker alone.                                     *)
EXTENDS Ranking

MCSpec == RankingInit /\ [][RankingNext]_rankVars
=============================================================================
