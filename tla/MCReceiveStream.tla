--------------------------- MODULE MCReceiveStream ---------------------------
(* Four responses to one player, each different, the last one of a player  *)
(* who has no place in the ranking.                                        *)
EXTENDS ReceiveStream

PlayerName == << 97, 49 >>

FourResponses ==
  << [type |-> RESPONSE_SAVE_SCORE, id |-> PlayerName, feedback |-> 0],
     [type |-> RESPONSE_PLAYER_RANKING, id |-> PlayerName,
      score |-> 1002, ranking |-> 2, inRanking |-> 1],
     [type |-> RESPONSE_SAVE_SCORE, id |-> PlayerName, feedback |-> 1],
     [type |-> RESPONSE_PLAYER_RANKING, id |-> PlayerName,
      score |-> -1, ranking |-> 0, inRanking |-> 0] >>

=============================================================================
