--------------------------- MODULE MCKafkaMessaging ---------------------------
(* Two publications and a message nobody can parse over two partitions. *)
EXTENDS KafkaMessaging

CONSTANTS e1, e2, junk, part1, part2
=============================================================================
