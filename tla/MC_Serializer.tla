--------------------------- MODULE MC_Serializer ---------------------------
(* The serializer with two asynchronous commands and a blocked execution     *)
(* that may be cancelled, so that commands of both kinds meet in one queue    *)
(* and in different ones.                                                     *)
EXTENDS Serializer
=============================================================================
