---------------------------- MODULE MCRoomSerial ----------------------------
(* RoomSerial for TLC, with the deployed table.                              *)
EXTENDS RoomSerial

\* The columns of migrations/00006_guesses.sql.
MigratedColumns == {"id", "match_id", "user_id", "panorama_id", "round", "guess_x",
                    "guess_y", "guess_floor_id", "score", "distance", "created_at"}

=============================================================================
