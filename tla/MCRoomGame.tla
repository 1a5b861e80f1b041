----------------------------- MODULE MCRoomGame -----------------------------
(* RoomGame for TLC: the deployed table and the symmetries of the model.    *)
EXTENDS RoomGame

\* The columns of migrations/00006_guesses.sql.
MigratedColumns == {"id", "match_id", "user_id", "panorama_id", "round", "guess_x",
                    "guess_y", "guess_floor_id", "score", "distance", "created_at"}

\* Slots, tokens, panoramas and players are interchangeable.
Symmetry == Permutations(User) \cup Permutations(Slot) \cup Permutations(Token)
              \cup Permutations(Pano)

=============================================================================
