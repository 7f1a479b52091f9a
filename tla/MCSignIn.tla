------------------------------ MODULE MCSignIn ------------------------------
(* The login of a user and the sessions that follow it, each on its own:    *)
(* `focus` says which of them moves.                                        *)
EXTENDS Sessions, Login, TLC

VARIABLE focus

Symmetry == Permutations(Calls) \cup Permutations(SessionIds) \cup Permutations(Visitors)

MCInit == SessionsInit /\ LoginInit /\ focus \in {"sessions", "login"}

MCNext ==
  \/ focus = "sessions" /\ SessionsNext /\ UNCHANGED <<loginVars, focus>>
  \/ focus = "login" /\ LoginNext /\ UNCHANGED <<sessionVars, focus>>

MCSpec == MCInit /\ [][MCNext]_<<sessionVars, loginVars, focus>>
=============================================================================
