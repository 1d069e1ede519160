--------------------------- MODULE MCAppServices ---------------------------
(* Instances of AppServices for TLC.  The two services share no variable but *)
(* running, so that what they do together is what each does alone: a         *)
(* behaviour of MCSpec exercises one of them.  Jobs and images are           *)
(* interchangeable.                                                          *)
EXTENDS AppServices, TLC

VARIABLE service

Symmetry == Permutations(Job) \cup Permutations(Image)

MCInit == Init /\ service \in {"settings", "background"}

MCNext ==
    /\ UNCHANGED service
    /\ \/ Main \/ Kill
       \/ service = "settings" /\ SettingsStep
       \/ service = "background" /\ BackgroundStep

MCSpec == MCInit /\ [][MCNext]_<<vars, service>>
=============================================================================
