----------------------------- MODULE Perimeter -----------------------------
(***************************************************************************)
(* What passes between an instance and its surroundings: the requests of   *)
(* the network and what they may do (Access), the logins that open         *)
(* sessions (Accounts), the fetches Copycast makes (Outbound), the calls   *)
(* of yt-dlp (EngineCalls), what it finds behind a pasted URL (Probe) and  *)
(* whose Feed comes of it (Registry), what of its items people pick        *)
(* (Selections), and what it says of itself to whoever asks (Health).      *)
(* They share no state, so a behaviour is about one of them.               *)
(***************************************************************************)
EXTENDS Access, Accounts, Outbound, EngineCalls, Health, Probe, Registry,
        Selections

VARIABLE direction

vars == <<direction, accessVars, accountVars, outVars, engineVars, healthVars, probeVars,
          registryVars, selectionVars>>

\* What the other parts may start with does not matter to a behaviour of one.
Init ==
    /\ direction \in {"in", "login", "out", "engine", "status", "paste", "own", "pick"}
    /\ AccessInit /\ AccountsInit /\ OutInit /\ EngineInit /\ HealthInit /\ ProbeInit /\ RegistryInit
    /\ SelectionsInit
    /\ direction # "in" => mode = "open" /\ conf = CHOOSE c \in Confs(mode) : TRUE
    /\ direction # "login" => authMode = "users" /\ budget = CHOOSE s \in Scenarios : TRUE
    /\ direction # "own" => \A i \in MirrorIds : ~Exists(i)
    /\ direction # "pick" => /\ sort = CHOOSE s \in SourceKinds : TRUE
                            /\ effort = CHOOSE e \in Efforts : TRUE
    /\ direction # "engine" =>
          <<clip, layers>> = CHOOSE x \in [status : Range(Statuses), size : Sizes] \X
                                          [config : Configs, feed : Stored] : TRUE

Next ==
    \/ direction = "in" /\ AccessNext
       /\ UNCHANGED <<direction, accountVars, outVars, engineVars, healthVars,
                      probeVars, registryVars, selectionVars>>
    \/ direction = "login" /\ AccountsNext
       /\ UNCHANGED <<direction, accessVars, outVars, engineVars, healthVars,
                      probeVars, registryVars, selectionVars>>
    \/ direction = "out" /\ OutNext
       /\ UNCHANGED <<direction, accessVars, accountVars, engineVars, healthVars,
                      probeVars, registryVars, selectionVars>>
    \/ direction = "engine" /\ EngineNext
       /\ UNCHANGED <<direction, accessVars, accountVars, outVars, healthVars,
                      probeVars, registryVars, selectionVars>>
    \/ direction = "status" /\ HealthNext
       /\ UNCHANGED <<direction, accessVars, accountVars, outVars, engineVars,
                      probeVars, registryVars, selectionVars>>
    \/ direction = "paste" /\ ProbeNext
       /\ UNCHANGED <<direction, accessVars, accountVars, outVars, engineVars,
                      healthVars, registryVars, selectionVars>>
    \/ direction = "own" /\ RegistryNext
       /\ UNCHANGED <<direction, accessVars, accountVars, outVars, engineVars,
                      healthVars, probeVars, selectionVars>>
    \/ direction = "pick" /\ SelectionsNext
       /\ UNCHANGED <<direction, accessVars, accountVars, outVars, engineVars,
                      healthVars, probeVars, registryVars>>

Spec == Init /\ [][Next]_vars
=============================================================================
