------------------------------ MODULE MCUpkeep ------------------------------
(* Instance of the Nest, of dream_run, of the fleet and of the Norns, which *)
(* share nothing: one of them is running in each behaviour.                 *)
EXTENDS Nest, Dream, Fleet, Norn

CONSTANT Parts
VARIABLE part

MCOrder == <<"grove_serve", "journal_responder">>

mcVars == <<part, nestVars, dreamVars, fleetVars, nornVars>>
MCInit == part \in Parts /\ NestInit /\ DreamInit /\ FleetInit /\ NornInit
NestRuns  == part = "nest"  /\ NestNext  /\ UNCHANGED <<part, dreamVars, fleetVars, nornVars>>
DreamRuns == part = "dream" /\ DreamNext /\ UNCHANGED <<part, nestVars, fleetVars, nornVars>>
FleetRuns == part = "fleet" /\ FleetNext /\ UNCHANGED <<part, nestVars, dreamVars, nornVars>>
NornsRun  == part = "norn"  /\ NornNext  /\ UNCHANGED <<part, nestVars, dreamVars, fleetVars>>
MCSpec == MCInit /\ [][NestRuns \/ DreamRuns \/ FleetRuns \/ NornsRun]_mcVars
          /\ FleetFairness /\ NornFairness
=============================================================================
