------------------------------- MODULE MCRpc -------------------------------
(* A client of three broadcast endpoints and two read providers, which       *)
(* either submits a transaction or reads: the calls share no state.          *)
EXTENDS Broadcast, FiniteSets

CONSTANTS Providers, Timeout, Window, GasWindow, Kinds, MaxHeight, MaxFork

ASSUME ReadsAssumption ==
  /\ IsFiniteSet(Providers)
  /\ Timeout \in Nat \ {0}
  /\ Window \in 0 .. Timeout
  /\ GasWindow \in 0 .. Window
  /\ MaxHeight \in Nat \ {0}
  /\ MaxFork \in Nat

VARIABLES
  client,  \* what the client is used for
  best, view, start, kind, about, reply, waited, first, result

readVars == <<best, view, start, kind, about, reply, waited, first, result>>

Reads == INSTANCE RpcReads

ASSUME KindsAssumption == Kinds \subseteq Reads!AllKinds

InitMC ==
  /\ Init
  /\ Reads!Init
  /\ client \in {"submits", "reads"}
  /\ client = "submits" => best.height = 0

NextMC ==
  \/ client = "submits" /\ Next /\ UNCHANGED <<client, readVars>>
  \/ client = "reads" /\ Reads!Next /\ UNCHANGED <<client, vars>>

SpecMC == InitMC /\ [][NextMC]_<<vars, client, readVars>> /\ Fairness

ReadsTypeOK == Reads!TypeOK
ReceiptIsAgreed == Reads!ReceiptIsAgreed
ReadsAreOnTheSafeSide == Reads!ReadsAreOnTheSafeSide
AnswersAreUnanimous == Reads!AnswersAreUnanimous
=============================================================================
