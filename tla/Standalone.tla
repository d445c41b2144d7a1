----------------------------- MODULE Standalone -----------------------------
(***************************************************************************)
(* Three parts of the agent that share neither state nor a call: the       *)
(* sensor hub, the file broker, and the choice of activities.  A behaviour *)
(* of all together is one of each; the specification takes one of them,    *)
(* and the others stay as they began.                                      *)
(***************************************************************************)
EXTENDS Sensors, Broker, ActivitySelection

VARIABLE part   \* which of them

standaloneVars == <<part, sensorVars, brokerVars, selectionVars>>

StandaloneInit ==
  /\ part \in {"sensors", "broker", "selection"}
  /\ SensorInit /\ BrokerInit /\ SelectionInit

SensorStep == part = "sensors" /\ SensorNext /\ UNCHANGED <<part, brokerVars, selectionVars>>
BrokerStep == part = "broker" /\ BrokerNext /\ UNCHANGED <<part, sensorVars, selectionVars>>
SelectionStep == part = "selection" /\ SelectionNext /\ UNCHANGED <<part, sensorVars, brokerVars>>

StandaloneNext == SensorStep \/ BrokerStep \/ SelectionStep

StandaloneSpec == StandaloneInit /\ [][StandaloneNext]_standaloneVars
=============================================================================
