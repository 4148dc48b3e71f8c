------------------------------- MODULE MCMqttHub -------------------------------
(***************************************************************************)
(* Two brokers and MQTT switched off.  With one address a new client always *)
(* gets that of the client before it.                                      *)
(***************************************************************************)
EXTENDS MqttHub

CONSTANTS BrokerA, BrokerB, h1, h2

MCEnabled == {BrokerA, BrokerB}
MCConfigs == {BrokerA, BrokerB, Off}
MCHandles == {h1, h2}
MCOneHandle == {h1}
=============================================================================
