----------------------------- MODULE MCStartup -----------------------------
(* Startup on a small instance. *)
EXTENDS Startup

TwoAddresses == <<"inet6", "inet">>

AllConfigs == ConfigType
=============================================================================
