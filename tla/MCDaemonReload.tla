--------------------------- MODULE MCDaemonReload ---------------------------
(***************************************************************************)
(* The instances of DaemonReload that TLC checks.                          *)
(***************************************************************************)
EXTENDS DaemonReload

MCChannels == {"channel"}
MCSupervisors == {"overlay"}

=============================================================================
